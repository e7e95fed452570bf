------------------------- MODULE NutServicesProofs --------------------------
(***************************************************************************)
(* The invariants of mutexes and semaphores hold for any number of         *)
(* threads, mutexes, conditions and semaphores, and whatever the bounds;   *)
(* and they still hold when the threads use message queues, whose posts,   *)
(* waits and timers go through the same scheduler.                         *)
(***************************************************************************)
EXTENDS NutServices, PriQueueProofs, FiniteSetTheorems

\* The roots that belong to mutexes and semaphores.
OwnRoot == Mutex \cup Sem

QueuesTyped ==
    /\ runQueue \in Seq(Thread)
    /\ running \in Thread \cup {NIL}
    /\ waitq \in [Root -> Seq(Thread)]
    /\ signaled \in SUBSET Root
    /\ timed \in SUBSET Thread
    /\ timedOut \in SUBSET Thread

ProgTyped == DOMAIN step = Thread /\ DOMAIN obj = Thread

SyncTyped ==
    /\ owner \in [Mutex -> Thread \cup {NIL}]
    /\ count \in [Mutex -> Nat]
    /\ value \in [Sem -> Int]
    /\ held \in [Mutex -> [Thread -> Nat]]

\* A thread inside a call works on an object of the right kind.
ProgOK ==
    \A t \in Thread :
        /\ step[t] = "lock" => obj[t] \in Mutex
        /\ step[t] \in {"wait", "timedwait", "relock", "broadcast"} => obj[t] \in Condition

\* Who waits for a mutex is in the loop of NutMutexLock.
LockersWait ==
    \A m \in Mutex : \A t \in ToSet(waitq[m]) : step[t] = "lock" /\ obj[t] = m

\* Nobody waits for a mutex or a semaphore with a timer.
Untimed == \A q \in OwnRoot : ToSet(waitq[q]) \cap timed = {}

Queues == QueuesTyped /\ Placed

\* The inductive invariant.
IInv ==
    /\ Queues /\ ProgTyped /\ SyncTyped
    /\ ProgOK /\ LockersWait /\ Untimed
    /\ MutexExclusive /\ MutexHandedOn /\ SemWaiters

-----------------------------------------------------------------------------
(* The scheduler.                                                          *)

\* NutThreadYield keeps the threads of the run queue.
LEMMA YieldedKeeps ==
    ASSUME NEW rq \in Seq(Thread), NEW t \in Thread, IsInjective(rq), t \in ToSet(rq)
    PROVE  LET e == Yielded(rq, t) IN
           e \in Seq(Thread) /\ IsInjective(e) /\ ToSet(e) = ToSet(rq)
<1> DEFINE d == Dequeued(rq, t)
<1>1. CASE rq[Len(rq)] = t
  BY <1>1 DEF Yielded
<1>2. CASE rq[Len(rq)] # t
  <2>1. d \in Seq(Thread) /\ IsInjective(d) /\ ToSet(d) = ToSet(rq) \ {t}
    BY DequeuedSet
  <2>2. Yielded(rq, t) = Enqueued(d, t, td_priority)
    BY <1>2 DEF Yielded
  <2> HIDE DEF d
  <2>3. t \notin ToSet(d)
    BY <2>1
  <2>4. ToSet(Enqueued(d, t, td_priority)) = ToSet(d) \cup {t}
        /\ Enqueued(d, t, td_priority) \in Seq(Thread)
    BY <2>1, EnqueuedSet
  <2>5. IsInjective(Enqueued(d, t, td_priority))
    BY <2>1, <2>3, EnqueuedInjective
  <2> QED BY <2>1, <2>2, <2>4, <2>5
<1> QED BY <1>1, <1>2

\* The running thread yields: nothing but its place in the run queue changes.
LEMMA YieldKeeps ==
    ASSUME Queues, NEW t \in Thread, running = t, runQueue' = Yielded(runQueue, t),
           running' = NIL, waitq' = waitq, timed' = timed, timedOut' \in SUBSET Thread,
           signaled' \subseteq signaled
    PROVE  Queues' /\ ToSet(runQueue') = ToSet(runQueue)
<1>1. t \in ToSet(runQueue)
  BY SchedAssumption DEF Queues, QueuesTyped, Placed
<1>2. /\ runQueue' \in Seq(Thread) /\ IsInjective(runQueue')
      /\ ToSet(runQueue') = ToSet(runQueue)
  BY <1>1, YieldedKeeps DEF Queues, QueuesTyped, Placed
<1> QED BY <1>2 DEF Queues, QueuesTyped, Placed

\* The length of a queue after an insertion.
LEMMA EnqueuedLength ==
    ASSUME NEW s \in Seq(Thread), NEW t \in Thread
    PROVE  Len(Enqueued(s, t, td_priority)) = Len(s) + 1
  BY EnqueuedIs DEF Inserted

\* The running thread leaves the run queue for the queue of q.
LEMMA BlockKeeps ==
    ASSUME Queues, NEW t \in Thread, running = t, NEW q \in Root, NEW w \in BOOLEAN,
           Block(t, q, w)
    PROVE  /\ Queues'
           /\ ToSet(runQueue') = ToSet(runQueue) \ {t}
           /\ ToSet(waitq'[q]) = ToSet(waitq[q]) \cup {t}
           /\ Len(waitq'[q]) = Len(waitq[q]) + 1
           /\ \A r \in Root \ {q} : waitq'[r] = waitq[r]
           /\ t \in ToSet(runQueue)
           /\ \A r \in Root : t \notin ToSet(waitq[r])
           /\ t \notin timed
<1>1. /\ t \in ToSet(runQueue) /\ t \notin timed
      /\ \A r \in Root : t \notin ToSet(waitq[r])
  BY SchedAssumption DEF Queues, QueuesTyped, Placed
<1>2. /\ runQueue' \in Seq(Thread) /\ IsInjective(runQueue')
      /\ ToSet(runQueue') = ToSet(runQueue) \ {t}
  BY DequeuedSet DEF Queues, QueuesTyped, Placed, Block
<1>3. waitq[q] \in Seq(Thread) /\ IsInjective(waitq[q])
  BY DEF Queues, QueuesTyped, Placed
<1>4. waitq'[q] = Enqueued(waitq[q], t, td_priority)
      /\ waitq' = [waitq EXCEPT ![q] = Enqueued(waitq[q], t, td_priority)]
  BY DEF Queues, QueuesTyped, Block
<1>5. /\ waitq'[q] \in Seq(Thread) /\ IsInjective(waitq'[q])
      /\ ToSet(waitq'[q]) = ToSet(waitq[q]) \cup {t}
      /\ Len(waitq'[q]) = Len(waitq[q]) + 1
  <2> DEFINE s == waitq[q]
             e == Enqueued(s, t, td_priority)
  <2>1. s \in Seq(Thread) /\ IsInjective(s) /\ t \notin ToSet(s)
    BY <1>1, <1>3
  <2> HIDE DEF s
  <2>2. e \in Seq(Thread) /\ ToSet(e) = ToSet(s) \cup {t}
    BY <2>1, EnqueuedSet
  <2>3. IsInjective(e)
    BY <2>1, EnqueuedInjective
  <2>4. Len(e) = Len(s) + 1
    BY <2>1, EnqueuedLength
  <2> QED BY <1>4, <2>2, <2>3, <2>4 DEF s
<1>6. \A r \in Root \ {q} : waitq'[r] = waitq[r]
  BY <1>4 DEF Queues, QueuesTyped
<1>7. /\ running' = NIL /\ signaled' = signaled \ {q}
      /\ timed' \subseteq timed \cup {t} /\ timedOut' = timedOut \ {t}
  BY DEF Block
<1>8. QueuesTyped'
  BY <1>2, <1>4, <1>5, <1>7 DEF Queues, QueuesTyped
<1>9. Placed'
  <2>1. \A r \in Root : IsInjective(waitq'[r]) /\ ToSet(waitq'[r]) \cap ToSet(runQueue') = {}
    BY <1>1, <1>2, <1>5, <1>6 DEF Queues, Placed
  <2>2. \A r, u \in Root : r # u => ToSet(waitq'[r]) \cap ToSet(waitq'[u]) = {}
    BY <1>1, <1>5, <1>6 DEF Queues, Placed
  <2>3. \A r \in signaled' : waitq'[r] = <<>>
    BY <1>6, <1>7 DEF Queues, QueuesTyped, Placed
  <2>4. timed' \cap ToSet(runQueue') = {}
    BY <1>2, <1>7 DEF Queues, Placed
  <2> QED BY <1>2, <1>7, <2>1, <2>2, <2>3, <2>4 DEF Placed
<1> QED BY <1>1, <1>2, <1>5, <1>6, <1>8, <1>9 DEF Queues

\* The run queue after a post.
LEMMA ReadyKeeps ==
    ASSUME Queues, NEW q \in Root
    PROVE  LET e == ReadyAfterPost(q) IN
           /\ e \in Seq(Thread) /\ IsInjective(e)
           /\ ToSet(e) = ToSet(runQueue)
                 \cup (IF waitq[q] = <<>> THEN {} ELSE {Head(waitq[q])})
<1>1. runQueue \in Seq(Thread) /\ IsInjective(runQueue) /\ waitq[q] \in Seq(Thread)
  BY DEF Queues, QueuesTyped, Placed
<1>2. CASE waitq[q] = <<>>
  BY <1>1, <1>2 DEF ReadyAfterPost
<1>3. CASE waitq[q] # <<>>
  <2> DEFINE h == Head(waitq[q])
             e == Enqueued(runQueue, h, td_priority)
  <2>1. h \in Thread /\ h \in ToSet(waitq[q])
    BY <1>1, <1>3, HeadOf
  <2>2. h \notin ToSet(runQueue)
    BY <2>1 DEF Queues, Placed
  <2>3. ReadyAfterPost(q) = e
    BY <1>3 DEF ReadyAfterPost
  <2> HIDE DEF h
  <2>4. e \in Seq(Thread) /\ ToSet(e) = ToSet(runQueue) \cup {h}
    BY <1>1, <2>1, EnqueuedSet
  <2>5. IsInjective(e)
    BY <1>1, <2>1, <2>2, EnqueuedInjective
  <2> QED BY <1>3, <2>3, <2>4, <2>5 DEF h
<1> QED BY <1>2, <1>3

\* An event is posted to the queue of q, and the caller may yield.
LEMMA PostKeeps ==
    ASSUME Queues, NEW q \in Root, PostTo(q),
           running' = NIL \/ running' = running,
           runQueue' \in Seq(Thread), IsInjective(runQueue'),
           ToSet(runQueue') = ToSet(ReadyAfterPost(q))
    PROVE  /\ Queues'
           /\ ToSet(runQueue) \subseteq ToSet(runQueue')
           /\ timed' \subseteq timed
           /\ \A r \in Root \ {q} : waitq'[r] = waitq[r]
           /\ waitq[q] = <<>> => waitq' = waitq /\ signaled' = signaled \cup {q}
           /\ waitq[q] # <<>> => /\ waitq'[q] = Tail(waitq[q]) /\ signaled' = signaled
                                 /\ Head(waitq[q]) \in ToSet(runQueue')
                                 /\ Head(waitq[q]) \in ToSet(waitq[q])
<1>1. ToSet(runQueue') = ToSet(runQueue)
                 \cup (IF waitq[q] = <<>> THEN {} ELSE {Head(waitq[q])})
  BY ReadyKeeps
<1>2. waitq[q] \in Seq(Thread) /\ IsInjective(waitq[q])
  BY DEF Queues, QueuesTyped, Placed
<1>3. CASE waitq[q] = <<>>
  <2>1. /\ waitq' = waitq /\ signaled' = signaled \cup {q}
        /\ timed' = timed /\ timedOut' = timedOut
    BY <1>3 DEF PostTo
  <2>2. ToSet(runQueue') = ToSet(runQueue)
    BY <1>1, <1>3
  <2>3. QueuesTyped'
    BY <2>1 DEF Queues, QueuesTyped
  <2>4. Placed'
    BY <1>3, <2>1, <2>2, SchedAssumption DEF Queues, QueuesTyped, Placed
  <2> QED BY <1>3, <2>1, <2>2, <2>3, <2>4 DEF Queues
<1>4. CASE waitq[q] # <<>>
  <2> DEFINE h == Head(waitq[q])
  <2>1. h \in Thread /\ h \in ToSet(waitq[q])
    BY <1>2, <1>4, HeadOf
  <2>2. /\ waitq' = [waitq EXCEPT ![q] = Tail(waitq[q])] /\ signaled' = signaled
        /\ timed' = timed \ {h} /\ timedOut' = timedOut
    BY <1>4 DEF PostTo
  <2>3. /\ waitq'[q] = Tail(waitq[q]) /\ \A r \in Root \ {q} : waitq'[r] = waitq[r]
    BY <2>2 DEF Queues, QueuesTyped
  <2>4. /\ waitq'[q] \in Seq(Thread) /\ IsInjective(waitq'[q])
        /\ ToSet(waitq'[q]) = ToSet(waitq[q]) \ {h}
    BY <1>2, <1>4, <2>3, TailSet
  <2>5. ToSet(runQueue') = ToSet(runQueue) \cup {h}
    BY <1>1, <1>4
  <2> HIDE DEF h
  <2>6. QueuesTyped'
    BY <2>2, <2>4 DEF Queues, QueuesTyped
  <2>7. Placed'
    <3>1. \A r \in Root : IsInjective(waitq'[r]) /\ ToSet(waitq'[r]) \cap ToSet(runQueue') = {}
      BY <2>1, <2>3, <2>4, <2>5 DEF Queues, Placed
    <3>2. \A r, u \in Root : r # u => ToSet(waitq'[r]) \cap ToSet(waitq'[u]) = {}
      BY <2>3, <2>4 DEF Queues, Placed
    <3>3. \A r \in signaled' : waitq'[r] = <<>>
      BY <1>4, <2>2, <2>3 DEF Queues, QueuesTyped, Placed
    <3>4. timed' \cap ToSet(runQueue') = {}
      BY <2>2, <2>5 DEF Queues, Placed
    <3>5. running' # NIL => running' \in ToSet(runQueue')
      BY <2>5 DEF Queues, Placed
    <3> QED BY <3>1, <3>2, <3>3, <3>4, <3>5 DEF Placed
  <2> QED BY <1>4, <2>1, <2>2, <2>3, <2>5, <2>6, <2>7 DEF Queues, h
<1> QED BY <1>3, <1>4

\* What NutEventPostAsync and NutEventPost leave in the run queue.
LEMMA PostReady ==
    ASSUME Queues, NEW q \in Root, NEW t \in Thread,
           NutEventPostAsync(q) \/ (running = t /\ NutEventPost(t, q))
    PROVE  /\ PostTo(q)
           /\ running' = NIL \/ running' = running
           /\ runQueue' \in Seq(Thread) /\ IsInjective(runQueue')
           /\ ToSet(runQueue') = ToSet(ReadyAfterPost(q))
<1> DEFINE e == ReadyAfterPost(q)
<1>1. e \in Seq(Thread) /\ IsInjective(e) /\ ToSet(runQueue) \subseteq ToSet(e)
  BY ReadyKeeps
<1>2. running = t => t \in ToSet(e)
  BY <1>1, SchedAssumption DEF Queues, Placed
<1> HIDE DEF e
<1>3. running = t => Yielded(e, t) \in Seq(Thread) /\ IsInjective(Yielded(e, t)) /\ ToSet(Yielded(e, t)) = ToSet(e)
  BY <1>1, <1>2, YieldedKeeps
<1> QED BY <1>1, <1>3 DEF e, NutEventPostAsync, NutEventPost

\* A timed wait ends by time-out.
LEMMA TimeoutKeeps ==
    ASSUME Queues, NEW t \in Thread, NEW q \in Root, NutEventTimeout(t, q)
    PROVE  /\ Queues'
           /\ ToSet(runQueue') = ToSet(runQueue) \cup {t}
           /\ t \in timed /\ t \in ToSet(waitq[q])
           /\ timed' \subseteq timed /\ signaled' = signaled
           /\ \A r \in Root \ {q} : waitq'[r] = waitq[r]
<1>1. waitq[q] \in Seq(Thread) /\ IsInjective(waitq[q])
      /\ runQueue \in Seq(Thread) /\ IsInjective(runQueue)
  BY DEF Queues, QueuesTyped, Placed
<1>2. /\ t \in timed /\ t \in ToSet(waitq[q]) /\ t \notin ToSet(runQueue)
  BY DEF Queues, Placed, NutEventTimeout
<1>3. /\ waitq' = [waitq EXCEPT ![q] = Dequeued(waitq[q], t)]
      /\ runQueue' = Enqueued(runQueue, t, td_priority)
      /\ timed' = timed \ {t} /\ timedOut' = timedOut \cup {t}
      /\ running' = running /\ signaled' = signaled /\ running = NIL
  BY DEF NutEventTimeout, Queues, QueuesTyped
<1>4. /\ waitq'[q] = Dequeued(waitq[q], t) /\ \A r \in Root \ {q} : waitq'[r] = waitq[r]
  BY <1>3 DEF Queues, QueuesTyped
<1>5. /\ waitq'[q] \in Seq(Thread) /\ IsInjective(waitq'[q])
      /\ ToSet(waitq'[q]) = ToSet(waitq[q]) \ {t}
  BY <1>1, <1>4, DequeuedSet
<1>6. runQueue' \in Seq(Thread) /\ ToSet(runQueue') = ToSet(runQueue) \cup {t}
  BY <1>1, <1>3, EnqueuedSet
<1>7. IsInjective(runQueue')
  BY <1>1, <1>2, <1>3, EnqueuedInjective
<1>8. QueuesTyped'
  BY <1>3, <1>5, <1>6 DEF Queues, QueuesTyped
<1>9. Placed'
  <2>1. \A r \in Root : IsInjective(waitq'[r]) /\ ToSet(waitq'[r]) \cap ToSet(runQueue') = {}
    <3>1. ASSUME NEW r \in Root \ {q}
          PROVE  IsInjective(waitq'[r]) /\ ToSet(waitq'[r]) \cap ToSet(runQueue') = {}
      <4>1. /\ waitq'[r] = waitq[r] /\ IsInjective(waitq[r])
            /\ ToSet(waitq[r]) \cap ToSet(runQueue) = {}
            /\ ToSet(waitq[r]) \cap ToSet(waitq[q]) = {}
        BY <1>4 DEF Queues, Placed
      <4> QED BY <1>2, <1>6, <4>1
    <3>2. IsInjective(waitq'[q]) /\ ToSet(waitq'[q]) \cap ToSet(runQueue') = {}
      <4>1. ToSet(waitq[q]) \cap ToSet(runQueue) = {}
        BY DEF Queues, Placed
      <4> QED BY <1>5, <1>6, <4>1
    <3> QED BY <3>1, <3>2
  <2>2. \A r, u \in Root : r # u => ToSet(waitq'[r]) \cap ToSet(waitq'[u]) = {}
    BY <1>4, <1>5 DEF Queues, Placed
  <2>3. \A r \in signaled' : waitq'[r] = <<>>
    <3>1. q \notin signaled
      BY <1>1, <1>2, ToSetOf DEF Queues, Placed
    <3> QED BY <1>3, <1>4, <3>1 DEF Queues, QueuesTyped, Placed
  <2>4. timed' \cap ToSet(runQueue') = {}
    BY <1>3, <1>6 DEF Queues, Placed
  <2> QED BY <1>3, <1>7, <2>1, <2>2, <2>3, <2>4 DEF Placed
<1> QED BY <1>2, <1>3, <1>4, <1>6, <1>8, <1>9 DEF Queues

-----------------------------------------------------------------------------
(* The inductive invariant.                                                *)

\* It holds initially: the run queue holds every thread once.
LEMMA InitIInv == Init => IInv
<1> SUFFICES ASSUME Init PROVE IInv
  OBVIOUS
<1> USE SchedAssumption, SyncAssumption
<1>1. Cardinality(Thread) \in Nat
  BY FS_CardinalityType
<1>2. /\ runQueue \in [1..Cardinality(Thread) -> Thread]
      /\ \A i, j \in 1..Cardinality(Thread) : i # j => runQueue[i] # runQueue[j]
  BY DEF Init, SchedInit, SetToSeqs
<1>3. runQueue \in Seq(Thread) /\ Len(runQueue) = Cardinality(Thread)
  BY <1>1, <1>2
<1>4. IsInjective(runQueue)
  BY <1>2, <1>3 DEF IsInjective
<1>5. /\ running = NIL /\ waitq = [q \in Root |-> <<>>]
      /\ signaled = {} /\ timed = {} /\ timedOut = {}
      /\ step = [t \in Thread |-> "user"] /\ obj = [t \in Thread |-> NIL]
  BY DEF Init, SchedInit
<1>6. /\ owner = [m \in Mutex |-> NIL] /\ count = [m \in Mutex |-> 0]
      /\ value = [x \in Sem |-> InitialValue]
      /\ held = [m \in Mutex |-> [t \in Thread |-> 0]]
  BY DEF Init, SyncInit
<1>7. QueuesTyped /\ ProgTyped /\ SyncTyped
  <2>1. QueuesTyped
    <3>1. waitq \in [Root -> Seq(Thread)]
      BY <1>5
    <3> QED BY <1>3, <1>5, <3>1 DEF QueuesTyped
  <2>2. ProgTyped
    BY <1>5 DEF ProgTyped
  <2>3. SyncTyped
    BY <1>6 DEF SyncTyped
  <2> QED BY <2>1, <2>2, <2>3
<1>8. \A q \in Root : waitq[q] = <<>> /\ ToSet(waitq[q]) = {} /\ IsInjective(waitq[q])
  BY <1>5 DEF ToSet, IsInjective
<1>9. Placed
  BY <1>4, <1>5, <1>8 DEF Placed
<1>10. ProgOK /\ LockersWait /\ Untimed
  BY <1>5, <1>8 DEF ProgOK, LockersWait, Untimed, OwnRoot
<1>11. MutexExclusive /\ MutexHandedOn
  BY <1>5, <1>6, <1>8 DEF MutexExclusive, MutexHandedOn
<1>12. SemWaiters
  BY <1>5, <1>6, <1>8 DEF SemWaiters
<1> QED BY <1>7, <1>9, <1>10, <1>11, <1>12 DEF IInv, Queues

\* A step that leaves the objects and their queues alone, and moves no thread out of the
\* loop of NutMutexLock.
LEMMA Elsewhere ==
    ASSUME IInv, Queues', ProgTyped', ProgOK', UNCHANGED syncVars,
           \A q \in OwnRoot : waitq'[q] = waitq[q] /\ (q \in signaled' => q \in signaled),
           \A q \in OwnRoot : ToSet(waitq[q]) \cap timed' = {},
           \A u \in Thread : step[u] = "lock" =>
                 /\ step'[u] = "lock" /\ obj'[u] = obj[u]
                 /\ u \in ToSet(runQueue) => u \in ToSet(runQueue')
    PROVE  IInv'
<1> USE SchedAssumption, SyncAssumption
<1>1. SyncTyped' /\ MutexExclusive'
  BY DEF IInv, syncVars, SyncTyped, MutexExclusive
<1>2. Untimed'
  BY DEF Untimed, OwnRoot
<1>3. LockersWait'
  <2>1. \A m \in Mutex : waitq'[m] = waitq[m] /\ ToSet(waitq[m]) \subseteq Thread
    BY ToSetOf DEF IInv, Queues, QueuesTyped, OwnRoot
  <2> QED BY <2>1 DEF IInv, LockersWait
<1>4. MutexHandedOn'
  <2>1. \A m \in Mutex : waitq'[m] = waitq[m] /\ count'[m] = count[m]
    BY DEF OwnRoot, syncVars
  <2>2. ToSet(runQueue) \subseteq Thread
    BY ToSetOf DEF IInv, Queues, QueuesTyped
  <2> QED BY <2>1, <2>2 DEF IInv, MutexHandedOn
<1>5. SemWaiters'
  BY DEF IInv, SemWaiters, OwnRoot, syncVars
<1> QED BY <1>1, <1>2, <1>3, <1>4, <1>5 DEF IInv

\* A thread goes on at another place of its code.
LEMMA GoToKeeps ==
    ASSUME ProgTyped, ProgOK, NEW t \in Thread, NEW place, NEW o,
           GoTo(t, place, o), place = "lock" => o \in Mutex,
           place \in {"wait", "timedwait", "relock", "broadcast"} => o \in Condition
    PROVE  /\ ProgTyped' /\ ProgOK'
           /\ step'[t] = place /\ obj'[t] = o
           /\ \A u \in Thread \ {t} : step'[u] = step[u] /\ obj'[u] = obj[u]
<1>1. /\ step'[t] = place /\ obj'[t] = o
      /\ \A u \in Thread \ {t} : step'[u] = step[u] /\ obj'[u] = obj[u]
  BY DEF ProgTyped, GoTo
<1>2. ProgTyped'
  BY DEF ProgTyped, GoTo
<1>3. ProgOK'
  BY <1>1 DEF ProgOK
<1> QED BY <1>1, <1>2, <1>3

\* NutEventWait on a root that is no mutex's and no semaphore's.
LEMMA WaitElsewhere ==
    ASSUME IInv, NEW t \in Thread, running = t, NEW q \in Root \ OwnRoot, NEW w \in BOOLEAN,
           NutEventWait(t, q, w)
    PROVE  /\ Queues' /\ ToSet(runQueue) \ {t} \subseteq ToSet(runQueue')
           /\ \A r \in OwnRoot : waitq'[r] = waitq[r] /\ (r \in signaled' => r \in signaled)
           /\ \A r \in OwnRoot : ToSet(waitq[r]) \cap timed' = {}
<1> USE SchedAssumption, SyncAssumption
<1>1. CASE Block(t, q, w)
  <2>1. /\ Queues' /\ ToSet(runQueue') = ToSet(runQueue) \ {t}
        /\ \A r \in Root \ {q} : waitq'[r] = waitq[r]
        /\ \A r \in Root : t \notin ToSet(waitq[r])
    BY <1>1, BlockKeeps DEF IInv
  <2>2. timed' \subseteq timed \cup {t} /\ signaled' \subseteq signaled
    BY <1>1 DEF Block
  <2> QED BY <2>1, <2>2 DEF IInv, Untimed, OwnRoot
<1>2. CASE ~Block(t, q, w)
  <2>1. /\ signaled' \subseteq signaled /\ timedOut' = timedOut \ {t}
        /\ runQueue' = Yielded(runQueue, t) /\ running' = NIL
        /\ waitq' = waitq /\ timed' = timed
    BY <1>2 DEF NutEventWait
  <2>2. timedOut' \in SUBSET Thread
    BY <2>1 DEF IInv, Queues, QueuesTyped
  <2>3. Queues' /\ ToSet(runQueue') = ToSet(runQueue)
    BY <2>1, <2>2, YieldKeeps DEF IInv
  <2> QED BY <2>1, <2>3 DEF IInv, Untimed
<1> QED BY <1>1, <1>2

\* An event is posted to a root that is no mutex's and no semaphore's.
LEMMA PostElsewhere ==
    ASSUME IInv, NEW t \in Thread, NEW q \in Root \ OwnRoot,
           NutEventPostAsync(q) \/ (running = t /\ NutEventPost(t, q))
    PROVE  /\ Queues' /\ ToSet(runQueue) \subseteq ToSet(runQueue')
           /\ \A r \in OwnRoot : waitq'[r] = waitq[r] /\ (r \in signaled' => r \in signaled)
           /\ \A r \in OwnRoot : ToSet(waitq[r]) \cap timed' = {}
<1> USE SchedAssumption, SyncAssumption
<1>1. /\ Queues' /\ ToSet(runQueue) \subseteq ToSet(runQueue') /\ timed' \subseteq timed
      /\ \A r \in Root \ {q} : waitq'[r] = waitq[r]
      /\ signaled' \subseteq signaled \cup {q}
  <2>1. Queues
    BY DEF IInv
  <2>2. /\ PostTo(q) /\ (running' = NIL \/ running' = running)
        /\ runQueue' \in Seq(Thread) /\ IsInjective(runQueue')
        /\ ToSet(runQueue') = ToSet(ReadyAfterPost(q))
    BY <2>1, PostReady
  <2> QED BY <2>1, <2>2, PostKeeps
<1> QED BY <1>1 DEF IInv, Untimed, OwnRoot

-----------------------------------------------------------------------------
(* The steps.                                                              *)

\* The scheduler's own.
LEMMA SchedStepIInv == IInv /\ SchedStep /\ UNCHANGED syncVars => IInv'
<1> SUFFICES ASSUME IInv, SchedStep, UNCHANGED syncVars PROVE IInv'
  OBVIOUS
<1> USE SchedAssumption, SyncAssumption
<1>1. CASE NutThreadSwitch
  <2>1. /\ runQueue' = runQueue /\ waitq' = waitq /\ signaled' = signaled /\ timed' = timed
        /\ timedOut' = timedOut /\ step' = step /\ obj' = obj
        /\ runQueue # <<>> /\ running' = Head(runQueue)
    BY <1>1 DEF NutThreadSwitch, progVars
  <2>2. running' \in Thread /\ running' \in ToSet(runQueue)
    BY <2>1, HeadOf DEF IInv, Queues, QueuesTyped
  <2>3. Queues'
    BY <2>1, <2>2 DEF IInv, Queues, QueuesTyped, Placed
  <2>4. ProgTyped' /\ ProgOK'
    BY <2>1 DEF IInv, ProgTyped, ProgOK
  <2> QED BY <2>1, <2>3, <2>4, Elsewhere DEF IInv, Untimed
<1>2. ASSUME NEW t \in Thread, NEW q \in Root, NutEventTimeout(t, q) PROVE IInv'
  <2>1. /\ Queues' /\ ToSet(runQueue') = ToSet(runQueue) \cup {t}
        /\ t \in timed /\ t \in ToSet(waitq[q])
        /\ timed' \subseteq timed /\ signaled' = signaled
        /\ \A r \in Root \ {q} : waitq'[r] = waitq[r]
    BY <1>2, TimeoutKeeps DEF IInv
  <2>2. q \notin OwnRoot
    BY <2>1 DEF IInv, Untimed
  <2>3. step' = step /\ obj' = obj
    BY <1>2 DEF NutEventTimeout, progVars
  <2>4. ProgTyped' /\ ProgOK'
    BY <2>3 DEF IInv, ProgTyped, ProgOK
  <2>5. \A r \in OwnRoot : waitq'[r] = waitq[r] /\ ToSet(waitq[r]) \cap timed' = {}
    BY <2>1, <2>2 DEF IInv, Untimed, OwnRoot
  <2> QED BY <2>1, <2>3, <2>4, <2>5, Elsewhere
<1>3. ASSUME NEW t \in Thread, Yield(t) PROVE IInv'
  <2>1. /\ running = t /\ runQueue' = Yielded(runQueue, t) /\ running' = NIL
        /\ waitq' = waitq /\ signaled' = signaled /\ timed' = timed /\ timedOut' = timedOut
        /\ step' = step /\ obj' = obj
    BY <1>3 DEF Yield, At, NutThreadYield, progVars
  <2>2. timedOut' \in SUBSET Thread /\ Queues
    BY <2>1 DEF IInv, Queues, QueuesTyped
  <2>3. Queues' /\ ToSet(runQueue') = ToSet(runQueue)
    BY <2>1, <2>2, YieldKeeps
  <2>4. ProgTyped' /\ ProgOK'
    BY <2>1 DEF IInv, ProgTyped, ProgOK
  <2> QED BY <2>1, <2>3, <2>4, Elsewhere DEF IInv, Untimed
<1> QED BY <1>1, <1>2, <1>3 DEF SchedStep

\* A mutex that is free or the caller's is acquired.
LEMMA AcquireIInv ==
    ASSUME IInv, NEW t \in Thread, NEW m \in Mutex, running = t,
           step[t] = "lock" => obj[t] = m, count[m] = 0 \/ owner[m] = t, Acquire(t, m)
    PROVE  IInv'
<1> USE SchedAssumption, SyncAssumption
<1>1. /\ owner' = [owner EXCEPT ![m] = t] /\ count' = [count EXCEPT ![m] = @ + 1]
      /\ held' = [held EXCEPT ![m][t] = @ + 1] /\ value' = value
      /\ runQueue' = runQueue /\ running' = running /\ waitq' = waitq
      /\ signaled' = signaled /\ timed' = timed /\ timedOut' = timedOut
      /\ GoTo(t, "user", NIL)
  BY DEF Acquire, schedVars
<1>2. /\ ProgTyped' /\ ProgOK' /\ step'[t] = "user"
      /\ \A u \in Thread \ {t} : step'[u] = step[u] /\ obj'[u] = obj[u]
  BY <1>1, GoToKeeps DEF IInv
<1>3. /\ owner'[m] = t /\ count'[m] = count[m] + 1 /\ held'[m][t] = held[m][t] + 1
      /\ \A u \in Thread \ {t} : held'[m][u] = held[m][u]
      /\ \A n \in Mutex \ {m} : owner'[n] = owner[n] /\ count'[n] = count[n] /\ held'[n] = held[n]
  BY <1>1 DEF IInv, SyncTyped
<1>4. SyncTyped'
  BY <1>1 DEF IInv, SyncTyped
<1>5. Queues'
  BY <1>1 DEF IInv, Queues, QueuesTyped, Placed
<1>6. MutexExclusive'
  <2>1. held[m][t] = count[m] /\ \A u \in Thread \ {t} : held[m][u] = 0
    <3>1. /\ count[m] \in Nat /\ \A u \in Thread : held[m][u] \in Nat
          /\ \A u \in Thread : held[m][u] > 0 => owner[m] = u /\ count[m] = held[m][u]
          /\ count[m] > 0 => \E u \in Thread : held[m][u] = count[m]
      BY DEF IInv, SyncTyped, MutexExclusive
    <3> QED BY <3>1
  <2>2. count'[m] > 0 /\ count[m] \in Nat /\ held[m][t] \in Nat
    BY <1>3 DEF IInv, SyncTyped
  <2> QED BY <1>3, <2>1, <2>2 DEF IInv, MutexExclusive
<1>7. \A n \in Mutex : t \notin ToSet(waitq[n]) /\ ToSet(waitq[n]) \subseteq Thread
  BY ToSetOf DEF IInv, Queues, QueuesTyped, Placed
<1>8. LockersWait'
  BY <1>1, <1>2, <1>7 DEF IInv, LockersWait
<1>9. MutexHandedOn'
  <2>1. count'[m] # 0 /\ ToSet(runQueue) \subseteq Thread
    BY <1>3, ToSetOf DEF IInv, SyncTyped, Queues, QueuesTyped
  <2>2. ASSUME NEW n \in Mutex, count'[n] = 0, waitq'[n] # <<>>
        PROVE  \E u \in ToSet(runQueue') : step'[u] = "lock" /\ obj'[u] = n
    <3>1. n # m /\ count[n] = 0 /\ waitq[n] # <<>>
      BY <1>1, <1>3, <2>1, <2>2
    <3>2. PICK u \in ToSet(runQueue) : step[u] = "lock" /\ obj[u] = n
      BY <3>1 DEF IInv, MutexHandedOn
    <3>3. u # t /\ u \in Thread
      BY <2>1, <3>1, <3>2
    <3> QED BY <1>1, <1>2, <3>2, <3>3
  <2> QED BY <2>2 DEF MutexHandedOn
<1>10. Untimed' /\ SemWaiters'
  BY <1>1 DEF IInv, Untimed, SemWaiters
<1> QED BY <1>2, <1>4, <1>5, <1>6, <1>8, <1>9, <1>10 DEF IInv

\* The caller joins the queue of a mutex that is taken.
LEMMA WaitForMutexIInv ==
    ASSUME IInv, NEW t \in Thread, NEW m \in Mutex, running = t,
           step[t] = "lock" => obj[t] = m, count[m] # 0, WaitForMutex(t, m)
    PROVE  IInv'
<1> USE SchedAssumption, SyncAssumption
<1>1. /\ Block(t, m, FALSE) /\ GoTo(t, "lock", m) /\ UNCHANGED syncVars
  BY DEF WaitForMutex, NutEventWaitNext
<1>2. /\ Queues' /\ ToSet(runQueue') = ToSet(runQueue) \ {t}
      /\ ToSet(waitq'[m]) = ToSet(waitq[m]) \cup {t}
      /\ \A r \in Root \ {m} : waitq'[r] = waitq[r]
      /\ \A r \in Root : t \notin ToSet(waitq[r])
      /\ t \notin timed
  BY <1>1, BlockKeeps DEF IInv
<1>3. timed' = timed /\ signaled' \subseteq signaled
  BY <1>1 DEF Block
<1>4. /\ ProgTyped' /\ ProgOK' /\ step'[t] = "lock" /\ obj'[t] = m
      /\ \A u \in Thread \ {t} : step'[u] = step[u] /\ obj'[u] = obj[u]
  BY <1>1, GoToKeeps DEF IInv
<1>5. SyncTyped' /\ MutexExclusive'
  BY <1>1 DEF IInv, syncVars, SyncTyped, MutexExclusive
<1>6. \A n \in Mutex : ToSet(waitq[n]) \subseteq Thread
  BY ToSetOf DEF IInv, Queues, QueuesTyped
<1>7. LockersWait'
  BY <1>2, <1>4, <1>6 DEF IInv, LockersWait
<1>8. MutexHandedOn'
  <2>1. count' = count /\ ToSet(runQueue) \subseteq Thread
    BY <1>1, ToSetOf DEF IInv, syncVars, Queues, QueuesTyped
  <2>2. ASSUME NEW n \in Mutex, count'[n] = 0, waitq'[n] # <<>>
        PROVE  \E u \in ToSet(runQueue') : step'[u] = "lock" /\ obj'[u] = n
    <3>1. n # m /\ count[n] = 0 /\ waitq[n] # <<>>
      BY <1>2, <2>1, <2>2
    <3>2. PICK u \in ToSet(runQueue) : step[u] = "lock" /\ obj[u] = n
      BY <3>1 DEF IInv, MutexHandedOn
    <3>3. u # t /\ u \in Thread
      BY <2>1, <3>1, <3>2
    <3> QED BY <1>2, <1>4, <3>2, <3>3
  <2> QED BY <2>2 DEF MutexHandedOn
<1>9. Untimed'
  BY <1>2, <1>3 DEF IInv, Untimed, OwnRoot
<1>10. SemWaiters'
  <2>1. \A s \in Sem : s # m /\ s \in Root
    OBVIOUS
  <2> QED BY <1>1, <1>2, <1>3, <2>1 DEF IInv, SemWaiters, syncVars
<1> QED BY <1>2, <1>4, <1>5, <1>7, <1>8, <1>9, <1>10 DEF IInv

\* One lock is given back; the last one is handed on to the first waiter.
LEMMA UnlockIInv ==
    ASSUME IInv, NEW t \in Thread, NEW m \in Mutex, running = t, step[t] = "user",
           held[m][t] > 0, Unlock(t, m), ProgTyped', ProgOK',
           \A u \in Thread \ {t} : step'[u] = step[u] /\ obj'[u] = obj[u]
    PROVE  IInv'
<1> USE SchedAssumption, SyncAssumption
<1>1. /\ owner[m] = t /\ owner' = owner /\ value' = value
      /\ count' = [count EXCEPT ![m] = @ - 1]
      /\ held' = [held EXCEPT ![m][t] = @ - 1]
  BY DEF Unlock
<1>2. /\ count'[m] = count[m] - 1 /\ held'[m][t] = held[m][t] - 1
      /\ \A u \in Thread \ {t} : held'[m][u] = held[m][u]
      /\ \A n \in Mutex \ {m} : count'[n] = count[n] /\ held'[n] = held[n]
  BY <1>1 DEF IInv, SyncTyped
<1>3. count[m] = held[m][t] /\ count[m] \in Nat \ {0}
  BY DEF IInv, SyncTyped, MutexExclusive
<1>4. SyncTyped'
  BY <1>1, <1>3 DEF IInv, SyncTyped
<1>5. MutexExclusive'
  <2>1. \A u \in Thread : held[m][u] \in Nat /\ (held[m][u] > 0 => owner[m] = u)
    BY DEF IInv, SyncTyped, MutexExclusive
  <2> QED BY <1>1, <1>2, <1>3, <2>1 DEF IInv, MutexExclusive
<1>6. /\ Queues' /\ ToSet(runQueue) \subseteq ToSet(runQueue') /\ timed' \subseteq timed
      /\ \A r \in Root \ {m} : waitq'[r] = waitq[r]
      /\ signaled' \subseteq signaled \cup {m}
      /\ ToSet(waitq'[m]) \subseteq ToSet(waitq[m])
      /\ waitq'[m] # <<>> /\ count'[m] = 0 =>
            Head(waitq[m]) \in ToSet(runQueue') \cap ToSet(waitq[m])
  <2>1. CASE count[m] = 1
    <3>1. NutEventPost(t, m) /\ Queues
      BY <2>1 DEF IInv, Unlock
    <3>2. /\ PostTo(m) /\ (running' = NIL \/ running' = running)
          /\ runQueue' \in Seq(Thread) /\ IsInjective(runQueue')
          /\ ToSet(runQueue') = ToSet(ReadyAfterPost(m))
      BY <3>1, PostReady
    <3>3. /\ Queues' /\ ToSet(runQueue) \subseteq ToSet(runQueue') /\ timed' \subseteq timed
          /\ \A r \in Root \ {m} : waitq'[r] = waitq[r]
          /\ waitq[m] = <<>> => waitq' = waitq /\ signaled' = signaled \cup {m}
          /\ waitq[m] # <<>> => /\ waitq'[m] = Tail(waitq[m]) /\ signaled' = signaled
                                /\ Head(waitq[m]) \in ToSet(runQueue')
                                /\ Head(waitq[m]) \in ToSet(waitq[m])
      BY <3>1, <3>2, PostKeeps
    <3>4. waitq[m] # <<>> => ToSet(Tail(waitq[m])) \subseteq ToSet(waitq[m])
      BY TailSet DEF IInv, Queues, QueuesTyped, Placed
    <3> QED BY <3>3, <3>4
  <2>2. CASE count[m] # 1
    <3>1. /\ runQueue' = runQueue /\ running' = running /\ waitq' = waitq
          /\ signaled' = signaled /\ timed' = timed /\ timedOut' = timedOut
      BY <2>2 DEF Unlock, schedVars
    <3>2. Queues'
      BY <3>1 DEF IInv, Queues, QueuesTyped, Placed
    <3> QED BY <1>2, <1>3, <2>2, <3>1, <3>2
  <2> QED BY <2>1, <2>2
<1>7. \A n \in Mutex : t \notin ToSet(waitq[n]) /\ ToSet(waitq[n]) \subseteq Thread
  BY ToSetOf DEF IInv, Queues, QueuesTyped, Placed
<1>8. \A n \in Mutex : ToSet(waitq'[n]) \subseteq ToSet(waitq[n])
  BY <1>6
<1>9. LockersWait'
  BY <1>7, <1>8 DEF IInv, LockersWait
<1>10. MutexHandedOn'
  <2>1. ASSUME NEW n \in Mutex, count'[n] = 0, waitq'[n] # <<>>
        PROVE  \E u \in ToSet(runQueue') : step'[u] = "lock" /\ obj'[u] = n
    <3>1. CASE n = m
      <4> DEFINE h == Head(waitq[m])
      <4>1. h \in ToSet(runQueue') /\ h \in ToSet(waitq[m])
        BY <1>6, <2>1, <3>1
      <4> HIDE DEF h
      <4>2. h \in Thread \ {t} /\ step[h] = "lock" /\ obj[h] = m
        BY <1>7, <4>1 DEF IInv, LockersWait
      <4> QED BY <3>1, <4>1, <4>2
    <3>2. CASE n # m
      <4>1. count[n] = 0 /\ waitq[n] # <<>>
        BY <1>2, <1>6, <2>1, <3>2
      <4>2. PICK u \in ToSet(runQueue) : step[u] = "lock" /\ obj[u] = n
        BY <4>1 DEF IInv, MutexHandedOn
      <4>3. u # t /\ u \in Thread
        BY <4>2, ToSetOf DEF IInv, Queues, QueuesTyped
      <4> QED BY <1>6, <4>2, <4>3
    <3> QED BY <3>1, <3>2
  <2> QED BY <2>1 DEF MutexHandedOn
<1>11. Untimed'
  <2>1. \A q \in OwnRoot : ToSet(waitq'[q]) \subseteq ToSet(waitq[q])
    BY <1>6 DEF OwnRoot
  <2> QED BY <1>6, <2>1 DEF IInv, Untimed
<1>12. SemWaiters'
  <2>1. \A s \in Sem : s # m /\ s \in Root
    OBVIOUS
  <2> QED BY <1>1, <1>6, <2>1 DEF IInv, SemWaiters
<1> QED BY <1>4, <1>5, <1>6, <1>9, <1>10, <1>11, <1>12 DEF IInv

\* A semaphore's value goes down, and below zero the caller waits.
LEMMA SemWaitIInv ==
    ASSUME IInv, NEW t \in Thread, NEW s \in Sem, running = t, NutSemWait(t, s)
    PROVE  IInv'
<1> USE SchedAssumption, SyncAssumption
<1>1. /\ step[t] = "user" /\ value' = [value EXCEPT ![s] = @ - 1]
      /\ step' = step /\ obj' = obj /\ owner' = owner /\ count' = count /\ held' = held
  BY DEF NutSemWait, At, progVars
<1>2. /\ value'[s] = value[s] - 1 /\ value[s] \in Int
      /\ \A x \in Sem \ {s} : value'[x] = value[x]
      /\ SyncTyped'
  BY <1>1 DEF IInv, SyncTyped
<1>3. ProgTyped' /\ ProgOK' /\ MutexExclusive'
  BY <1>1 DEF IInv, ProgTyped, ProgOK, MutexExclusive
<1>4. /\ Queues' /\ ToSet(runQueue) \ {t} \subseteq ToSet(runQueue')
      /\ \A r \in Root \ {s} : waitq'[r] = waitq[r]
      /\ signaled' \subseteq signaled /\ timed' = timed
      /\ ToSet(waitq'[s]) \cap timed = {}
      /\ Len(waitq'[s]) = IF value'[s] < 0 THEN -value'[s] ELSE 0
  <2>1. Len(waitq[s]) = (IF value[s] < 0 THEN -value[s] ELSE 0)
    BY DEF IInv, SemWaiters
  <2>2. CASE value[s] - 1 < 0
    <3>1. Block(t, s, FALSE)
      BY <2>2 DEF NutSemWait, NutEventWaitNext
    <3>2. /\ Queues' /\ ToSet(runQueue') = ToSet(runQueue) \ {t}
          /\ ToSet(waitq'[s]) = ToSet(waitq[s]) \cup {t}
          /\ Len(waitq'[s]) = Len(waitq[s]) + 1
          /\ \A r \in Root \ {s} : waitq'[r] = waitq[r]
          /\ t \notin timed
      BY <3>1, BlockKeeps DEF IInv
    <3>3. timed' = timed /\ signaled' \subseteq signaled
      BY <3>1 DEF Block
    <3>4. ToSet(waitq[s]) \cap timed = {}
      BY DEF IInv, Untimed, OwnRoot
    <3> QED BY <1>2, <2>1, <2>2, <3>2, <3>3, <3>4
  <2>3. CASE ~(value[s] - 1 < 0)
    <3>1. /\ runQueue' = runQueue /\ running' = running /\ waitq' = waitq
          /\ signaled' = signaled /\ timed' = timed /\ timedOut' = timedOut
      BY <2>3 DEF NutSemWait, schedVars
    <3>2. Queues'
      BY <3>1 DEF IInv, Queues, QueuesTyped, Placed
    <3>3. ToSet(waitq[s]) \cap timed = {}
      BY DEF IInv, Untimed, OwnRoot
    <3> QED BY <1>2, <2>1, <2>3, <3>1, <3>2, <3>3
  <2> QED BY <2>2, <2>3
<1>5. LockersWait' /\ MutexHandedOn'
  <2>1. \A m \in Mutex : waitq'[m] = waitq[m]
    BY <1>4
  <2>2. \A m \in Mutex : \A u \in ToSet(runQueue) :
            step[u] = "lock" /\ obj[u] = m => u \in ToSet(runQueue')
    BY <1>1, <1>4
  <2> QED BY <1>1, <2>1, <2>2 DEF IInv, LockersWait, MutexHandedOn
<1>6. Untimed'
  BY <1>4 DEF IInv, Untimed, OwnRoot
<1>7. SemWaiters'
  BY <1>2, <1>4 DEF IInv, SemWaiters
<1> QED BY <1>2, <1>3, <1>4, <1>5, <1>6, <1>7 DEF IInv

\* A semaphore's value goes up, and the first waiter, if any, becomes ready.
LEMMA SemPostIInv ==
    ASSUME IInv, NEW t \in Thread, NEW s \in Sem, running = t, NutSemPost(t, s)
    PROVE  IInv'
<1> USE SchedAssumption, SyncAssumption
<1>1. /\ value' = [value EXCEPT ![s] = @ + 1]
      /\ step' = step /\ obj' = obj /\ owner' = owner /\ count' = count /\ held' = held
  BY DEF NutSemPost, progVars
<1>2. /\ value'[s] = value[s] + 1 /\ value[s] \in Int
      /\ \A x \in Sem \ {s} : value'[x] = value[x]
      /\ SyncTyped'
  BY <1>1 DEF IInv, SyncTyped
<1>3. ProgTyped' /\ ProgOK' /\ MutexExclusive'
  BY <1>1 DEF IInv, ProgTyped, ProgOK, MutexExclusive
<1>4. /\ Queues' /\ ToSet(runQueue) \subseteq ToSet(runQueue')
      /\ \A r \in Root \ {s} : waitq'[r] = waitq[r]
      /\ signaled' = signaled /\ timed' \subseteq timed
      /\ ToSet(waitq'[s]) \subseteq ToSet(waitq[s])
      /\ Len(waitq'[s]) = IF value'[s] < 0 THEN -value'[s] ELSE 0
  <2>1. /\ Len(waitq[s]) = (IF value[s] < 0 THEN -value[s] ELSE 0)
        /\ waitq[s] \in Seq(Thread) /\ IsInjective(waitq[s]) /\ Queues
    BY DEF IInv, SemWaiters, Queues, QueuesTyped, Placed
  <2>2. CASE value[s] + 1 <= 0
    <3>1. NutEventPost(t, s)
      BY <2>2 DEF NutSemPost
    <3>2. /\ PostTo(s) /\ (running' = NIL \/ running' = running)
          /\ runQueue' \in Seq(Thread) /\ IsInjective(runQueue')
          /\ ToSet(runQueue') = ToSet(ReadyAfterPost(s))
      BY <2>1, <3>1, PostReady
    <3>3. waitq[s] # <<>>
      BY <1>2, <2>1, <2>2
    <3>4. /\ Queues' /\ ToSet(runQueue) \subseteq ToSet(runQueue') /\ timed' \subseteq timed
          /\ \A r \in Root \ {s} : waitq'[r] = waitq[r]
          /\ waitq'[s] = Tail(waitq[s]) /\ signaled' = signaled
      BY <2>1, <3>2, <3>3, PostKeeps
    <3>5. ToSet(Tail(waitq[s])) \subseteq ToSet(waitq[s])
      BY <2>1, <3>3, TailSet
    <3>6. Len(Tail(waitq[s])) = Len(waitq[s]) - 1
      BY <2>1, <3>3
    <3> QED BY <1>2, <2>1, <2>2, <3>4, <3>5, <3>6
  <2>3. CASE ~(value[s] + 1 <= 0)
    <3>1. /\ runQueue' = runQueue /\ running' = running /\ waitq' = waitq
          /\ signaled' = signaled /\ timed' = timed /\ timedOut' = timedOut
      BY <2>3 DEF NutSemPost, schedVars
    <3>2. Queues'
      BY <3>1 DEF IInv, Queues, QueuesTyped, Placed
    <3> QED BY <1>2, <2>1, <2>3, <3>1, <3>2
  <2> QED BY <2>2, <2>3
<1>5. LockersWait' /\ MutexHandedOn'
  <2>1. \A m \in Mutex : waitq'[m] = waitq[m]
    BY <1>4
  <2> QED BY <1>1, <1>4, <2>1 DEF IInv, LockersWait, MutexHandedOn
<1>6. Untimed'
  <2>1. \A q \in OwnRoot : ToSet(waitq'[q]) \subseteq ToSet(waitq[q])
    BY <1>4 DEF OwnRoot
  <2> QED BY <1>4, <2>1 DEF IInv, Untimed
<1>7. SemWaiters'
  BY <1>2, <1>4 DEF IInv, SemWaiters
<1> QED BY <1>2, <1>3, <1>4, <1>5, <1>6, <1>7 DEF IInv

\* NutMutexLock from its beginning, or again after a condition.
LEMMA LockEntryIInv ==
    ASSUME IInv, NEW t \in Thread, NEW m \in Mutex, running = t, step[t] # "lock",
           LockEntry(t, m)
    PROVE  IInv'
<1>1. CASE owner[m] # t /\ count[m] # 0
  BY <1>1, WaitForMutexIInv DEF LockEntry
<1>2. CASE ~(owner[m] # t /\ count[m] # 0)
  <2>1. count[m] = 0 \/ owner[m] = t
    BY <1>2
  <2>2. Acquire(t, m)
    BY <1>2 DEF LockEntry
  <2> QED BY <2>1, <2>2, AcquireIInv
<1> QED BY <1>1, <1>2

\* The calls on mutexes.
LEMMA MutexCallIInv ==
    ASSUME IInv, NEW t \in Thread, NEW m \in Mutex,
           \/ NutMutexLock(t, m) \/ NutMutexTrylock(t, m) \/ NutMutexUnlock(t, m)
           \/ LockRetry(t, m)
    PROVE  IInv'
<1>1. CASE NutMutexLock(t, m)
  BY <1>1, LockEntryIInv DEF NutMutexLock, At
<1>2. CASE NutMutexTrylock(t, m)
  BY <1>2, LockEntryIInv DEF NutMutexTrylock, At
<1>3. CASE NutMutexUnlock(t, m)
  <2>1. /\ running = t /\ step[t] = "user" /\ held[m][t] > 0 /\ Unlock(t, m)
        /\ step' = step /\ obj' = obj
    BY <1>3 DEF NutMutexUnlock, At, progVars
  <2>2. ProgTyped' /\ ProgOK'
    BY <2>1 DEF IInv, ProgTyped, ProgOK
  <2> QED BY <2>1, <2>2, UnlockIInv
<1>4. CASE LockRetry(t, m)
  <2>1. running = t /\ step[t] = "lock" /\ obj[t] = m
    BY <1>4 DEF LockRetry, At
  <2>2. CASE count[m] # 0
    BY <1>4, <2>1, <2>2, WaitForMutexIInv DEF LockRetry
  <2>3. CASE count[m] = 0
    BY <1>4, <2>1, <2>3, AcquireIInv DEF LockRetry
  <2> QED BY <2>2, <2>3
<1> QED BY <1>1, <1>2, <1>3, <1>4

\* The waits of a condition: the unlock, the wait and the lock.
LEMMA ConditionWaitIInv ==
    ASSUME IInv, NEW t \in Thread,
           \/ \E c \in Condition : NutConditionWait(t, c) \/ NutConditionTimedWait(t, c)
           \/ WaitEvent(t) \/ TimedWaitEvent(t) \/ Relock(t)
    PROVE  IInv'
<1> USE SchedAssumption, SyncAssumption
<1>1. ASSUME NEW c \in Condition, NEW place \in {"wait", "timedwait"}, WaitCall(t, c, place)
      PROVE  IInv'
  <2>1. /\ running = t /\ step[t] = "user" /\ held[c][t] > 0 /\ Unlock(t, c)
        /\ GoTo(t, place, c) /\ c \in Mutex
    BY <1>1 DEF WaitCall, At
  <2>2. ProgTyped /\ ProgOK /\ place # "lock"
    BY DEF IInv
  <2>3. /\ ProgTyped' /\ ProgOK'
        /\ \A u \in Thread \ {t} : step'[u] = step[u] /\ obj'[u] = obj[u]
    BY <2>1, <2>2, GoToKeeps
  <2> QED BY <2>1, <2>3, UnlockIInv
<1>2. ASSUME step[t] \in {"wait", "timedwait"}, running = t, UNCHANGED syncVars,
             GoTo(t, "relock", obj[t]),
             NEW q \in Root \ OwnRoot, NEW w \in BOOLEAN,
             NutEventWait(t, q, w) \/ NutThreadYield(t)
      PROVE  IInv'
  <2>1. obj[t] \in Condition
    BY <1>2 DEF IInv, ProgOK
  <2>2. /\ ProgTyped' /\ ProgOK'
        /\ \A u \in Thread \ {t} : step'[u] = step[u] /\ obj'[u] = obj[u]
    BY <1>2, <2>1, GoToKeeps DEF IInv
  <2>3. /\ Queues' /\ ToSet(runQueue) \ {t} \subseteq ToSet(runQueue')
        /\ \A r \in OwnRoot : waitq'[r] = waitq[r] /\ (r \in signaled' => r \in signaled)
        /\ \A r \in OwnRoot : ToSet(waitq[r]) \cap timed' = {}
    <3>1. CASE NutEventWait(t, q, w)
      BY <1>2, <3>1, WaitElsewhere
    <3>2. CASE NutThreadYield(t)
      <4>1. /\ runQueue' = Yielded(runQueue, t) /\ running' = NIL
            /\ waitq' = waitq /\ signaled' = signaled /\ timed' = timed /\ timedOut' = timedOut
        BY <3>2 DEF NutThreadYield
      <4>2. timedOut' \in SUBSET Thread /\ Queues
        BY <4>1 DEF IInv, Queues, QueuesTyped
      <4>3. Queues' /\ ToSet(runQueue') = ToSet(runQueue)
        BY <1>2, <4>1, <4>2, YieldKeeps
      <4> QED BY <4>1, <4>3 DEF IInv, Untimed
    <3> QED BY <1>2, <3>1, <3>2
  <2>4. \A u \in Thread : step[u] = "lock" =>
            /\ step'[u] = "lock" /\ obj'[u] = obj[u]
            /\ u \in ToSet(runQueue) => u \in ToSet(runQueue')
    BY <1>2, <2>2, <2>3
  <2> QED BY <1>2, <2>2, <2>3, <2>4, Elsewhere
<1>3. CASE WaitEvent(t)
  <2>1. Stray \in Root \ OwnRoot
    BY DEF OwnRoot
  <2> QED BY <1>2, <1>3, <2>1 DEF WaitEvent, At
<1>4. CASE TimedWaitEvent(t)
  <2>1. obj[t] \in Condition
    BY <1>4 DEF TimedWaitEvent, At, IInv, ProgOK
  <2>2. EventOf[obj[t]] \in Root \ OwnRoot
    BY <2>1 DEF OwnRoot
  <2> QED BY <1>2, <1>4, <2>2 DEF TimedWaitEvent, At
<1>5. CASE Relock(t)
  <2>1. running = t /\ step[t] = "relock" /\ LockEntry(t, obj[t])
    BY <1>5 DEF Relock, At
  <2>2. obj[t] \in Mutex
    BY <2>1 DEF IInv, ProgOK
  <2> QED BY <2>1, <2>2, LockEntryIInv
<1>6. ASSUME NEW c \in Condition, NutConditionWait(t, c) \/ NutConditionTimedWait(t, c)
      PROVE  IInv'
  BY <1>1, <1>6 DEF NutConditionWait, NutConditionTimedWait
<1> QED BY <1>3, <1>4, <1>5, <1>6

\* Signal and broadcast, round by round.
LEMMA ConditionPostIInv ==
    ASSUME IInv, NEW t \in Thread,
           \/ \E c \in Condition : NutConditionSignal(t, c) \/ NutConditionBroadcast(t, c)
           \/ BroadcastRound(t)
    PROVE  IInv'
<1> USE SchedAssumption, SyncAssumption
<1>1. ASSUME NEW c \in Condition, NutConditionSignal(t, c) PROVE IInv'
  <2>1. /\ running = t /\ NutEventPost(t, EventOf[c]) /\ step' = step /\ obj' = obj
        /\ UNCHANGED syncVars /\ EventOf[c] \in Root \ OwnRoot
    BY <1>1 DEF NutConditionSignal, At, progVars, OwnRoot
  <2>2. ProgTyped' /\ ProgOK'
    BY <2>1 DEF IInv, ProgTyped, ProgOK
  <2> QED BY <2>1, <2>2, PostElsewhere, Elsewhere
<1>2. ASSUME NEW c \in Condition, NutConditionBroadcast(t, c) PROVE IInv'
  <2>1. /\ step[t] = "user" /\ GoTo(t, "broadcast", c) /\ UNCHANGED syncVars
        /\ runQueue' = runQueue /\ running' = running /\ waitq' = waitq
        /\ signaled' = signaled /\ timed' = timed /\ timedOut' = timedOut
    BY <1>2 DEF NutConditionBroadcast, At, schedVars
  <2>2. /\ ProgTyped' /\ ProgOK'
        /\ \A u \in Thread \ {t} : step'[u] = step[u] /\ obj'[u] = obj[u]
    BY <2>1, GoToKeeps DEF IInv
  <2>3. Queues'
    BY <2>1 DEF IInv, Queues, QueuesTyped, Placed
  <2>4. \A r \in OwnRoot : ToSet(waitq[r]) \cap timed' = {}
    BY <2>1 DEF IInv, Untimed
  <2>5. \A u \in Thread : step[u] = "lock" => step'[u] = "lock" /\ obj'[u] = obj[u]
    BY <2>1, <2>2
  <2> QED BY <2>1, <2>2, <2>3, <2>4, <2>5, Elsewhere
<1>3. CASE BroadcastRound(t)
  <2> DEFINE q == EventOf[obj[t]]
  <2>1. /\ running = t /\ step[t] = "broadcast" /\ NutEventBroadcast(t, q) /\ UNCHANGED syncVars
    BY <1>3 DEF BroadcastRound, At
  <2>2. obj[t] \in Condition /\ q \in Root \ OwnRoot
    BY <2>1 DEF IInv, ProgOK, OwnRoot
  <2>3. CASE waitq[q] # <<>>
    <3>1. step' = step /\ obj' = obj
      BY <1>3, <2>3 DEF BroadcastRound, progVars
    <3>2. ProgTyped' /\ ProgOK'
      BY <3>1 DEF IInv, ProgTyped, ProgOK
    <3>3. NutEventPostAsync(q)
      BY <2>1, <2>3 DEF NutEventBroadcast
    <3> QED BY <2>1, <2>2, <3>1, <3>2, <3>3, PostElsewhere, Elsewhere
  <2>4. CASE waitq[q] = <<>>
    <3>1. /\ GoTo(t, "user", NIL)
          /\ runQueue' = Yielded(runQueue, t) /\ running' = NIL
          /\ signaled' \subseteq signaled
          /\ waitq' = waitq /\ timed' = timed /\ timedOut' = timedOut
      BY <1>3, <2>1, <2>4 DEF BroadcastRound, NutEventBroadcast
    <3>2. timedOut' \in SUBSET Thread /\ Queues
      BY <3>1 DEF IInv, Queues, QueuesTyped
    <3>3. Queues' /\ ToSet(runQueue') = ToSet(runQueue)
      BY <2>1, <3>1, <3>2, YieldKeeps
    <3>4. /\ ProgTyped' /\ ProgOK'
          /\ \A u \in Thread \ {t} : step'[u] = step[u] /\ obj'[u] = obj[u]
      BY <3>1, GoToKeeps DEF IInv
    <3>5. \A r \in OwnRoot : ToSet(waitq[r]) \cap timed' = {}
      BY <3>1 DEF IInv, Untimed
    <3>6. \A u \in Thread : step[u] = "lock" => step'[u] = "lock" /\ obj'[u] = obj[u]
      BY <2>1, <3>4
    <3> QED BY <2>1, <3>1, <3>3, <3>4, <3>5, <3>6, Elsewhere
  <2> QED BY <2>3, <2>4
<1> QED BY <1>1, <1>2, <1>3

-----------------------------------------------------------------------------
(* The theorems.                                                           *)

\* Every step preserves the invariant.
LEMMA NextIInv == IInv /\ [Next]_vars => IInv'
<1> SUFFICES ASSUME IInv, [Next]_vars PROVE IInv'
  OBVIOUS
<1>1. CASE SchedStep /\ UNCHANGED syncVars
  BY <1>1, SchedStepIInv
<1>2. ASSUME NEW t \in Thread, SyncCall(t) PROVE IInv'
  <2>1. CASE \E m \in Mutex : \/ NutMutexLock(t, m) \/ NutMutexTrylock(t, m)
                              \/ NutMutexUnlock(t, m) \/ LockRetry(t, m)
    BY <2>1, MutexCallIInv
  <2>2. CASE \/ \E c \in Condition : NutConditionWait(t, c) \/ NutConditionTimedWait(t, c)
             \/ WaitEvent(t) \/ TimedWaitEvent(t) \/ Relock(t)
    BY <2>2, ConditionWaitIInv
  <2>3. CASE \/ \E c \in Condition : NutConditionSignal(t, c) \/ NutConditionBroadcast(t, c)
             \/ BroadcastRound(t)
    BY <2>3, ConditionPostIInv
  <2>4. CASE \E s \in Sem : NutSemWait(t, s) \/ NutSemTryWait(t, s) \/ NutSemPost(t, s)
    <3>1. ASSUME NEW s \in Sem, NutSemWait(t, s) \/ NutSemTryWait(t, s) \/ NutSemPost(t, s)
          PROVE  IInv'
      <4>1. running = t
        BY <3>1 DEF NutSemTryWait, NutSemWait, NutSemPost, At
      <4> QED BY <3>1, <4>1, SemWaitIInv, SemPostIInv DEF NutSemTryWait
    <3> QED BY <2>4, <3>1
  <2> QED BY <1>2, <2>1, <2>2, <2>3, <2>4 DEF SyncCall
<1>3. CASE UNCHANGED vars
  <2>1. UNCHANGED <<schedVars, progVars, syncVars>>
    BY <1>3 DEF vars
  <2>2. /\ runQueue' = runQueue /\ running' = running /\ waitq' = waitq /\ signaled' = signaled
        /\ timed' = timed /\ timedOut' = timedOut /\ step' = step /\ obj' = obj
    BY <2>1 DEF schedVars, progVars
  <2>3. Queues' /\ ProgTyped' /\ ProgOK'
    BY <2>2 DEF IInv, Queues, QueuesTyped, Placed, ProgTyped, ProgOK
  <2>4. \A r \in OwnRoot : ToSet(waitq[r]) \cap timed' = {}
    BY <2>2 DEF IInv, Untimed
  <2> QED BY <2>1, <2>2, <2>3, <2>4, Elsewhere
<1> QED BY <1>1, <1>2, <1>3 DEF Next

\* The inductive invariant holds in every state of the synchronisation objects.
THEOREM SyncInvariant == Spec => []IInv
<1> QED BY InitIInv, NextIInv, PTL DEF Spec

\* Threads, queues and the structures of mutex.c, semaphore.c and condition.c keep their types.
THEOREM SyncTyping == Spec => []SyncTypeOK
<1>1. IInv => SyncTypeOK
  BY DEF IInv, Queues, QueuesTyped, ProgTyped, SyncTyped, SyncTypeOK, SchedTypeOK
<1> QED BY <1>1, SyncInvariant, PTL

\* Every thread is in one queue at most and the running one is ready, whatever is called.
THEOREM SyncPlaced == Spec => []Placed
<1>1. IInv => Placed
  BY DEF IInv, Queues
<1> QED BY <1>1, SyncInvariant, PTL

\* Mutual exclusion with nesting: what the callers hold is what mutex.c counts, and one
\* thread holds it all.
THEOREM MutualExclusion == Spec => []MutexExclusive
<1>1. IInv => MutexExclusive
  BY DEF IInv
<1> QED BY <1>1, SyncInvariant, PTL

\* While threads wait for a free mutex, one that was woken is on its way to it.
THEOREM MutexPassedOn == Spec => []MutexHandedOn
<1>1. IInv => MutexHandedOn
  BY DEF IInv
<1> QED BY <1>1, SyncInvariant, PTL

\* The value of a semaphore counts its waiting threads, and no post stays behind.
THEOREM SemaphoreCounts == Spec => []SemWaiters
<1>1. IInv => SemWaiters
  BY DEF IInv
<1> QED BY <1>1, SyncInvariant, PTL

-----------------------------------------------------------------------------
(* The composition with message queues.                                    *)

LEMMA MsgRoot == ASSUME NEW q \in MsgQ PROVE q \in Root \ OwnRoot
  BY MsgAssumption, ServicesAssumption DEF OwnRoot

\* A step that leaves the event queues alone, as far as threads are concerned, or
\* changes only that of a message queue.
MsgEffect(t) ==
    \/ UNCHANGED schedVars
    \/ \E q \in MsgQ :
          \/ NutEventPostAsync(q)
          \/ running = t /\ NutEventPost(t, q)
          \/ running = t /\ \E w \in BOOLEAN : NutEventWait(t, q, w)
    \/ \E q \in MsgQ :
          /\ waitq[q] = <<>> /\ signaled' = signaled \ {q}
          /\ UNCHANGED <<runQueue, running, waitq, timed, timedOut>>

\* Such a step of a thread that is not in the loop of NutMutexLock preserves the invariant.
LEMMA MsgEffectIInv ==
    ASSUME IInv, NEW t \in Thread, MsgEffect(t), UNCHANGED syncVars,
           \/ UNCHANGED progVars
           \/ /\ step[t] \in {"user", "get"}
              /\ \E o \in MsgQ \cup {NIL} : GoTo(t, "user", o) \/ GoTo(t, "get", o),
           running = t => step[t] # "lock"
    PROVE  IInv'
<1> USE SchedAssumption, SyncAssumption
<1>1. /\ ProgTyped' /\ ProgOK'
      /\ \A u \in Thread : step[u] = "lock" => step'[u] = "lock" /\ obj'[u] = obj[u]
  <2>1. CASE UNCHANGED progVars
    BY <2>1 DEF IInv, ProgTyped, ProgOK, progVars
  <2>2. ASSUME step[t] \in {"user", "get"}, NEW o \in MsgQ \cup {NIL}, NEW place \in {"user", "get"},
               GoTo(t, place, o)
        PROVE  /\ ProgTyped' /\ ProgOK'
               /\ \A u \in Thread : step[u] = "lock" => step'[u] = "lock" /\ obj'[u] = obj[u]
    <3>1. place \notin {"lock", "wait", "timedwait", "relock", "broadcast"}
      OBVIOUS
    <3>2. /\ ProgTyped' /\ ProgOK'
          /\ \A u \in Thread \ {t} : step'[u] = step[u] /\ obj'[u] = obj[u]
      BY <2>2, <3>1, GoToKeeps DEF IInv
    <3> QED BY <2>2, <3>2
  <2> QED BY <2>1, <2>2
<1>2. /\ Queues' /\ \A u \in ToSet(runQueue) : step[u] = "lock" => u \in ToSet(runQueue')
      /\ \A r \in OwnRoot : waitq'[r] = waitq[r] /\ (r \in signaled' => r \in signaled)
      /\ \A r \in OwnRoot : ToSet(waitq[r]) \cap timed' = {}
  <2>1. CASE UNCHANGED schedVars
    BY <2>1 DEF schedVars, IInv, Untimed, Queues, QueuesTyped, Placed
  <2>2. ASSUME NEW q \in MsgQ, NutEventPostAsync(q) \/ (running = t /\ NutEventPost(t, q))
        PROVE  /\ Queues' /\ ToSet(runQueue) \subseteq ToSet(runQueue')
               /\ \A r \in OwnRoot : waitq'[r] = waitq[r] /\ (r \in signaled' => r \in signaled)
               /\ \A r \in OwnRoot : ToSet(waitq[r]) \cap timed' = {}
    BY <2>2, MsgRoot, PostElsewhere
  <2>3. ASSUME NEW q \in MsgQ, NEW w \in BOOLEAN, running = t, NutEventWait(t, q, w)
        PROVE  /\ Queues' /\ ToSet(runQueue) \ {t} \subseteq ToSet(runQueue')
               /\ \A r \in OwnRoot : waitq'[r] = waitq[r] /\ (r \in signaled' => r \in signaled)
               /\ \A r \in OwnRoot : ToSet(waitq[r]) \cap timed' = {}
    BY <2>3, MsgRoot, WaitElsewhere
  <2>4. ASSUME NEW q \in MsgQ, signaled' = signaled \ {q},
               UNCHANGED <<runQueue, running, waitq, timed, timedOut>>
        PROVE  /\ Queues' /\ runQueue' = runQueue
               /\ \A r \in OwnRoot : waitq'[r] = waitq[r] /\ (r \in signaled' => r \in signaled)
               /\ \A r \in OwnRoot : ToSet(waitq[r]) \cap timed' = {}
    BY <2>4 DEF IInv, Untimed, Queues, QueuesTyped, Placed
  <2> QED BY <2>1, <2>2, <2>3, <2>4 DEF MsgEffect
<1>3. \A u \in Thread : step[u] = "lock" =>
          /\ step'[u] = "lock" /\ obj'[u] = obj[u]
          /\ u \in ToSet(runQueue) => u \in ToSet(runQueue')
  BY <1>1, <1>2
<1> QED BY <1>1, <1>2, <1>3, Elsewhere

\* The calls on message queues and the callback of their timers.
LEMMA MsgStepIInv == IInv /\ MsgStep /\ UNCHANGED syncVars => IInv'
<1> SUFFICES ASSUME IInv, MsgStep, UNCHANGED syncVars PROVE IInv'
  OBVIOUS
<1>1. ASSUME NEW t \in Thread, MsgCall(t) PROVE IInv'
  <2> PICK q \in MsgQ :
        \/ \E d \in Data : NutMsgQPost(t, q, d) \/ NutMsgQSend(t, q, d)
        \/ \E tm \in MsgTimer :
              \/ \E once \in BOOLEAN : NutMsgQStartTimer(t, q, tm, once)
              \/ NutMsgQStopTimer(t, q, tm)
        \/ \E withTimer \in BOOLEAN : NutMsgQGetMessage(t, q, withTimer)
        \/ GetTake(t, q) \/ NutMsgQFlush(t, q)
    BY <1>1 DEF MsgCall
  <2>1. ASSUME NEW d \in Data, NutMsgQPost(t, q, d) \/ NutMsgQSend(t, q, d)
        PROVE  IInv'
    <3>1. MsgEffect(t) /\ UNCHANGED progVars /\ step[t] # "lock"
      BY <2>1 DEF NutMsgQPost, NutMsgQSend, MsgEffect, At
    <3> QED BY <3>1, MsgEffectIInv
  <2>2. ASSUME NEW tm \in MsgTimer, NEW once \in BOOLEAN, NutMsgQStartTimer(t, q, tm, once)
        PROVE  IInv'
    <3>1. MsgEffect(t) /\ UNCHANGED progVars /\ step[t] # "lock"
      BY <2>2 DEF NutMsgQStartTimer, MsgEffect, At
    <3> QED BY <3>1, MsgEffectIInv
  <2>3. ASSUME NEW tm \in MsgTimer, NutMsgQStopTimer(t, q, tm)
        PROVE  IInv'
    <3>1. MsgEffect(t) /\ UNCHANGED progVars /\ step[t] # "lock"
      BY <2>3 DEF NutMsgQStopTimer, MsgEffect, At
    <3> QED BY <3>1, MsgEffectIInv
  <2>4. ASSUME NEW w \in BOOLEAN, NutMsgQGetMessage(t, q, w)
        PROVE  IInv'
    <3>1. MsgEffect(t) /\ GoTo(t, "get", q) /\ step[t] = "user"
      BY <2>4 DEF NutMsgQGetMessage, MsgEffect, At
    <3> QED BY <3>1, MsgEffectIInv
  <2>5. CASE GetTake(t, q)
    <3>1. MsgEffect(t) /\ GoTo(t, "user", NIL) /\ step[t] = "get"
      BY <2>5 DEF GetTake, MsgEffect, At
    <3> QED BY <3>1, MsgEffectIInv
  <2>6. CASE NutMsgQFlush(t, q)
    <3>1. MsgEffect(t) /\ UNCHANGED progVars /\ step[t] # "lock"
      BY <2>6 DEF NutMsgQFlush, MsgEffect, At, progVars
    <3> QED BY <3>1, MsgEffectIInv
  <2> QED BY <2>1, <2>2, <2>3, <2>4, <2>5, <2>6
<1>2. ASSUME NEW t \in Thread, GetTimeout(t) PROVE IInv'
  <2>1. MsgEffect(t) /\ GoTo(t, "user", NIL) /\ step[t] = "get"
    BY <1>2 DEF GetTimeout, MsgEffect, At
  <2> QED BY <2>1, MsgEffectIInv
<1>3. ASSUME NEW q \in MsgQ, NEW tm \in MsgTimer, NutMsgQTimerCb(q, tm) PROVE IInv'
  <2>1. NutEventPostAsync(q) /\ UNCHANGED progVars /\ running = NIL
    BY <1>3 DEF NutMsgQTimerCb
  <2> PICK t \in Thread : TRUE
    BY SchedAssumption
  <2>2. MsgEffect(t)
    BY <2>1 DEF MsgEffect
  <2>3. running # t
    BY <2>1, SchedAssumption
  <2> QED BY <2>1, <2>2, <2>3, MsgEffectIInv
<1> QED BY <1>1, <1>2, <1>3 DEF MsgStep

\* Every step of the composition preserves the invariant.
LEMMA ServicesStepIInv ==
    IInv /\ [ServicesNext]_<<schedVars, progVars, syncVars, msgVars>> => IInv'
<1> SUFFICES ASSUME IInv, [ServicesNext]_<<schedVars, progVars, syncVars, msgVars>> PROVE IInv'
  OBVIOUS
<1>1. CASE SchedStep /\ UNCHANGED <<syncVars, msgVars>>
  BY <1>1, NextIInv DEF Next
<1>2. ASSUME NEW t \in Thread, SyncCall(t) PROVE IInv'
  BY <1>2, NextIInv DEF Next
<1>3. CASE MsgStep /\ UNCHANGED syncVars
  BY <1>3, MsgStepIInv
<1>4. CASE UNCHANGED <<schedVars, progVars, syncVars, msgVars>>
  BY <1>4, NextIInv DEF vars
<1> QED BY <1>1, <1>2, <1>3, <1>4 DEF ServicesNext

\* Mutual exclusion, the hand-over of mutexes and the counting of semaphores, for any
\* threads that call mutex.c, semaphore.c, condition.c and msg.c in any order.
THEOREM ServicesSafe == ServicesSpec => [](MutexExclusive /\ MutexHandedOn /\ SemWaiters)
<1>1. ServicesInit => IInv
  BY InitIInv DEF ServicesInit, Init
<1>2. IInv => MutexExclusive /\ MutexHandedOn /\ SemWaiters
  BY DEF IInv
<1> QED BY <1>1, <1>2, ServicesStepIInv, PTL DEF ServicesSpec

-----------------------------------------------------------------------------
(* The ring.                                                               *)

\* The entries from r up to w.
Between(r, w) == {i \in Index : (i - r) % (Mask + 1) < (w - r) % (Mask + 1)}

\* An index moves on inside the ring, and no other index moves to the same place.
LEMMA AfterIs ==
    ASSUME NEW i \in Index
    PROVE  After(i) = (IF i = Mask THEN 0 ELSE i + 1) /\ After(i) \in Index /\ After(i) # i
<1>1. CASE i = Mask
  <2>1. (Mask + 1) % (Mask + 1) = 0
    BY MsgAssumption
  <2> QED BY <1>1, <2>1, MsgAssumption DEF After, Index
<1>2. CASE i # Mask
  <2>1. i + 1 \in 0..((Mask + 1) - 1)
    BY <1>2, MsgAssumption DEF Index
  <2>2. (i + 1) % (Mask + 1) = i + 1
    BY <2>1, MsgAssumption
  <2> QED BY <1>2, <2>1, <2>2, MsgAssumption DEF After, Index
<1> QED BY <1>1, <1>2

\* How far an index is ahead of another one.
LEMMA AheadIs ==
    ASSUME NEW i \in Index, NEW r \in Index
    PROVE  (i - r) % (Mask + 1) = IF r <= i THEN i - r ELSE i - r + Mask + 1
<1>1. CASE r <= i
  <2>1. i - r \in 0..((Mask + 1) - 1)
    BY <1>1, MsgAssumption DEF Index
  <2> QED BY <1>1, <2>1, MsgAssumption
<1>2. CASE ~(r <= i)
  <2>1. i - r \in (0 - (Mask + 1))..(0 - 1)
    BY <1>2, MsgAssumption DEF Index
  <2>2. (i - r) % (Mask + 1) = (i - r) + (Mask + 1)
    BY <2>1, MsgAssumption
  <2> QED BY <1>2, <2>1, <2>2, MsgAssumption
<1> QED BY <1>1, <1>2

\* The entries, without the modulus.
LEMMA BetweenIs ==
    ASSUME NEW r \in Index, NEW w \in Index, NEW i \in Index
    PROVE  i \in Between(r, w) <=>
             IF r <= w THEN r <= i /\ i < w ELSE r <= i \/ i < w
<1>1. r \in Int /\ w \in Int /\ i \in Int /\ Mask \in Nat
  BY MsgAssumption DEF Index
<1>2. r >= 0 /\ w >= 0 /\ i >= 0 /\ r <= Mask /\ w <= Mask /\ i <= Mask
  BY MsgAssumption DEF Index
<1>3. i \in Between(r, w) <=> (i - r) % (Mask + 1) < (w - r) % (Mask + 1)
  BY DEF Between
<1>4. /\ (i - r) % (Mask + 1) = (IF r <= i THEN i - r ELSE i - r + Mask + 1)
      /\ (w - r) % (Mask + 1) = (IF r <= w THEN w - r ELSE w - r + Mask + 1)
  BY AheadIs
<1> QED BY <1>1, <1>2, <1>3, <1>4

\* There are messages exactly when the indices differ, and the oldest is among them.
LEMMA BetweenEmpty ==
    ASSUME NEW r \in Index, NEW w \in Index
    PROVE  /\ Between(r, w) # {} <=> r # w
           /\ r # w => r \in Between(r, w)
           /\ w \notin Between(r, w)
           /\ Between(r, w) \subseteq Index
<1>1. r \in Int /\ w \in Int /\ Between(r, w) \subseteq Index /\ Index \subseteq Int
  BY MsgAssumption DEF Index, Between
<1>2. r # w => r \in Between(r, w)
  BY <1>1, BetweenIs
<1>3. w \notin Between(r, w)
  BY <1>1, BetweenIs
<1>4. r = w => \A i \in Index : i \notin Between(r, w)
  <2> SUFFICES ASSUME r = w, NEW i \in Index PROVE i \notin Between(r, w)
    OBVIOUS
  <2>1. i \in Int
    BY <1>1
  <2> QED BY <1>1, <2>1, BetweenIs
<1> QED BY <1>1, <1>2, <1>3, <1>4

\* A message is put into a ring that is not full.
LEMMA BetweenPut ==
    ASSUME NEW r \in Index, NEW w \in Index, After(w) # r
    PROVE  /\ Between(r, After(w)) = Between(r, w) \cup {w}
           /\ r # After(w)
           /\ r # w => After(r) # After(w)
<1>1. r \in Int /\ w \in Int /\ Index \subseteq Int /\ Mask \in Nat
      /\ r >= 0 /\ r <= Mask /\ w >= 0 /\ w <= Mask
  BY MsgAssumption DEF Index
<1>2. /\ After(w) = (IF w = Mask THEN 0 ELSE w + 1) /\ After(w) \in Index
      /\ After(r) = (IF r = Mask THEN 0 ELSE r + 1)
  BY AfterIs
<1>3. ASSUME NEW i \in Index
      PROVE  i \in Between(r, After(w)) <=> i \in Between(r, w) \/ i = w
  <2>1. i \in Int /\ i >= 0 /\ i <= Mask
    BY MsgAssumption DEF Index
  <2>2. i \in Between(r, w) <=> IF r <= w THEN r <= i /\ i < w ELSE r <= i \/ i < w
    BY BetweenIs
  <2>3. i \in Between(r, After(w)) <=>
          IF r <= After(w) THEN r <= i /\ i < After(w) ELSE r <= i \/ i < After(w)
    BY <1>2, BetweenIs
  <2>4. CASE w = Mask
    BY <1>1, <1>2, <2>1, <2>2, <2>3, <2>4
  <2>5. CASE w # Mask
    BY <1>1, <1>2, <2>1, <2>2, <2>3, <2>5
  <2> QED BY <2>4, <2>5
<1>4. Between(r, After(w)) \subseteq Index /\ Between(r, w) \subseteq Index
  BY DEF Between
<1>5. r # w => After(r) # After(w)
  BY <1>1, <1>2
<1> QED BY <1>3, <1>4, <1>5

\* The oldest message is taken from a ring that is not empty.
LEMMA BetweenTake ==
    ASSUME NEW r \in Index, NEW w \in Index, r # w
    PROVE  Between(After(r), w) = Between(r, w) \ {r}
<1>1. r \in Int /\ w \in Int /\ Index \subseteq Int /\ Mask \in Nat
      /\ r >= 0 /\ r <= Mask /\ w >= 0 /\ w <= Mask
  BY MsgAssumption DEF Index
<1>2. After(r) = (IF r = Mask THEN 0 ELSE r + 1) /\ After(r) \in Index
  BY AfterIs
<1>3. ASSUME NEW i \in Index
      PROVE  i \in Between(After(r), w) <=> i \in Between(r, w) /\ i # r
  <2>1. i \in Int /\ i >= 0 /\ i <= Mask
    BY MsgAssumption DEF Index
  <2>2. i \in Between(r, w) <=> IF r <= w THEN r <= i /\ i < w ELSE r <= i \/ i < w
    BY BetweenIs
  <2>3. i \in Between(After(r), w) <=>
          IF After(r) <= w THEN After(r) <= i /\ i < w ELSE After(r) <= i \/ i < w
    BY <1>2, BetweenIs
  <2>4. CASE r = Mask
    BY <1>1, <1>2, <2>1, <2>2, <2>3, <2>4
  <2>5. CASE r # Mask
    BY <1>1, <1>2, <2>1, <2>2, <2>3, <2>5
  <2> QED BY <2>4, <2>5
<1>4. Between(After(r), w) \subseteq Index /\ Between(r, w) \subseteq Index
  BY DEF Between
<1> QED BY <1>3, <1>4

-----------------------------------------------------------------------------
(* The inductive invariant of message queues.                              *)

\* A thread that is through the wait of NutMsgQGetMessage and will take a message.
Woken(q) == \E t \in ToSet(runQueue) : step[t] = "get" /\ obj[t] = q /\ t \notin timedOut

\* Inside NutMsgQGetMessage there are only readers, each at its own queue.
GettersRead == \A t \in Thread : step[t] = "get" => obj[t] \in MsgQ /\ Reader[obj[t]] = t

\* They and nobody else wait in the event queues of message queues.
GettersWait ==
    /\ \A q \in MsgQ : \A t \in ToSet(waitq[q]) :
          step[t] = "get" /\ obj[t] = q /\ t \notin timedOut
    /\ \A r \in Root \ MsgQ : \A t \in ToSet(waitq[r]) : step[t] # "get"

\* A signaled root and a woken reader stand for a message each.
EventsCount ==
    \A q \in MsgQ :
        /\ mq_read[q] # mq_write[q] <=> q \in signaled \/ Woken(q)
        /\ q \in signaled /\ Woken(q) => Repost(q)

\* A timer is on the list of one queue, and a one-shot timer whose message is in the
\* ring has run out and has no other message there.
TimersServeOne ==
    /\ \A q, r \in MsgQ : q # r => mq_timers[q] \cap mq_timers[r] = {}
    /\ \A q \in MsgQ : \A i \in Pending(q) :
          mq_que[q][i].id = "MSG_TIMER" /\ mq_que[q][i].data \in oneshot =>
             /\ mq_que[q][i].data \notin ticking
             /\ \A j \in Pending(q) : mq_que[q][j] = mq_que[q][i] => j = i

MInv ==
    /\ MsgTypeOK /\ GettersRead /\ GettersWait /\ EventsCount
    /\ TimersServeOne /\ TimerMessagesOwned

\* The entries between the indices of a queue.
LEMMA PendingIs ==
    ASSUME MsgTypeOK, NEW q \in MsgQ
    PROVE  /\ mq_read[q] \in Index /\ mq_write[q] \in Index
           /\ Pending(q) = Between(mq_read[q], mq_write[q])
           /\ Pending(q) # {} <=> mq_read[q] # mq_write[q]
           /\ mq_read[q] # mq_write[q] => mq_read[q] \in Pending(q)
           /\ mq_write[q] \notin Pending(q)
           /\ Pending(q) \subseteq Index
<1>1. mq_read[q] \in Index /\ mq_write[q] \in Index
  BY DEF MsgTypeOK
<1>2. Pending(q) = Between(mq_read[q], mq_write[q])
  BY DEF Pending, Between
<1> QED BY <1>1, <1>2, BetweenEmpty

\* It holds initially.
LEMMA InitMInv == ServicesInit => MInv
<1> SUFFICES ASSUME ServicesInit PROVE MInv
  OBVIOUS
<1>1. /\ waitq = [q \in Root |-> <<>>] /\ signaled = {} /\ running = NIL
      /\ step = [t \in Thread |-> "user"] /\ obj = [t \in Thread |-> NIL]
      /\ mq_que = [q \in MsgQ |-> [i \in Index |-> Null]]
      /\ mq_read = [q \in MsgQ |-> 0] /\ mq_write = [q \in MsgQ |-> 0]
      /\ mq_timers = [q \in MsgQ |-> {}]
      /\ freeTimers = <<>> /\ oneshot = {} /\ ticking = {}
  BY DEF ServicesInit, SchedInit, MsgInit
<1>2. ToSet(<<>>) = {} /\ IsInjective(<<>>)
  BY DEF ToSet, IsInjective
<1>3. MsgTypeOK
  <2>1. 0 \in Index
    BY MsgAssumption DEF Index
  <2>2. <<>> \in Seq(MsgTimer)
    OBVIOUS
  <2> QED BY <1>1, <2>1, <2>2 DEF MsgTypeOK
<1>4. \A q \in MsgQ : Pending(q) = {} /\ mq_read[q] = mq_write[q]
  BY <1>1, <1>3, PendingIs
<1>5. \A t \in ToSet(runQueue) : t \in Thread
  <2>1. IInv
    BY InitIInv DEF ServicesInit, Init
  <2> QED BY <2>1, ToSetOf DEF IInv, Queues, QueuesTyped
<1>6. GettersRead
  BY <1>1 DEF GettersRead
<1>7. GettersWait
  BY <1>1, <1>2, MsgAssumption DEF GettersWait
<1>8. EventsCount
  BY <1>1, <1>4, <1>5 DEF EventsCount, Woken
<1>9. TimersServeOne
  BY <1>1, <1>4 DEF TimersServeOne
<1>10. TimerMessagesOwned
  BY <1>1, <1>2, <1>4 DEF TimerMessagesOwned
<1> QED BY <1>3, <1>6, <1>7, <1>8, <1>9, <1>10 DEF MInv

-----------------------------------------------------------------------------
(* Steps that leave the message queues alone.                              *)

\* No reader is woken or sent to wait, and no other thread comes to wait for a queue.
ReadersStay ==
    /\ \A q \in MsgQ : /\ ToSet(waitq'[q]) \subseteq ToSet(waitq[q])
                       /\ q \in signaled' <=> q \in signaled
                       /\ \A u \in ToSet(waitq'[q]) : u \notin timedOut'
    /\ \A u \in Thread : step'[u] = "get" <=> step[u] = "get"
    /\ \A u \in Thread : step[u] = "get" =>
          /\ obj'[u] = obj[u]
          /\ u \in ToSet(runQueue') /\ u \notin timedOut'
               <=> u \in ToSet(runQueue) /\ u \notin timedOut
    /\ \A r \in Root \ MsgQ : \A u \in ToSet(waitq'[r]) : step'[u] # "get"

\* They preserve the invariant.
LEMMA ReadersStayMInv ==
    ASSUME IInv, IInv', MInv, UNCHANGED msgVars, ReadersStay
    PROVE  MInv'
<1>1. /\ mq_que' = mq_que /\ mq_read' = mq_read /\ mq_write' = mq_write
      /\ mq_timers' = mq_timers /\ freeTimers' = freeTimers
      /\ oneshot' = oneshot /\ ticking' = ticking
  BY DEF msgVars
<1>2. /\ \A t \in ToSet(runQueue) : t \in Thread
      /\ \A t \in ToSet(runQueue') : t \in Thread
      /\ \A q \in MsgQ : ToSet(waitq'[q]) \subseteq Thread /\ q \in Root
  BY ToSetOf, MsgAssumption DEF IInv, Queues, QueuesTyped
<1>3. MsgTypeOK' /\ \A q \in MsgQ : Pending(q)' = Pending(q) /\ (Repost(q)' <=> Repost(q))
  BY <1>1 DEF MInv, MsgTypeOK, Pending, Repost
<1>4. GettersRead'
  BY DEF MInv, GettersRead, ReadersStay
<1>5. GettersWait'
  BY <1>2 DEF MInv, GettersWait, ReadersStay
<1>6. \A q \in MsgQ : Woken(q)' <=> Woken(q)
  BY <1>2 DEF Woken, ReadersStay
<1>7. EventsCount'
  BY <1>1, <1>3, <1>6 DEF MInv, EventsCount, ReadersStay
<1>8. TimersServeOne' /\ TimerMessagesOwned'
  BY <1>1, <1>3 DEF MInv, TimersServeOne, TimerMessagesOwned
<1> QED BY <1>3, <1>4, <1>5, <1>7, <1>8 DEF MInv

\* What the services do to the event queues: they wait and post at roots of their own.
OtherEffect(t) ==
    \/ UNCHANGED schedVars
    \/ NutThreadYield(t)
    \/ \E r \in Root \ MsgQ :
          \/ \E w \in BOOLEAN : NutEventWait(t, r, w)
          \/ NutEventWaitNext(t, r)
          \/ NutEventPostAsync(r) \/ NutEventPost(t, r) \/ NutEventBroadcast(t, r)

\* A post to the queue of q, by sets.
LEMMA PostSets ==
    ASSUME Queues, NEW q \in Root, NEW t \in Thread,
           NutEventPostAsync(q) \/ (running = t /\ NutEventPost(t, q))
    PROVE  /\ timedOut' = timedOut
           /\ \A r \in Root \ {q} : waitq'[r] = waitq[r]
           /\ waitq[q] = <<>> => /\ waitq' = waitq /\ signaled' = signaled \cup {q}
                                 /\ ToSet(runQueue') = ToSet(runQueue)
           /\ waitq[q] # <<>> =>
                 /\ Head(waitq[q]) \in ToSet(waitq[q])
                 /\ ToSet(waitq'[q]) = ToSet(waitq[q]) \ {Head(waitq[q])}
                 /\ signaled' = signaled
                 /\ ToSet(runQueue') = ToSet(runQueue) \cup {Head(waitq[q])}
<1>1. /\ PostTo(q) /\ (running' = NIL \/ running' = running)
      /\ runQueue' \in Seq(Thread) /\ IsInjective(runQueue')
      /\ ToSet(runQueue') = ToSet(ReadyAfterPost(q))
  BY PostReady
<1>2. /\ \A r \in Root \ {q} : waitq'[r] = waitq[r]
      /\ waitq[q] = <<>> => waitq' = waitq /\ signaled' = signaled \cup {q}
      /\ waitq[q] # <<>> => /\ waitq'[q] = Tail(waitq[q]) /\ signaled' = signaled
                            /\ Head(waitq[q]) \in ToSet(waitq[q])
  BY <1>1, PostKeeps
<1>3. ToSet(runQueue') = ToSet(runQueue)
                 \cup (IF waitq[q] = <<>> THEN {} ELSE {Head(waitq[q])})
  BY <1>1, ReadyKeeps
<1>4. waitq[q] # <<>> => ToSet(Tail(waitq[q])) = ToSet(waitq[q]) \ {Head(waitq[q])}
  <2>1. waitq[q] \in Seq(Thread) /\ IsInjective(waitq[q])
    BY DEF Queues, QueuesTyped, Placed
  <2> QED BY <2>1, TailSet
<1>5. timedOut' = timedOut
  BY <1>1 DEF PostTo
<1> QED BY <1>2, <1>3, <1>4, <1>5

\* A thread that is not in NutMsgQGetMessage and does this moves no reader.
LEMMA OtherEffectStays ==
    ASSUME IInv, MInv, NEW t \in Thread, running = t, step[t] # "get", OtherEffect(t),
           \/ UNCHANGED progVars
           \/ \E place \in {"user", "lock", "wait", "timedwait", "relock", "broadcast"} :
                 \E o : GoTo(t, place, o)
    PROVE  ReadersStay
<1>1. /\ step'[t] # "get"
      /\ \A u \in Thread \ {t} : step'[u] = step[u] /\ obj'[u] = obj[u]
  <2>1. CASE UNCHANGED progVars
    BY <2>1 DEF progVars
  <2>2. ASSUME NEW place \in {"user", "lock", "wait", "timedwait", "relock", "broadcast"},
               NEW o, GoTo(t, place, o)
        PROVE  /\ step'[t] # "get"
               /\ \A u \in Thread \ {t} : step'[u] = step[u] /\ obj'[u] = obj[u]
    BY <2>2 DEF GoTo, IInv, ProgTyped
  <2> QED BY <2>1, <2>2
<1>2. /\ \A u \in Thread : step'[u] = "get" <=> step[u] = "get"
      /\ \A u \in Thread : step[u] = "get" => obj'[u] = obj[u]
  BY <1>1
<1>3. /\ Queues /\ t \in ToSet(runQueue)
      /\ \A r \in Root : ToSet(waitq[r]) \subseteq Thread
      /\ MsgQ \subseteq Root
      /\ runQueue \in Seq(Thread) /\ IsInjective(runQueue)
  BY ToSetOf, SchedAssumption, MsgAssumption DEF IInv, Queues, QueuesTyped, Placed
<1> SUFFICES
      /\ \A q \in MsgQ : /\ ToSet(waitq'[q]) \subseteq ToSet(waitq[q])
                         /\ q \in signaled' <=> q \in signaled
      /\ \A u \in Thread \ {t} : u \notin timedOut' <=> u \notin timedOut
      /\ \A u \in Thread : step[u] = "get" =>
            (u \in ToSet(runQueue') <=> u \in ToSet(runQueue))
      /\ \A r \in Root \ MsgQ : \A u \in ToSet(waitq'[r]) : u = t \/ u \in ToSet(waitq[r])
  <2>1. \A q \in MsgQ : \A u \in ToSet(waitq[q]) : u \notin timedOut /\ u # t
    BY <1>3 DEF MInv, GettersWait
  <2>2. ASSUME NEW q \in MsgQ
        PROVE  /\ ToSet(waitq'[q]) \subseteq ToSet(waitq[q])
               /\ q \in signaled' <=> q \in signaled
               /\ \A u \in ToSet(waitq'[q]) : u \notin timedOut'
    <3>1. ToSet(waitq'[q]) \subseteq ToSet(waitq[q]) /\ q \in signaled' <=> q \in signaled
      OBVIOUS
    <3>2. ASSUME NEW u \in ToSet(waitq'[q]) PROVE u \notin timedOut'
      BY <1>3, <2>1, <3>1
    <3> QED BY <3>1, <3>2
  <2>3. ASSUME NEW u \in Thread, step[u] = "get"
        PROVE  /\ obj'[u] = obj[u]
               /\ u \in ToSet(runQueue') /\ u \notin timedOut'
                    <=> u \in ToSet(runQueue) /\ u \notin timedOut
    <3>1. u \in Thread \ {t}
      BY <2>3
    <3> QED BY <1>2, <2>3, <3>1
  <2>4. ASSUME NEW r \in Root \ MsgQ, NEW u \in ToSet(waitq'[r])
        PROVE  step'[u] # "get"
    <3>1. CASE u = t
      BY <1>1, <3>1
    <3>2. CASE u \in ToSet(waitq[r])
      <4>1. u \in Thread /\ step[u] # "get"
        BY <1>3, <3>2 DEF MInv, GettersWait
      <4> QED BY <1>2, <4>1
    <3> QED BY <3>1, <3>2
  <2> QED BY <1>2, <2>2, <2>3, <2>4 DEF ReadersStay
<1>4. CASE UNCHANGED schedVars
  BY <1>4 DEF schedVars
<1>5. ASSUME NEW r \in Root \ MsgQ, runQueue' = Yielded(runQueue, t), waitq' = waitq,
             signaled' = signaled \/ signaled' = signaled \ {r},
             timedOut' = timedOut \/ timedOut' = timedOut \ {t}
      PROVE  /\ \A q \in MsgQ : /\ ToSet(waitq'[q]) \subseteq ToSet(waitq[q])
                                /\ q \in signaled' <=> q \in signaled
             /\ \A u \in Thread \ {t} : u \notin timedOut' <=> u \notin timedOut
             /\ ToSet(runQueue') = ToSet(runQueue)
             /\ \A s \in Root \ MsgQ : waitq'[s] = waitq[s]
  <2>1. ToSet(runQueue') = ToSet(runQueue)
    BY <1>3, <1>5, YieldedKeeps
  <2> QED BY <1>5, <2>1
<1>6. CASE NutThreadYield(t)
  <2>1. runQueue' = Yielded(runQueue, t) /\ waitq' = waitq /\ signaled' = signaled /\ timedOut' = timedOut
    BY <1>6 DEF NutThreadYield
  <2>2. ToSet(runQueue') = ToSet(runQueue)
    BY <1>3, <2>1, YieldedKeeps
  <2> QED BY <2>1, <2>2
<1>7. ASSUME NEW r \in Root \ MsgQ, NEW w \in BOOLEAN, Block(t, r, w)
      PROVE  /\ \A q \in MsgQ : /\ ToSet(waitq'[q]) \subseteq ToSet(waitq[q])
                                /\ q \in signaled' <=> q \in signaled
             /\ \A u \in Thread \ {t} : u \notin timedOut' <=> u \notin timedOut
             /\ ToSet(runQueue') = ToSet(runQueue) \ {t}
             /\ \A s \in Root \ MsgQ : ToSet(waitq'[s]) \subseteq ToSet(waitq[s]) \cup {t}
  <2>1. /\ ToSet(runQueue') = ToSet(runQueue) \ {t}
        /\ ToSet(waitq'[r]) = ToSet(waitq[r]) \cup {t}
        /\ \A s \in Root \ {r} : waitq'[s] = waitq[s]
    BY <1>3, <1>7, BlockKeeps
  <2>2. signaled' = signaled \ {r} /\ timedOut' = timedOut \ {t}
    BY <1>7 DEF Block
  <2> QED BY <1>3, <2>1, <2>2
<1>8. ASSUME NEW r \in Root \ MsgQ, NutEventPostAsync(r) \/ NutEventPost(t, r)
      PROVE  /\ \A q \in MsgQ : /\ ToSet(waitq'[q]) \subseteq ToSet(waitq[q])
                                /\ q \in signaled' <=> q \in signaled
             /\ \A u \in Thread \ {t} : u \notin timedOut' <=> u \notin timedOut
             /\ \A u \in Thread : step[u] = "get" =>
                   (u \in ToSet(runQueue') <=> u \in ToSet(runQueue))
             /\ \A s \in Root \ MsgQ : ToSet(waitq'[s]) \subseteq ToSet(waitq[s])
  <2>1. /\ timedOut' = timedOut
        /\ \A s \in Root \ {r} : waitq'[s] = waitq[s]
        /\ waitq[r] = <<>> => /\ waitq' = waitq /\ signaled' = signaled \cup {r}
                              /\ ToSet(runQueue') = ToSet(runQueue)
        /\ waitq[r] # <<>> =>
              /\ Head(waitq[r]) \in ToSet(waitq[r])
              /\ ToSet(waitq'[r]) = ToSet(waitq[r]) \ {Head(waitq[r])}
              /\ signaled' = signaled
              /\ ToSet(runQueue') = ToSet(runQueue) \cup {Head(waitq[r])}
    BY <1>3, <1>8, PostSets
  <2>2. waitq[r] # <<>> => step[Head(waitq[r])] # "get"
    BY <2>1 DEF MInv, GettersWait
  <2> QED BY <1>3, <2>1, <2>2
<1>9. ASSUME NEW r \in Root \ MsgQ, NEW w \in BOOLEAN, NutEventWait(t, r, w), ~Block(t, r, w)
      PROVE  /\ runQueue' = Yielded(runQueue, t) /\ waitq' = waitq
             /\ signaled' = signaled \ {r} /\ timedOut' = timedOut \ {t}
  BY <1>9 DEF NutEventWait
<1>10. ASSUME NEW r \in Root \ MsgQ, NutEventBroadcast(t, r), ~NutEventPostAsync(r)
       PROVE  /\ runQueue' = Yielded(runQueue, t) /\ waitq' = waitq
              /\ signaled' = signaled \ {r} /\ timedOut' = timedOut
  BY <1>10 DEF NutEventBroadcast
<1>11. ASSUME NEW r \in Root \ MsgQ, NEW w \in BOOLEAN, NutEventWait(t, r, w)
       PROVE  /\ \A q \in MsgQ : /\ ToSet(waitq'[q]) \subseteq ToSet(waitq[q])
                                 /\ q \in signaled' <=> q \in signaled
              /\ \A u \in Thread \ {t} : u \notin timedOut' <=> u \notin timedOut
              /\ ToSet(runQueue') \cup {t} = ToSet(runQueue)
              /\ \A s \in Root \ MsgQ : ToSet(waitq'[s]) \subseteq ToSet(waitq[s]) \cup {t}
  BY <1>3, <1>5, <1>7, <1>9, <1>11
<1>12. ASSUME NEW r \in Root \ MsgQ, NutEventBroadcast(t, r)
       PROVE  /\ \A q \in MsgQ : /\ ToSet(waitq'[q]) \subseteq ToSet(waitq[q])
                                 /\ q \in signaled' <=> q \in signaled
              /\ \A u \in Thread \ {t} : u \notin timedOut' <=> u \notin timedOut
              /\ \A u \in Thread : step[u] = "get" =>
                    (u \in ToSet(runQueue') <=> u \in ToSet(runQueue))
              /\ \A s \in Root \ MsgQ : ToSet(waitq'[s]) \subseteq ToSet(waitq[s])
  BY <1>3, <1>5, <1>8, <1>10, <1>12
<1>13. ASSUME NEW r \in Root \ MsgQ, NutEventWaitNext(t, r) PROVE Block(t, r, FALSE)
  BY <1>13 DEF NutEventWaitNext
<1>14. CASE ~UNCHANGED schedVars /\ ~NutThreadYield(t)
  <2> PICK r \in Root \ MsgQ :
          \/ \E w \in BOOLEAN : NutEventWait(t, r, w)
          \/ NutEventWaitNext(t, r)
          \/ NutEventPostAsync(r) \/ NutEventPost(t, r) \/ NutEventBroadcast(t, r)
    BY <1>14 DEF OtherEffect
  <2>1. CASE \E w \in BOOLEAN : NutEventWait(t, r, w)
    <3> PICK w \in BOOLEAN : NutEventWait(t, r, w)
      BY <2>1
    <3>1. /\ \A q \in MsgQ : /\ ToSet(waitq'[q]) \subseteq ToSet(waitq[q])
                             /\ q \in signaled' <=> q \in signaled
          /\ \A u \in Thread \ {t} : u \notin timedOut' <=> u \notin timedOut
          /\ ToSet(runQueue') \cup {t} = ToSet(runQueue)
          /\ \A s \in Root \ MsgQ : ToSet(waitq'[s]) \subseteq ToSet(waitq[s]) \cup {t}
      BY <1>11
    <3>2. \A u \in Thread : step[u] = "get" =>
            (u \in ToSet(runQueue') <=> u \in ToSet(runQueue))
      BY <3>1
    <3>3. \A s \in Root \ MsgQ : \A u \in ToSet(waitq'[s]) : u = t \/ u \in ToSet(waitq[s])
      BY <3>1
    <3> QED BY <3>1, <3>2, <3>3
  <2>2. CASE NutEventWaitNext(t, r)
    BY <1>7, <1>13, <2>2
  <2>3. CASE NutEventPostAsync(r) \/ NutEventPost(t, r)
    BY <1>8, <2>3
  <2>4. CASE NutEventBroadcast(t, r)
    BY <1>12, <2>4
  <2> QED BY <2>1, <2>2, <2>3, <2>4
<1> QED BY <1>4, <1>6, <1>14

\* The scheduler's own steps.
LEMMA SchedStepMInv ==
    ASSUME IInv, IInv', MInv, SchedStep, UNCHANGED msgVars PROVE MInv'
<1> SUFFICES ReadersStay
  BY ReadersStayMInv
<1>1. /\ Queues
      /\ \A r \in Root : ToSet(waitq[r]) \subseteq Thread
      /\ MsgQ \subseteq Root
  BY ToSetOf, MsgAssumption DEF IInv, Queues, QueuesTyped
<1>2. CASE NutThreadSwitch
  <2>1. /\ runQueue' = runQueue /\ waitq' = waitq /\ signaled' = signaled
        /\ timedOut' = timedOut /\ step' = step /\ obj' = obj
    BY <1>2 DEF NutThreadSwitch, progVars
  <2> QED BY <2>1 DEF ReadersStay, MInv, GettersWait
<1>3. ASSUME NEW t \in Thread, NEW q \in Root, NutEventTimeout(t, q) PROVE ReadersStay
  <2>1. /\ ToSet(runQueue') = ToSet(runQueue) \cup {t}
        /\ t \in ToSet(waitq[q]) /\ signaled' = signaled
        /\ \A r \in Root \ {q} : waitq'[r] = waitq[r]
    BY <1>1, <1>3, TimeoutKeeps
  <2>2. /\ step' = step /\ obj' = obj /\ timedOut' = timedOut \cup {t}
        /\ waitq' = [waitq EXCEPT ![q] = Dequeued(waitq[q], t)]
    BY <1>3 DEF NutEventTimeout, progVars
  <2>3. waitq[q] \in Seq(Thread) /\ IsInjective(waitq[q]) /\ waitq'[q] = Dequeued(waitq[q], t)
    BY <2>2 DEF IInv, Queues, QueuesTyped, Placed
  <2>4. ToSet(waitq'[q]) = ToSet(waitq[q]) \ {t}
    BY <2>3, DequeuedSet
  <2>5. /\ t \notin ToSet(runQueue)
        /\ \A r \in Root \ {q} : t \notin ToSet(waitq[r])
    BY <2>1 DEF IInv, Queues, Placed
  <2>6. \A r \in Root : ToSet(waitq'[r]) \subseteq ToSet(waitq[r]) \ {t}
    <3> TAKE r \in Root
    <3>1. CASE r = q
      BY <2>4, <3>1
    <3>2. CASE r # q
      <4>1. waitq'[r] = waitq[r] /\ t \notin ToSet(waitq[r])
        BY <2>1, <2>5, <3>2
      <4> QED BY <4>1
    <3> QED BY <3>1, <3>2
  <2>7. \A r \in MsgQ : /\ ToSet(waitq'[r]) \subseteq ToSet(waitq[r])
                        /\ r \in signaled' <=> r \in signaled
                        /\ \A u \in ToSet(waitq'[r]) : u \notin timedOut'
    BY <1>1, <2>1, <2>2, <2>6 DEF MInv, GettersWait
  <2>8. \A u \in Thread :
          /\ step'[u] = "get" <=> step[u] = "get"
          /\ obj'[u] = obj[u]
          /\ u \in ToSet(runQueue') /\ u \notin timedOut'
               <=> u \in ToSet(runQueue) /\ u \notin timedOut
    BY <2>1, <2>2, <2>5
  <2>9. \A r \in Root \ MsgQ : \A u \in ToSet(waitq'[r]) : step'[u] # "get"
    BY <2>2, <2>6 DEF MInv, GettersWait
  <2> QED BY <2>7, <2>8, <2>9 DEF ReadersStay
<1>4. ASSUME NEW t \in Thread, Yield(t) PROVE ReadersStay
  <2>1. running = t /\ step[t] = "user" /\ NutThreadYield(t) /\ UNCHANGED progVars
    BY <1>4 DEF Yield, At
  <2> QED BY <2>1, OtherEffectStays DEF OtherEffect
<1> QED BY <1>2, <1>3, <1>4 DEF SchedStep

\* The calls of mutexes, conditions and semaphores.
LEMMA SyncCallMInv ==
    ASSUME IInv, IInv', MInv, NEW t \in Thread, SyncCall(t), UNCHANGED msgVars
    PROVE  MInv'
<1> SUFFICES /\ running = t /\ step[t] # "get" /\ OtherEffect(t)
             /\ \/ UNCHANGED progVars
                \/ \E place \in {"user", "lock", "wait", "timedwait", "relock", "broadcast"} :
                      \E o : GoTo(t, place, o)
  BY OtherEffectStays, ReadersStayMInv
<1> DEFINE Moves == \E place \in {"user", "lock", "wait", "timedwait", "relock", "broadcast"} :
                       \E o : GoTo(t, place, o)
<1>1. /\ Mutex \subseteq Root \ MsgQ /\ Sem \subseteq Root \ MsgQ /\ Stray \in Root \ MsgQ
      /\ Condition \subseteq Mutex
      /\ \A c \in Condition : EventOf[c] \in Root \ MsgQ
  BY SyncAssumption, ServicesAssumption
<1>2. ASSUME NEW m \in Mutex, LockEntry(t, m) \/ Acquire(t, m) \/ WaitForMutex(t, m)
      PROVE  OtherEffect(t) /\ Moves
  <2>1. CASE WaitForMutex(t, m)
    <3>1. NutEventWaitNext(t, m) /\ GoTo(t, "lock", m)
      BY <2>1 DEF WaitForMutex
    <3> QED BY <1>1, <3>1 DEF OtherEffect
  <2>2. CASE Acquire(t, m)
    <3>1. UNCHANGED schedVars /\ GoTo(t, "user", NIL)
      BY <2>2 DEF Acquire, schedVars
    <3> QED BY <3>1 DEF OtherEffect
  <2> QED BY <1>2, <2>1, <2>2 DEF LockEntry
<1>3. ASSUME NEW m \in Mutex, Unlock(t, m) PROVE OtherEffect(t)
  BY <1>1, <1>3 DEF Unlock, OtherEffect
<1>4. ASSUME NEW m \in Mutex, NutMutexLock(t, m) \/ NutMutexTrylock(t, m) \/ NutMutexUnlock(t, m)
                              \/ LockRetry(t, m)
      PROVE  running = t /\ step[t] # "get" /\ OtherEffect(t) /\ (UNCHANGED progVars \/ Moves)
  <2>1. CASE NutMutexLock(t, m) \/ NutMutexTrylock(t, m) \/ LockRetry(t, m)
    <3>1. /\ running = t /\ step[t] # "get"
          /\ LockEntry(t, m) \/ Acquire(t, m) \/ WaitForMutex(t, m)
      BY <2>1 DEF NutMutexLock, NutMutexTrylock, LockRetry, At
    <3> HIDE DEF Moves
    <3> QED BY <1>2, <3>1
  <2>2. CASE NutMutexUnlock(t, m)
    BY <1>3, <2>2 DEF NutMutexUnlock, At
  <2> QED BY <1>4, <2>1, <2>2
<1>5. ASSUME NEW c \in Condition, NutConditionWait(t, c) \/ NutConditionTimedWait(t, c)
                                  \/ NutConditionSignal(t, c) \/ NutConditionBroadcast(t, c)
      PROVE  running = t /\ step[t] # "get" /\ OtherEffect(t) /\ (UNCHANGED progVars \/ Moves)
  <2>1. CASE NutConditionWait(t, c) \/ NutConditionTimedWait(t, c)
    <3>1. /\ running = t /\ step[t] = "user" /\ Unlock(t, c)
          /\ GoTo(t, "wait", c) \/ GoTo(t, "timedwait", c)
      BY <2>1 DEF NutConditionWait, NutConditionTimedWait, WaitCall, At
    <3> QED BY <1>1, <1>3, <3>1
  <2>2. CASE NutConditionSignal(t, c)
    BY <1>1, <2>2 DEF NutConditionSignal, At, OtherEffect
  <2>3. CASE NutConditionBroadcast(t, c)
    <3>1. /\ running = t /\ step[t] = "user" /\ UNCHANGED schedVars
          /\ GoTo(t, "broadcast", c)
      BY <2>3 DEF NutConditionBroadcast, At, schedVars
    <3> QED BY <3>1 DEF OtherEffect
  <2> QED BY <1>5, <2>1, <2>2, <2>3
<1>6. CASE WaitEvent(t)
  <2>1. /\ running = t /\ step[t] = "wait" /\ GoTo(t, "relock", obj[t])
        /\ NutEventWait(t, Stray, FALSE) \/ NutThreadYield(t)
    BY <1>6 DEF WaitEvent, At
  <2> QED BY <1>1, <2>1 DEF OtherEffect
<1>7. CASE TimedWaitEvent(t)
  <2>1. /\ running = t /\ step[t] = "timedwait" /\ GoTo(t, "relock", obj[t])
        /\ NutEventWait(t, EventOf[obj[t]], TRUE)
    BY <1>7 DEF TimedWaitEvent, At
  <2>2. obj[t] \in Condition
    BY <2>1 DEF IInv, ProgOK
  <2> QED BY <1>1, <2>1, <2>2 DEF OtherEffect
<1>8. CASE Relock(t)
  <2>1. running = t /\ step[t] = "relock" /\ LockEntry(t, obj[t])
    BY <1>8 DEF Relock, At
  <2>2. obj[t] \in Mutex
    BY <1>1, <2>1 DEF IInv, ProgOK
  <2> HIDE DEF Moves
  <2>3. OtherEffect(t) /\ Moves
    BY <1>2, <2>1, <2>2
  <2> QED BY <2>1, <2>3 DEF Moves
<1>9. CASE BroadcastRound(t)
  <2>1. /\ running = t /\ step[t] = "broadcast"
        /\ NutEventBroadcast(t, EventOf[obj[t]])
        /\ GoTo(t, "user", NIL) \/ UNCHANGED progVars
    BY <1>9 DEF BroadcastRound, At
  <2>2. obj[t] \in Condition
    BY <2>1 DEF IInv, ProgOK
  <2> QED BY <1>1, <2>1, <2>2 DEF OtherEffect
<1>10. ASSUME NEW s \in Sem, NutSemWait(t, s) \/ NutSemTryWait(t, s) \/ NutSemPost(t, s)
       PROVE  running = t /\ step[t] # "get" /\ OtherEffect(t) /\ UNCHANGED progVars
  <2>1. CASE NutSemWait(t, s) \/ NutSemTryWait(t, s)
    <3>1. NutSemWait(t, s)
      BY <2>1 DEF NutSemTryWait
    <3> QED BY <1>1, <3>1 DEF NutSemWait, At, OtherEffect
  <2>2. CASE NutSemPost(t, s)
    BY <1>1, <2>2 DEF NutSemPost, At, OtherEffect
  <2> QED BY <1>10, <2>1, <2>2
<1> QED BY <1>4, <1>5, <1>6, <1>7, <1>8, <1>9, <1>10 DEF SyncCall

-----------------------------------------------------------------------------
(* The calls on message queues.                                            *)

\* A sequence gets a new first element.
LEMMA ConsSet ==
    ASSUME NEW S, NEW s \in Seq(S), NEW x \in S, IsInjective(s), x \notin ToSet(s)
    PROVE  /\ <<x>> \o s \in Seq(S) /\ IsInjective(<<x>> \o s)
           /\ ToSet(<<x>> \o s) = ToSet(s) \cup {x}
<1> DEFINE c == <<x>> \o s
<1>1. /\ c \in Seq(S) /\ Len(c) = Len(s) + 1 /\ c[1] = x
      /\ \A i \in 1..Len(s) : c[i + 1] = s[i]
      /\ \A i \in 1..Len(c) : i # 1 => i - 1 \in 1..Len(s) /\ c[i] = s[i - 1]
      /\ Len(s) \in Nat
  OBVIOUS
<1> HIDE DEF c
<1>2. ToSet(c) = {c[i] : i \in 1..Len(c)} /\ ToSet(s) = {s[i] : i \in 1..Len(s)}
  BY <1>1 DEF ToSet
<1>3. ToSet(c) = ToSet(s) \cup {x}
  <2>1. x \in ToSet(c)
    BY <1>1, <1>2
  <2>2. \A y \in ToSet(s) : y \in ToSet(c)
    <3> TAKE y \in ToSet(s)
    <3>1. PICK i \in 1..Len(s) : y = s[i]
      BY <1>2
    <3>2. i + 1 \in 1..Len(c) /\ c[i + 1] = y
      BY <1>1, <3>1
    <3> QED BY <1>2, <3>2
  <2>3. \A y \in ToSet(c) : y = x \/ y \in ToSet(s)
    <3> TAKE y \in ToSet(c)
    <3>1. PICK i \in 1..Len(c) : y = c[i]
      BY <1>2
    <3>2. i # 1 => i - 1 \in 1..Len(s) /\ y = s[i - 1]
      BY <1>1, <3>1
    <3> QED BY <1>1, <1>2, <3>1, <3>2
  <2> QED BY <2>1, <2>2, <2>3
<1>4. IsInjective(c)
  <2>1. \A i, j \in 1..Len(s) : s[i] = s[j] => i = j
    BY DEF IsInjective
  <2>2. \A i \in 1..Len(s) : s[i] # x
    BY <1>2
  <2>3. ASSUME NEW i \in 1..Len(c), NEW j \in 1..Len(c), c[i] = c[j] PROVE i = j
    <3>1. CASE i = 1 \/ j = 1
      BY <1>1, <2>2, <2>3, <3>1
    <3>2. CASE i # 1 /\ j # 1
      <4>1. i - 1 = j - 1
        BY <1>1, <2>1, <2>3, <3>2
      <4> QED BY <4>1
    <3> QED BY <3>1, <3>2
  <2>4. DOMAIN c = 1..Len(c)
    BY <1>1
  <2> QED BY <2>3, <2>4 DEF IsInjective
<1> QED BY <1>1, <1>3, <1>4 DEF c

\* Each queue has its reader, so who is woken does not wait.
LEMMA OneReader ==
    ASSUME IInv, MInv, NEW q \in MsgQ
    PROVE  /\ Woken(q) => waitq[q] = <<>>
           /\ q \in signaled => waitq[q] = <<>>
           /\ q \in Root /\ waitq[q] \in Seq(Thread) /\ ToSet(waitq[q]) \subseteq Thread
<1>1. q \in Root /\ waitq[q] \in Seq(Thread) /\ ToSet(waitq[q]) \subseteq Thread
      /\ ToSet(runQueue) \subseteq Thread
  BY ToSetOf, MsgAssumption DEF IInv, Queues, QueuesTyped
<1>2. q \in signaled => waitq[q] = <<>>
  BY DEF IInv, Queues, Placed
<1>3. ASSUME Woken(q), waitq[q] # <<>> PROVE FALSE
  <2>1. PICK t \in ToSet(runQueue) : step[t] = "get" /\ obj[t] = q
    BY <1>3 DEF Woken
  <2>2. PICK u \in ToSet(waitq[q]) : TRUE
    BY <1>1, <1>3, ToSetOf
  <2>3. step[u] = "get" /\ obj[u] = q
    BY DEF MInv, GettersWait
  <2>4. t = u
    BY <1>1, <2>1, <2>3 DEF MInv, GettersRead
  <2> QED BY <1>1, <2>1, <2>4 DEF IInv, Queues, Placed
<1> QED BY <1>1, <1>2, <1>3

\* The event queues after a post to q by a thread that goes on with its code.
LEMMA PostEvents ==
    ASSUME IInv, MInv, NEW q \in MsgQ, NEW t \in Thread, UNCHANGED progVars,
           NutEventPostAsync(q) \/ (running = t /\ NutEventPost(t, q))
    PROVE  /\ GettersRead' /\ GettersWait'
           /\ \A r \in MsgQ \ {q} : /\ r \in signaled' <=> r \in signaled
                                    /\ Woken(r)' <=> Woken(r)
           /\ q \in signaled' \/ Woken(q)'
           /\ q \in signaled' /\ Woken(q)' => Woken(q)
<1>1. step' = step /\ obj' = obj
  BY DEF progVars
<1>2. /\ Queues /\ q \in Root /\ waitq[q] \in Seq(Thread) /\ ToSet(waitq[q]) \subseteq Thread
      /\ q \in signaled => waitq[q] = <<>>
  BY OneReader DEF IInv
<1>3. /\ timedOut' = timedOut
      /\ \A r \in Root \ {q} : waitq'[r] = waitq[r]
      /\ waitq[q] = <<>> => /\ waitq' = waitq /\ signaled' = signaled \cup {q}
                            /\ ToSet(runQueue') = ToSet(runQueue)
      /\ waitq[q] # <<>> =>
            /\ Head(waitq[q]) \in ToSet(waitq[q])
            /\ ToSet(waitq'[q]) = ToSet(waitq[q]) \ {Head(waitq[q])}
            /\ signaled' = signaled
            /\ ToSet(runQueue') = ToSet(runQueue) \cup {Head(waitq[q])}
  BY <1>2, PostSets
<1>4. GettersRead'
  BY <1>1 DEF MInv, GettersRead
<1>5. GettersWait'
  <2>1. \A r \in Root : ToSet(waitq'[r]) \subseteq ToSet(waitq[r])
    BY <1>3
  <2> QED BY <1>1, <1>3, <2>1, MsgAssumption DEF MInv, GettersWait
<1>6. CASE waitq[q] = <<>>
  <2>1. \A r \in MsgQ : Woken(r)' <=> Woken(r)
    BY <1>1, <1>3, <1>6 DEF Woken
  <2> QED BY <1>3, <1>4, <1>5, <1>6, <2>1
<1>7. CASE waitq[q] # <<>>
  <2> DEFINE h == Head(waitq[q])
  <2>1. /\ h \in ToSet(waitq[q]) /\ signaled' = signaled
        /\ ToSet(runQueue') = ToSet(runQueue) \cup {h}
    BY <1>3, <1>7
  <2> HIDE DEF h
  <2>2. step[h] = "get" /\ obj[h] = q /\ h \notin timedOut
    BY <2>1 DEF MInv, GettersWait
  <2>3. Woken(q)'
    BY <1>1, <1>3, <2>1, <2>2 DEF Woken
  <2>4. \A r \in MsgQ \ {q} : Woken(r)' <=> Woken(r)
    BY <1>1, <1>3, <2>1, <2>2 DEF Woken
  <2> QED BY <1>2, <1>4, <1>5, <1>7, <2>1, <2>3, <2>4
<1> QED BY <1>6, <1>7

\* A message is put into the ring and the event posted.
LEMMA PutMInv ==
    ASSUME IInv, MInv, NEW q \in MsgQ, NEW t \in Thread, NEW m \in Message,
           ~NutMsgQFull(q), Put(q, m),
           NutEventPostAsync(q) \/ (running = t /\ NutEventPost(t, q)),
           UNCHANGED <<progVars, mq_timers, freeTimers, oneshot>>,
           ticking' \subseteq ticking,
           m.id = "MSG_TIMER" =>
              /\ m.data \in mq_timers[q]
              /\ m.data \in oneshot => m.data \in ticking /\ m.data \notin ticking'
    PROVE  MInv'
<1> DEFINE r0 == mq_read[q]
           w0 == mq_write[q]
<1>1. /\ mq_que' = [mq_que EXCEPT ![q][w0] = m]
      /\ mq_write' = [mq_write EXCEPT ![q] = After(w0)]
      /\ mq_read' = mq_read /\ mq_timers' = mq_timers /\ freeTimers' = freeTimers
      /\ oneshot' = oneshot
  BY DEF Put
<1>2. /\ r0 \in Index /\ w0 \in Index /\ After(w0) # r0
      /\ Pending(q) = Between(r0, w0) /\ w0 \notin Pending(q)
      /\ Pending(q) \subseteq Index
  BY PendingIs DEF MInv, NutMsgQFull
<1>3. /\ After(w0) \in Index
      /\ Between(r0, After(w0)) = Between(r0, w0) \cup {w0}
      /\ r0 # After(w0) /\ (r0 # w0 => After(r0) # After(w0))
  BY <1>2, AfterIs, BetweenPut
<1>4. /\ mq_write'[q] = After(w0) /\ mq_que'[q][w0] = m
      /\ \A i \in Index \ {w0} : mq_que'[q][i] = mq_que[q][i]
      /\ \A x \in MsgQ \ {q} : mq_write'[x] = mq_write[x] /\ mq_que'[x] = mq_que[x]
      /\ MsgTypeOK'
  BY <1>1, <1>2, <1>3 DEF MInv, MsgTypeOK
<1>5. /\ Pending(q)' = Pending(q) \cup {w0}
      /\ \A x \in MsgQ \ {q} : Pending(x)' = Pending(x) /\ Pending(x) \subseteq Index
  BY <1>1, <1>2, <1>3, <1>4 DEF Pending, Between
<1> HIDE DEF r0, w0
<1>6. /\ GettersRead' /\ GettersWait'
      /\ \A r \in MsgQ \ {q} : /\ r \in signaled' <=> r \in signaled
                               /\ Woken(r)' <=> Woken(r)
      /\ q \in signaled' \/ Woken(q)'
      /\ q \in signaled' /\ Woken(q)' => Woken(q)
  BY PostEvents
<1>7. EventsCount'
  <2>1. mq_read'[q] = r0 /\ mq_read[q] = r0 /\ mq_write[q] = w0
    BY <1>1 DEF r0, w0
  <2>2. mq_read'[q] # mq_write'[q]
    BY <1>3, <1>4, <2>1
  <2>3. q \in signaled' /\ Woken(q)' => Repost(q)'
    BY <1>3, <1>4, <1>6, <2>1 DEF MInv, EventsCount, Repost
  <2>4. \A r \in MsgQ \ {q} :
            /\ mq_read'[r] = mq_read[r] /\ mq_write'[r] = mq_write[r]
            /\ Repost(r)' <=> Repost(r)
    BY <1>1, <1>4 DEF Repost
  <2> QED BY <1>6, <2>2, <2>3, <2>4 DEF MInv, EventsCount
<1>8. /\ \A i \in Pending(q) : mq_que'[q][i] = mq_que[q][i]
      /\ \A x \in MsgQ \ {q} : \A i \in Pending(x) : mq_que'[x][i] = mq_que[x][i]
  BY <1>2, <1>4, <1>5
<1>9. TimerMessagesOwned'
  <2>1. \A x \in MsgQ : \A i \in Pending(x)' :
          mq_que'[x][i].id = "MSG_TIMER" => mq_que'[x][i].data \in mq_timers'[x]
    BY <1>1, <1>4, <1>5, <1>8 DEF MInv, TimerMessagesOwned
  <2> QED BY <1>1, <2>1 DEF MInv, TimerMessagesOwned
<1>10. TimersServeOne'
  <2>1. ASSUME NEW x \in MsgQ, NEW i \in Pending(x)', mq_que'[x][i].id = "MSG_TIMER",
               mq_que'[x][i].data \in oneshot'
        PROVE  /\ mq_que'[x][i].data \notin ticking'
               /\ \A j \in Pending(x)' : mq_que'[x][j] = mq_que'[x][i] => j = i
    <3>1. CASE x # q
      BY <1>1, <1>5, <1>8, <2>1, <3>1 DEF MInv, TimersServeOne
    <3>2. CASE x = q /\ i # w0
      <4>1. i \in Pending(q) /\ mq_que'[q][i] = mq_que[q][i]
        BY <1>5, <1>8, <2>1, <3>2
      <4>2. /\ mq_que[q][i].data \notin ticking
            /\ \A j \in Pending(q) : mq_que[q][j] = mq_que[q][i] => j = i
        BY <1>1, <2>1, <3>2, <4>1 DEF MInv, TimersServeOne
      <4>3. m # mq_que[q][i]
        BY <1>1, <2>1, <3>2, <4>1, <4>2
      <4> QED BY <1>4, <1>5, <1>8, <3>2, <4>1, <4>2, <4>3
    <3>3. CASE x = q /\ i = w0
      <4>1. m.id = "MSG_TIMER" /\ m.data \in ticking /\ m.data \notin ticking' /\ m.data \in oneshot
        BY <1>1, <1>4, <2>1, <3>3
      <4>2. \A j \in Pending(q) : mq_que[q][j] # m
        BY <4>1 DEF MInv, TimersServeOne
      <4> QED BY <1>4, <1>5, <1>8, <3>3, <4>1, <4>2
    <3> QED BY <3>1, <3>2, <3>3
  <2> QED BY <1>1, <2>1 DEF MInv, TimersServeOne
<1> QED BY <1>4, <1>6, <1>7, <1>9, <1>10 DEF MInv

\* NutMsgQStartTimer: the timer was on no list, so no message of it is in a ring.
LEMMA StartTimerMInv ==
    ASSUME IInv, IInv', MInv, NEW t \in Thread, NEW q \in MsgQ, NEW tm \in MsgTimer,
           NEW once \in BOOLEAN, NutMsgQStartTimer(t, q, tm, once)
    PROVE  MInv'
<1>1. /\ mq_timers' = [mq_timers EXCEPT ![q] = @ \cup {tm}]
      /\ oneshot' = (IF once THEN oneshot \cup {tm} ELSE oneshot \ {tm})
      /\ ticking' = ticking \cup {tm}
      /\ mq_que' = mq_que /\ mq_read' = mq_read /\ mq_write' = mq_write
      /\ runQueue' = runQueue /\ waitq' = waitq /\ signaled' = signaled
      /\ timedOut' = timedOut /\ step' = step /\ obj' = obj
  BY DEF NutMsgQStartTimer, schedVars, progVars
<1>2. /\ \A r \in MsgQ : tm \notin mq_timers[r]
      /\ freeTimers' \in Seq(MsgTimer) /\ IsInjective(freeTimers')
      /\ ToSet(freeTimers') \subseteq ToSet(freeTimers) \ {tm}
  <2>1. CASE freeTimers # <<>> /\ tm = Head(freeTimers) /\ freeTimers' = Tail(freeTimers)
    <3>1. freeTimers \in Seq(MsgTimer) /\ IsInjective(freeTimers)
      BY DEF MInv, MsgTypeOK, TimerMessagesOwned
    <3>2. tm \in ToSet(freeTimers)
      BY <2>1, <3>1, HeadOf
    <3>3. /\ freeTimers' \in Seq(MsgTimer) /\ IsInjective(freeTimers')
          /\ ToSet(freeTimers') = ToSet(freeTimers) \ {tm}
      BY <2>1, <3>1, TailSet
    <3> QED BY <3>2, <3>3 DEF MInv, TimerMessagesOwned
  <2>2. CASE /\ freeTimers = <<>> /\ \A r \in MsgQ : tm \notin mq_timers[r]
             /\ freeTimers' = freeTimers
    <3>1. ToSet(freeTimers) = {}
      BY <2>2 DEF ToSet
    <3> QED BY <2>2, <3>1 DEF MInv, MsgTypeOK, TimerMessagesOwned
  <2> QED BY <2>1, <2>2 DEF NutMsgQStartTimer
<1>3. /\ mq_timers'[q] = mq_timers[q] \cup {tm}
      /\ \A r \in MsgQ \ {q} : mq_timers'[r] = mq_timers[r]
      /\ \A r \in MsgQ : Pending(r)' = Pending(r)
      /\ \A r \in MsgQ : Woken(r)' <=> Woken(r)
      /\ \A r \in MsgQ : Repost(r)' <=> Repost(r)
  BY <1>1 DEF MInv, MsgTypeOK, Pending, Woken, Repost
<1>4. MsgTypeOK'
  BY <1>1, <1>2 DEF MInv, MsgTypeOK
<1>5. GettersRead' /\ GettersWait' /\ EventsCount'
  BY <1>1, <1>3 DEF MInv, GettersRead, GettersWait, EventsCount
<1>6. \A r \in MsgQ : \A i \in Pending(r) :
        mq_que[r][i].id = "MSG_TIMER" => mq_que[r][i].data # tm
  BY <1>2 DEF MInv, TimerMessagesOwned
<1>7. TimersServeOne'
  BY <1>1, <1>2, <1>3, <1>6 DEF MInv, TimersServeOne
<1>8. TimerMessagesOwned'
  <2>1. \A r \in MsgQ : \A i \in Pending(r)' :
          mq_que'[r][i].id = "MSG_TIMER" => mq_que'[r][i].data \in mq_timers'[r]
    BY <1>1, <1>3 DEF MInv, TimerMessagesOwned
  <2>2. \A x \in ToSet(freeTimers') :
          x \notin ticking' /\ \A r \in MsgQ : x \notin mq_timers'[r]
    BY <1>1, <1>2, <1>3 DEF MInv, TimerMessagesOwned
  <2> QED BY <1>2, <2>1, <2>2 DEF TimerMessagesOwned
<1> QED BY <1>4, <1>5, <1>7, <1>8 DEF MInv

\* NutMsgQStopTimer: no message of the timer stays.
LEMMA StopTimerMInv ==
    ASSUME IInv, IInv', MInv, NEW t \in Thread, NEW q \in MsgQ, NEW tm \in MsgTimer,
           NutMsgQStopTimer(t, q, tm)
    PROVE  MInv'
<1>1. /\ tm \in mq_timers[q]
      /\ mq_timers' = [mq_timers EXCEPT ![q] = @ \ {tm}]
      /\ freeTimers' = <<tm>> \o freeTimers
      /\ ticking' = ticking \ {tm} /\ oneshot' = oneshot
      /\ mq_read' = mq_read /\ mq_write' = mq_write
      /\ mq_que' = [mq_que EXCEPT ![q] = [i \in Index |->
                    IF i \in Pending(q) /\ mq_que[q][i] = [id |-> "MSG_TIMER", data |-> tm]
                    THEN Null ELSE mq_que[q][i]]]
      /\ runQueue' = runQueue /\ waitq' = waitq /\ signaled' = signaled
      /\ timedOut' = timedOut /\ step' = step /\ obj' = obj
  BY DEF NutMsgQStopTimer, schedVars, progVars, FreeTimer, Searched
<1>2. /\ freeTimers' \in Seq(MsgTimer) /\ IsInjective(freeTimers')
      /\ ToSet(freeTimers') = ToSet(freeTimers) \cup {tm}
  <2>1. freeTimers \in Seq(MsgTimer) /\ IsInjective(freeTimers) /\ tm \notin ToSet(freeTimers)
    BY <1>1 DEF MInv, MsgTypeOK, TimerMessagesOwned
  <2> QED BY <1>1, <2>1, ConsSet
<1>3. /\ mq_timers'[q] = mq_timers[q] \ {tm}
      /\ \A r \in MsgQ \ {q} : mq_timers'[r] = mq_timers[r] /\ mq_que'[r] = mq_que[r]
      /\ \A r \in MsgQ : Pending(r)' = Pending(r) /\ Pending(r) \subseteq Index
      /\ \A r \in MsgQ : Woken(r)' <=> Woken(r)
      /\ \A r \in MsgQ : Repost(r)' <=> Repost(r)
  BY <1>1 DEF MInv, MsgTypeOK, Pending, Woken, Repost
<1>4. \A i \in Pending(q) :
        /\ mq_que'[q][i] = mq_que[q][i] \/ mq_que'[q][i] = Null
        /\ mq_que'[q][i] # [id |-> "MSG_TIMER", data |-> tm]
        /\ mq_que[q][i] \in Message \cup {Null}
        /\ mq_que'[q][i] \in Message \cup {Null}
  <2>1. \A i \in Index : mq_que'[q][i] =
           IF i \in Pending(q) /\ mq_que[q][i] = [id |-> "MSG_TIMER", data |-> tm]
           THEN Null ELSE mq_que[q][i]
    BY <1>1 DEF MInv, MsgTypeOK
  <2>2. Null # [id |-> "MSG_TIMER", data |-> tm]
    BY DEF Null
  <2>3. \A i \in Index : mq_que[q][i] \in Message \cup {Null}
    BY DEF MInv, MsgTypeOK
  <2> QED BY <1>3, <2>1, <2>2, <2>3
<1>5. MsgTypeOK'
  <2>1. [i \in Index |-> IF i \in Pending(q) /\ mq_que[q][i] = [id |-> "MSG_TIMER", data |-> tm]
                         THEN Null ELSE mq_que[q][i]] \in [Index -> Message \cup {Null}]
    BY DEF MInv, MsgTypeOK
  <2> QED BY <1>1, <1>2, <2>1 DEF MInv, MsgTypeOK
<1>6. GettersRead' /\ GettersWait' /\ EventsCount'
  BY <1>1, <1>3 DEF MInv, GettersRead, GettersWait, EventsCount
<1>7. ASSUME NEW i \in Pending(q), mq_que'[q][i].id = "MSG_TIMER"
      PROVE  mq_que'[q][i] = mq_que[q][i] /\ mq_que[q][i].data # tm
  <2>1. mq_que'[q][i] = mq_que[q][i]
    BY <1>4, <1>7 DEF Null
  <2>2. mq_que[q][i] = [id |-> mq_que[q][i].id, data |-> mq_que[q][i].data]
    BY <1>4 DEF Message, Null
  <2> QED BY <1>4, <1>7, <2>1, <2>2
<1>8. TimersServeOne'
  <2>1. ASSUME NEW i \in Pending(q)', mq_que'[q][i].id = "MSG_TIMER", mq_que'[q][i].data \in oneshot'
        PROVE  /\ mq_que'[q][i].data \notin ticking'
               /\ \A j \in Pending(q)' : mq_que'[q][j] = mq_que'[q][i] => j = i
    <3>1. i \in Pending(q) /\ mq_que'[q][i] = mq_que[q][i]
      BY <1>3, <1>7, <2>1
    <3>2. /\ mq_que[q][i].data \notin ticking
          /\ \A j \in Pending(q) : mq_que[q][j] = mq_que[q][i] => j = i
      BY <1>1, <2>1, <3>1 DEF MInv, TimersServeOne
    <3>3. ASSUME NEW j \in Pending(q), mq_que'[q][j] = mq_que'[q][i] PROVE j = i
      <4>1. mq_que'[q][j] = mq_que[q][j]
        BY <1>7, <2>1, <3>3
      <4> QED BY <3>1, <3>2, <3>3, <4>1
    <3>4. ticking' \subseteq ticking /\ Pending(q)' = Pending(q)
      BY <1>1, <1>3
    <3> QED BY <3>1, <3>2, <3>3, <3>4
  <2>2. \A r \in MsgQ \ {q} : \A i \in Pending(r)' :
          mq_que'[r][i].id = "MSG_TIMER" /\ mq_que'[r][i].data \in oneshot' =>
             /\ mq_que'[r][i].data \notin ticking'
             /\ \A j \in Pending(r)' : mq_que'[r][j] = mq_que'[r][i] => j = i
    BY <1>1, <1>3 DEF MInv, TimersServeOne
  <2>3. \A x, r \in MsgQ : x # r => mq_timers'[x] \cap mq_timers'[r] = {}
    <3>1. \A r \in MsgQ : mq_timers'[r] \subseteq mq_timers[r]
      BY <1>3
    <3> QED BY <3>1 DEF MInv, TimersServeOne
  <2> QED BY <2>1, <2>2, <2>3 DEF TimersServeOne
<1>9. TimerMessagesOwned'
  <2>1. ASSUME NEW r \in MsgQ, NEW i \in Pending(r)', mq_que'[r][i].id = "MSG_TIMER"
        PROVE  mq_que'[r][i].data \in mq_timers'[r]
    <3>1. CASE r = q
      <4>1. i \in Pending(q)
        BY <1>3, <3>1
      <4>2. mq_que'[q][i] = mq_que[q][i] /\ mq_que[q][i].data # tm
        BY <1>7, <2>1, <3>1, <4>1
      <4>3. mq_que[q][i].data \in mq_timers[q]
        BY <2>1, <3>1, <4>1, <4>2 DEF MInv, TimerMessagesOwned
      <4> QED BY <1>3, <3>1, <4>2, <4>3
    <3>2. CASE r # q
      BY <1>3, <2>1, <3>2 DEF MInv, TimerMessagesOwned
    <3> QED BY <3>1, <3>2
  <2>2. \A r \in MsgQ : tm \notin mq_timers'[r] /\ mq_timers'[r] \subseteq mq_timers[r]
    BY <1>1, <1>3 DEF MInv, TimersServeOne
  <2>3. \A x \in ToSet(freeTimers') :
          x \notin ticking' /\ \A r \in MsgQ : x \notin mq_timers'[r]
    BY <1>1, <1>2, <2>2 DEF MInv, TimerMessagesOwned
  <2> QED BY <1>2, <2>1, <2>3 DEF TimerMessagesOwned
<1> QED BY <1>5, <1>6, <1>8, <1>9 DEF MInv

\* NutMsgQTimerCb: the message of a timer that runs is put into the ring.
LEMMA TimerCbMInv ==
    ASSUME IInv, MInv, NEW q \in MsgQ, NEW tm \in MsgTimer, NutMsgQTimerCb(q, tm)
    PROVE  MInv'
<1> DEFINE m == [id |-> "MSG_TIMER", data |-> tm]
<1>1. /\ tm \in ticking /\ tm \in mq_timers[q] /\ ~NutMsgQFull(q) /\ Put(q, m)
      /\ NutEventPostAsync(q) /\ ticking' = ticking \ (oneshot \cap {tm})
      /\ UNCHANGED <<progVars, mq_timers, freeTimers, oneshot>>
  BY DEF NutMsgQTimerCb
<1>2. /\ m \in Message /\ m.id = "MSG_TIMER" /\ m.data = tm
  BY DEF Message
<1>3. PICK t \in Thread : TRUE
  BY SchedAssumption
<1> HIDE DEF m
<1>4. /\ ticking' \subseteq ticking
      /\ m.data \in oneshot => m.data \in ticking /\ m.data \notin ticking'
  BY <1>1, <1>2
<1> QED BY <1>1, <1>2, <1>3, <1>4, PutMInv

\* NutMsgQPost and NutMsgQSend.
LEMMA PostMInv ==
    ASSUME IInv, MInv, NEW t \in Thread, NEW q \in MsgQ, NEW d \in Data,
           NutMsgQPost(t, q, d) \/ NutMsgQSend(t, q, d)
    PROVE  MInv'
<1> DEFINE m == [id |-> "user", data |-> d]
<1>1. /\ ~NutMsgQFull(q) /\ Put(q, m)
      /\ NutEventPostAsync(q) \/ (running = t /\ NutEventPost(t, q))
      /\ UNCHANGED <<progVars, mq_timers, freeTimers, oneshot>> /\ ticking' = ticking
  BY DEF NutMsgQPost, NutMsgQSend, At, tmrVars
<1>2. m \in Message /\ m.id # "MSG_TIMER"
  BY DEF Message
<1> HIDE DEF m
<1> QED BY <1>1, <1>2, PutMInv

\* NutMsgQGetMessage, up to the wait.
LEMMA GetMessageMInv ==
    ASSUME IInv, IInv', MInv, NEW t \in Thread, NEW q \in MsgQ, NEW w \in BOOLEAN,
           NutMsgQGetMessage(t, q, w)
    PROVE  MInv'
<1>1. /\ running = t /\ step[t] = "user" /\ t = Reader[q] /\ NutEventWait(t, q, w)
      /\ step' = [step EXCEPT ![t] = "get"] /\ obj' = [obj EXCEPT ![t] = q]
      /\ mq_que' = mq_que /\ mq_read' = mq_read /\ mq_write' = mq_write
      /\ mq_timers' = mq_timers /\ freeTimers' = freeTimers
      /\ oneshot' = oneshot /\ ticking' = ticking
  BY DEF NutMsgQGetMessage, At, GoTo, msgVars
<1>2. /\ Queues /\ q \in Root /\ t \in ToSet(runQueue)
      /\ ToSet(runQueue) \subseteq Thread
      /\ runQueue \in Seq(Thread) /\ IsInjective(runQueue)
      /\ \A r \in Root : ToSet(waitq[r]) \subseteq Thread /\ t \notin ToSet(waitq[r])
      /\ MsgQ \subseteq Root
  BY <1>1, ToSetOf, MsgAssumption, SchedAssumption DEF IInv, Queues, QueuesTyped, Placed
<1>3. /\ step'[t] = "get" /\ obj'[t] = q
      /\ \A u \in Thread \ {t} : step'[u] = step[u] /\ obj'[u] = obj[u]
  BY <1>1 DEF IInv, ProgTyped
<1>4. MsgTypeOK' /\ \A r \in MsgQ : Pending(r)' = Pending(r) /\ (Repost(r)' <=> Repost(r))
  BY <1>1 DEF MInv, MsgTypeOK, Pending, Repost
<1>5. TimersServeOne' /\ TimerMessagesOwned'
  BY <1>1, <1>4 DEF MInv, TimersServeOne, TimerMessagesOwned
<1>6. GettersRead'
  BY <1>1, <1>3 DEF MInv, GettersRead
<1>7. ~Woken(q)
  <2>1. ASSUME NEW u \in ToSet(runQueue), step[u] = "get", obj[u] = q PROVE FALSE
    BY <1>1, <1>2, <2>1 DEF MInv, GettersRead
  <2> QED BY <2>1 DEF Woken
<1>8. ASSUME Block(t, q, w), q \notin signaled PROVE GettersWait' /\ EventsCount'
  <2>1. Queues /\ running = t /\ q \in Root
    BY <1>1, <1>2
  <2>2. /\ ToSet(runQueue') = ToSet(runQueue) \ {t}
        /\ ToSet(waitq'[q]) = ToSet(waitq[q]) \cup {t}
        /\ \A r \in Root \ {q} : waitq'[r] = waitq[r]
    BY <1>8, <2>1, BlockKeeps
  <2>3. /\ \A r \in MsgQ : r \in signaled' <=> r \in signaled
        /\ timedOut' = timedOut \ {t}
    BY <1>8 DEF Block
  <2>4. GettersWait'
    BY <1>2, <1>3, <2>2, <2>3 DEF MInv, GettersWait
  <2>5. \A r \in MsgQ : Woken(r)' <=> Woken(r)
    BY <1>1, <1>2, <1>3, <2>2, <2>3 DEF Woken
  <2> QED BY <1>1, <1>4, <2>3, <2>4, <2>5 DEF MInv, EventsCount
<1>9. ASSUME q \in signaled, ~Block(t, q, w) PROVE GettersWait' /\ EventsCount'
  <2>1. /\ runQueue' = Yielded(runQueue, t) /\ waitq' = waitq
        /\ signaled' = signaled \ {q} /\ timedOut' = timedOut \ {t}
    BY <1>1, <1>9 DEF NutEventWait
  <2>2. ToSet(runQueue') = ToSet(runQueue)
    BY <1>2, <2>1, YieldedKeeps
  <2>3. GettersWait'
    BY <1>2, <1>3, <2>1 DEF MInv, GettersWait
  <2>4. Woken(q)'
    BY <1>2, <1>3, <2>1, <2>2 DEF Woken
  <2>5. \A r \in MsgQ \ {q} : Woken(r)' <=> Woken(r)
    BY <1>1, <1>2, <1>3, <2>1, <2>2 DEF Woken
  <2> QED BY <1>1, <1>4, <1>7, <1>9, <2>1, <2>3, <2>4, <2>5 DEF MInv, EventsCount
<1>10. GettersWait' /\ EventsCount'
  <2>1. (q \notin signaled /\ Block(t, q, w)) \/ (q \in signaled /\ ~Block(t, q, w))
        \/ (q \in signaled /\ Block(t, q, w))
    BY <1>1 DEF NutEventWait
  <2>2. q \in signaled => ~Block(t, q, w)
    <3> SUFFICES ASSUME q \in signaled, Block(t, q, w) PROVE FALSE
      OBVIOUS
    <3>1. runQueue' = Yielded(runQueue, t) /\ t \in ToSet(runQueue)
      BY <1>1, <1>2 DEF NutEventWait
    <3>2. ToSet(runQueue') = ToSet(runQueue)
      BY <1>2, <3>1, YieldedKeeps
    <3>3. ToSet(runQueue') = ToSet(runQueue) \ {t}
      BY <1>1, <1>2, BlockKeeps
    <3> QED BY <1>2, <3>2, <3>3
  <2> QED BY <1>8, <1>9, <2>1, <2>2
<1> QED BY <1>4, <1>5, <1>6, <1>10 DEF MInv

\* NutMsgQGetMessage ended by its timer.
LEMMA GetTimeoutMInv ==
    ASSUME IInv, IInv', MInv, NEW t \in Thread, GetTimeout(t)
    PROVE  MInv'
<1>1. /\ running = t /\ step[t] = "get" /\ t \in timedOut
      /\ step' = [step EXCEPT ![t] = "user"]
      /\ mq_que' = mq_que /\ mq_read' = mq_read /\ mq_write' = mq_write
      /\ mq_timers' = mq_timers /\ freeTimers' = freeTimers
      /\ oneshot' = oneshot /\ ticking' = ticking
      /\ obj' = [obj EXCEPT ![t] = NIL]
      /\ runQueue' = runQueue /\ waitq' = waitq /\ signaled' = signaled /\ timedOut' = timedOut
  BY DEF GetTimeout, At, GoTo, msgVars, schedVars
<1>2. /\ step'[t] = "user"
      /\ \A u \in Thread \ {t} : step'[u] = step[u] /\ obj'[u] = obj[u]
  BY <1>1 DEF IInv, ProgTyped
<1>3. /\ ToSet(runQueue) \subseteq Thread
      /\ \A r \in Root : ToSet(waitq[r]) \subseteq Thread /\ t \notin ToSet(waitq[r])
      /\ MsgQ \subseteq Root
  BY <1>1, ToSetOf, MsgAssumption, SchedAssumption DEF IInv, Queues, QueuesTyped, Placed
<1>4. MsgTypeOK' /\ \A r \in MsgQ : Pending(r)' = Pending(r) /\ (Repost(r)' <=> Repost(r))
  BY <1>1 DEF MInv, MsgTypeOK, Pending, Repost
<1>5. TimersServeOne' /\ TimerMessagesOwned'
  BY <1>1, <1>4 DEF MInv, TimersServeOne, TimerMessagesOwned
<1>6. GettersRead' /\ GettersWait'
  BY <1>1, <1>2, <1>3 DEF MInv, GettersRead, GettersWait
<1>7. \A r \in MsgQ : Woken(r)' <=> Woken(r)
  BY <1>1, <1>2, <1>3 DEF Woken
<1>8. EventsCount'
  BY <1>1, <1>4, <1>7 DEF MInv, EventsCount
<1> QED BY <1>4, <1>5, <1>6, <1>8 DEF MInv

\* A woken reader takes the oldest message and passes the event on for the next one.
LEMMA GetTakeMInv ==
    ASSUME IInv, IInv', MInv, NEW t \in Thread, NEW q \in MsgQ, GetTake(t, q)
    PROVE  MInv'
<1> DEFINE r0 == mq_read[q]
           w0 == mq_write[q]
           msg == mq_que[q][r0]
<1>1. /\ running = t /\ step[t] = "get" /\ obj[t] = q /\ t \notin timedOut
      /\ mq_read' = [mq_read EXCEPT ![q] = After(r0)]
      /\ IF Repost(q) THEN NutEventPostAsync(q) ELSE UNCHANGED schedVars
      /\ step' = [step EXCEPT ![t] = "user"] /\ obj' = [obj EXCEPT ![t] = NIL]
      /\ mq_que' = mq_que /\ mq_write' = mq_write /\ oneshot' = oneshot /\ ticking' = ticking
      /\ IF msg.id = "MSG_TIMER" /\ msg.data \in oneshot
         THEN FreeTimer(q, msg.data) ELSE mq_timers' = mq_timers /\ freeTimers' = freeTimers
  BY DEF GetTake, At, GoTo
<1>2. /\ Queues /\ q \in Root /\ t \in ToSet(runQueue)
      /\ ToSet(runQueue) \subseteq Thread
      /\ \A r \in Root : ToSet(waitq[r]) \subseteq Thread /\ t \notin ToSet(waitq[r])
      /\ MsgQ \subseteq Root
  BY <1>1, ToSetOf, MsgAssumption, SchedAssumption DEF IInv, Queues, QueuesTyped, Placed
<1>3. /\ step'[t] = "user"
      /\ \A u \in Thread \ {t} : step'[u] = step[u] /\ obj'[u] = obj[u]
  BY <1>1 DEF IInv, ProgTyped
<1>4. Woken(q) /\ waitq[q] = <<>>
  BY <1>1, <1>2, OneReader DEF Woken
<1>5. /\ r0 \in Index /\ w0 \in Index /\ r0 # w0
      /\ Pending(q) = Between(r0, w0) /\ r0 \in Pending(q) /\ Pending(q) \subseteq Index
  BY <1>4, PendingIs DEF MInv, EventsCount
<1>6. /\ After(r0) \in Index
      /\ Between(After(r0), w0) = Between(r0, w0) \ {r0}
  BY <1>5, AfterIs, BetweenTake
<1>7. /\ mq_read'[q] = After(r0) /\ \A r \in MsgQ \ {q} : mq_read'[r] = mq_read[r]
      /\ mq_read' \in [MsgQ -> Index]
      /\ mq_write'[q] = w0
  BY <1>1, <1>6 DEF MInv, MsgTypeOK
<1>8. /\ Pending(q)' = Pending(q) \ {r0}
      /\ \A r \in MsgQ \ {q} : Pending(r)' = Pending(r)
  BY <1>1, <1>5, <1>6, <1>7 DEF Pending, Between
<1>9. /\ waitq' = waitq /\ timedOut' = timedOut /\ ToSet(runQueue') = ToSet(runQueue)
      /\ signaled' = IF Repost(q) THEN signaled \cup {q} ELSE signaled
  <2>1. CASE Repost(q)
    BY <1>1, <1>2, <1>4, <2>1, PostSets
  <2>2. CASE ~Repost(q)
    BY <1>1, <2>2 DEF schedVars
  <2> QED BY <2>1, <2>2
<1>10. GettersRead' /\ GettersWait'
  BY <1>2, <1>3, <1>9 DEF MInv, GettersRead, GettersWait
<1>11. EventsCount'
  <2>1. ~Woken(q)'
    <3>1. ASSUME NEW u \in ToSet(runQueue'), step'[u] = "get", obj'[u] = q PROVE FALSE
      <4>1. u \in Thread \ {t}
        BY <1>2, <1>3, <1>9, <3>1
      <4>2. u = t
        BY <1>1, <1>3, <3>1, <4>1 DEF MInv, GettersRead
      <4> QED BY <4>1, <4>2
    <3> QED BY <3>1 DEF Woken
  <2>2. \A r \in MsgQ \ {q} : Woken(r)' <=> Woken(r)
    BY <1>1, <1>2, <1>3, <1>9 DEF Woken
  <2>3. Repost(q) <=> mq_read'[q] # mq_write'[q]
    BY <1>7 DEF Repost
  <2>4. ~Repost(q) => q \notin signaled
    BY <1>4 DEF MInv, EventsCount
  <2>5. \A r \in MsgQ \ {q} :
            /\ mq_read'[r] = mq_read[r] /\ mq_write'[r] = mq_write[r]
            /\ Repost(r)' <=> Repost(r)
            /\ r \in signaled' <=> r \in signaled
    BY <1>1, <1>7, <1>9 DEF Repost
  <2>6. q \in signaled' <=> mq_read'[q] # mq_write'[q]
    BY <1>9, <2>3, <2>4
  <2> QED BY <2>1, <2>2, <2>5, <2>6 DEF MInv, EventsCount
<1>12. CASE ~(msg.id = "MSG_TIMER" /\ msg.data \in oneshot)
  <2>1. mq_timers' = mq_timers /\ freeTimers' = freeTimers
    BY <1>1, <1>12
  <2>2. MsgTypeOK'
    BY <1>1, <1>7, <2>1 DEF MInv, MsgTypeOK
  <2>3. TimersServeOne' /\ TimerMessagesOwned'
    BY <1>1, <1>8, <2>1 DEF MInv, TimersServeOne, TimerMessagesOwned
  <2> QED BY <1>10, <1>11, <2>2, <2>3 DEF MInv
<1>13. CASE msg.id = "MSG_TIMER" /\ msg.data \in oneshot
  <2> DEFINE tm == msg.data
  <2>1. /\ tm \in mq_timers[q] /\ tm \in MsgTimer /\ tm \notin ticking
        /\ \A j \in Pending(q) : mq_que[q][j] = msg => j = r0
    BY <1>5, <1>13 DEF MInv, MsgTypeOK, TimersServeOne, TimerMessagesOwned
  <2>2. /\ mq_timers' = [mq_timers EXCEPT ![q] = @ \ {tm}]
        /\ freeTimers' = <<tm>> \o freeTimers
    BY <1>1, <1>13 DEF FreeTimer
  <2>3. msg = [id |-> "MSG_TIMER", data |-> tm]
    <3>1. msg \in Message \cup {Null}
      BY <1>5 DEF MInv, MsgTypeOK
    <3> QED BY <1>13, <3>1 DEF Message, Null
  <2> HIDE DEF msg, tm
  <2>4. /\ freeTimers' \in Seq(MsgTimer) /\ IsInjective(freeTimers')
        /\ ToSet(freeTimers') = ToSet(freeTimers) \cup {tm}
    <3>1. freeTimers \in Seq(MsgTimer) /\ IsInjective(freeTimers) /\ tm \notin ToSet(freeTimers)
      BY <2>1 DEF MInv, MsgTypeOK, TimerMessagesOwned
    <3> QED BY <2>1, <2>2, <3>1, ConsSet
  <2>5. /\ mq_timers'[q] = mq_timers[q] \ {tm}
        /\ \A r \in MsgQ \ {q} : mq_timers'[r] = mq_timers[r]
        /\ mq_timers' \in [MsgQ -> SUBSET MsgTimer]
    BY <2>2 DEF MInv, MsgTypeOK
  <2>6. MsgTypeOK'
    BY <1>1, <1>7, <2>4, <2>5 DEF MInv, MsgTypeOK
  <2>7. TimersServeOne'
    BY <1>1, <1>8, <2>5 DEF MInv, TimersServeOne
  <2>8. TimerMessagesOwned'
    <3>1. ASSUME NEW r \in MsgQ, NEW i \in Pending(r)', mq_que'[r][i].id = "MSG_TIMER"
          PROVE  mq_que'[r][i].data \in mq_timers'[r]
      <4>1. CASE r = q
        <5>1. i \in Pending(q) /\ i # r0 /\ mq_que[q][i].id = "MSG_TIMER" /\ i \in Index
          BY <1>1, <1>5, <1>8, <3>1, <4>1
        <5>2. mq_que[q][i] \in Message \cup {Null}
          BY <5>1 DEF MInv, MsgTypeOK
        <5>3. mq_que[q][i] = [id |-> "MSG_TIMER", data |-> mq_que[q][i].data]
          BY <5>1, <5>2 DEF Message, Null
        <5>4. mq_que[q][i].data # tm
          BY <2>1, <2>3, <5>1, <5>3
        <5>5. mq_que[q][i].data \in mq_timers[q]
          BY <5>1 DEF MInv, TimerMessagesOwned
        <5> QED BY <1>1, <2>5, <4>1, <5>4, <5>5
      <4>2. CASE r # q
        BY <1>1, <1>8, <2>5, <3>1, <4>2 DEF MInv, TimerMessagesOwned
      <4> QED BY <4>1, <4>2
    <3>2. \A r \in MsgQ : tm \notin mq_timers'[r] /\ mq_timers'[r] \subseteq mq_timers[r]
      BY <2>1, <2>5 DEF MInv, TimersServeOne
    <3>3. \A x \in ToSet(freeTimers') :
            x \notin ticking' /\ \A r \in MsgQ : x \notin mq_timers'[r]
      BY <1>1, <2>1, <2>4, <3>2 DEF MInv, TimerMessagesOwned
    <3> QED BY <2>4, <3>1, <3>3 DEF TimerMessagesOwned
  <2> QED BY <1>10, <1>11, <2>6, <2>7, <2>8 DEF MInv
<1> QED BY <1>12, <1>13

\* NutMsgQFlush, while nobody reads.
LEMMA FlushMInv ==
    ASSUME IInv, IInv', MInv, NEW t \in Thread, NEW q \in MsgQ, NutMsgQFlush(t, q)
    PROVE  MInv'
<1>1. /\ \A u \in Thread : ~(step[u] = "get" /\ obj[u] = q)
      /\ mq_read' = [mq_read EXCEPT ![q] = mq_write[q]]
      /\ signaled' = signaled \ {q}
      /\ runQueue' = runQueue /\ waitq' = waitq /\ timedOut' = timedOut
      /\ step' = step /\ obj' = obj
      /\ mq_que' = mq_que /\ mq_write' = mq_write
      /\ mq_timers' = mq_timers /\ freeTimers' = freeTimers
      /\ oneshot' = oneshot /\ ticking' = ticking
  BY DEF NutMsgQFlush, progVars, tmrVars
<1>2. /\ mq_read'[q] = mq_write[q] /\ \A r \in MsgQ \ {q} : mq_read'[r] = mq_read[r]
      /\ MsgTypeOK'
  BY <1>1 DEF MInv, MsgTypeOK
<1>3. Pending(q)' = {}
  <2>1. mq_read'[q] = mq_write'[q] /\ mq_write'[q] \in Index
    BY <1>1, <1>2 DEF MInv, MsgTypeOK
  <2>2. Pending(q)' = Between(mq_read'[q], mq_write'[q])
    BY DEF Pending, Between
  <2> QED BY <2>1, <2>2, BetweenEmpty
<1>4. \A r \in MsgQ \ {q} : Pending(r)' = Pending(r)
  BY <1>1, <1>2 DEF Pending
<1>5. \A r \in MsgQ : Woken(r)' <=> Woken(r)
  BY <1>1 DEF Woken
<1>6. ~Woken(q)
  BY <1>1, ToSetOf DEF Woken, IInv, Queues, QueuesTyped
<1>7. GettersRead' /\ GettersWait'
  BY <1>1 DEF MInv, GettersRead, GettersWait
<1>8. EventsCount'
  BY <1>1, <1>2, <1>5, <1>6 DEF MInv, EventsCount, Repost
<1>9. TimersServeOne' /\ TimerMessagesOwned'
  BY <1>1, <1>3, <1>4 DEF MInv, TimersServeOne, TimerMessagesOwned
<1> QED BY <1>2, <1>7, <1>8, <1>9 DEF MInv

\* Every step of the composition preserves the invariant.
LEMMA ServicesStepMInv ==
    ASSUME IInv, MInv, [ServicesNext]_<<schedVars, progVars, syncVars, msgVars>>
    PROVE  MInv'
<1>1. IInv'
  BY ServicesStepIInv
<1>2. CASE SchedStep /\ UNCHANGED <<syncVars, msgVars>>
  BY <1>1, <1>2, SchedStepMInv
<1>3. ASSUME NEW t \in Thread, SyncCall(t), UNCHANGED msgVars PROVE MInv'
  BY <1>1, <1>3, SyncCallMInv
<1>4. ASSUME NEW t \in Thread, MsgCall(t) PROVE MInv'
  <2> PICK q \in MsgQ :
        \/ \E d \in Data : NutMsgQPost(t, q, d) \/ NutMsgQSend(t, q, d)
        \/ \E tm \in MsgTimer :
              \/ \E once \in BOOLEAN : NutMsgQStartTimer(t, q, tm, once)
              \/ NutMsgQStopTimer(t, q, tm)
        \/ \E withTimer \in BOOLEAN : NutMsgQGetMessage(t, q, withTimer)
        \/ GetTake(t, q) \/ NutMsgQFlush(t, q)
    BY <1>4 DEF MsgCall
  <2> QED BY <1>1, PostMInv, StartTimerMInv, StopTimerMInv, GetMessageMInv, GetTakeMInv, FlushMInv
<1>5. CASE MsgStep
  BY <1>1, <1>4, <1>5, GetTimeoutMInv, TimerCbMInv DEF MsgStep
<1>6. CASE UNCHANGED <<schedVars, progVars, syncVars, msgVars>>
  <2>1. UNCHANGED msgVars /\ ReadersStay
    BY <1>6 DEF schedVars, progVars, ReadersStay, MInv, GettersWait
  <2> QED BY <1>1, <2>1, ReadersStayMInv
<1> QED BY <1>2, <1>3, <1>5, <1>6 DEF ServicesNext

-----------------------------------------------------------------------------
(* The theorems about message queues.                                      *)

LEMMA MsgInvariant == ServicesSpec => [](IInv /\ MInv)
<1>1. ServicesInit => IInv /\ MInv
  BY InitIInv, InitMInv DEF ServicesInit, Init
<1>2. IInv /\ MInv /\ [ServicesNext]_<<schedVars, progVars, syncVars, msgVars>>
        => (IInv /\ MInv)'
  BY ServicesStepIInv, ServicesStepMInv
<1> QED BY <1>1, <1>2, PTL DEF ServicesSpec

\* The message queues stay well formed: every index is inside its ring.
THEOREM MsgTypes == ServicesSpec => []MsgTypeOK
<1>1. MInv => MsgTypeOK
  BY DEF MInv
<1> QED BY <1>1, MsgInvariant, PTL

\* A thread that comes out of the wait of NutMsgQGetMessage finds a message, whatever
\* else the threads do, and whenever timers elapse.
THEOREM ReadersFindMessages == ServicesSpec => []EventMeansMessage
<1>1. MInv => EventMeansMessage
  <2> SUFFICES ASSUME MInv PROVE EventMeansMessage
    OBVIOUS
  <2>1. \A q \in MsgQ : q \in signaled \/ Woken(q) => Pending(q) # {}
    BY PendingIs DEF MInv, EventsCount
  <2> QED BY <2>1 DEF EventMeansMessage, Woken
<1> QED BY <1>1, MsgInvariant, PTL

\* No message is stranded: while there are messages the root is signaled or the
\* reader is on its way to them, and it does not wait.
THEOREM NoMessageStranded == ServicesSpec => []MessageMeansEvent
<1>1. IInv /\ MInv => MessageMeansEvent
  <2> SUFFICES ASSUME IInv, MInv PROVE MessageMeansEvent
    OBVIOUS
  <2>1. \A q \in MsgQ : Pending(q) # {} => q \in signaled \/ Woken(q)
    BY PendingIs DEF MInv, EventsCount
  <2>2. \A q \in MsgQ : Pending(q) # {} => waitq[q] = <<>>
    BY <2>1, OneReader
  <2> QED BY <2>1, <2>2 DEF MessageMeansEvent, Woken
<1> QED BY <1>1, MsgInvariant, PTL

\* A timer's message in a ring belongs to a timer on that queue's list: stopping the timer
\* leaves none behind, and a NUTMSGTMR on the free list is in nobody's use.
THEOREM TimersOwnTheirMessages == ServicesSpec => []TimerMessagesOwned
<1>1. MInv => TimerMessagesOwned
  BY DEF MInv
<1> QED BY <1>1, MsgInvariant, PTL

-----------------------------------------------------------------------------
(* The ring is a FIFO.                                                     *)

\* The entries by the order in which they are read: the i-th from r on.
Slot(r, i) == (r + i - 1) % (Mask + 1)

\* How many there are up to w.
Num(r, w) == (w - r) % (Mask + 1)

\* The number, without the modulus, and how Put and GetTake change it.
LEMMA NumIs ==
    ASSUME NEW r \in Index, NEW w \in Index
    PROVE  /\ Num(r, w) = (IF r <= w THEN w - r ELSE w - r + Mask + 1)
           /\ Num(r, w) \in 0..Mask
           /\ After(w) # r => Num(r, After(w)) = Num(r, w) + 1 /\ Num(r, w) < Mask
           /\ r # w => Num(After(r), w) = Num(r, w) - 1 /\ Num(r, w) > 0
<1>1. r \in Int /\ w \in Int /\ Mask \in Nat
      /\ r >= 0 /\ r <= Mask /\ w >= 0 /\ w <= Mask
  BY MsgAssumption DEF Index
<1>2. /\ After(w) = (IF w = Mask THEN 0 ELSE w + 1) /\ After(w) \in Index
      /\ After(r) = (IF r = Mask THEN 0 ELSE r + 1) /\ After(r) \in Index
  BY AfterIs
<1>3. /\ Num(r, w) = (IF r <= w THEN w - r ELSE w - r + Mask + 1)
      /\ Num(r, After(w)) = (IF r <= After(w) THEN After(w) - r ELSE After(w) - r + Mask + 1)
      /\ Num(After(r), w) = (IF After(r) <= w THEN w - After(r) ELSE w - After(r) + Mask + 1)
  BY <1>2, AheadIs DEF Num
<1>4. Num(r, w) \in 0..Mask
  BY <1>1, <1>3
<1>5. After(w) # r => Num(r, After(w)) = Num(r, w) + 1 /\ Num(r, w) < Mask
  <2>1. CASE w = Mask
    BY <1>1, <1>2, <1>3, <2>1
  <2>2. CASE w # Mask
    BY <1>1, <1>2, <1>3, <2>2
  <2> QED BY <2>1, <2>2
<1>6. r # w => Num(After(r), w) = Num(r, w) - 1 /\ Num(r, w) > 0
  <2>1. CASE r = Mask
    BY <1>1, <1>2, <1>3, <2>1
  <2>2. CASE r # Mask
    BY <1>1, <1>2, <1>3, <2>2
  <2> QED BY <2>1, <2>2
<1> QED BY <1>3, <1>4, <1>5, <1>6

\* The entries, without the modulus.
LEMMA SlotIs ==
    ASSUME NEW r \in Index, NEW i \in 1..(Mask + 1)
    PROVE  /\ Slot(r, i) = (IF r + i - 1 <= Mask THEN r + i - 1 ELSE r + i - 1 - (Mask + 1))
           /\ Slot(r, i) \in Index
<1>1. /\ r \in Int /\ i \in Int /\ Mask \in Nat /\ r >= 0 /\ r <= Mask
      /\ i >= 1 /\ i <= Mask + 1
  BY MsgAssumption DEF Index
<1>2. CASE r + i - 1 <= Mask
  <2>1. (r + i - 1) \in 0..((Mask + 1) - 1)
    BY <1>1, <1>2
  <2>2. (r + i - 1) % (Mask + 1) = r + i - 1
    BY <1>1, <2>1
  <2> QED BY <1>1, <1>2, <2>1, <2>2 DEF Slot, Index
<1>3. CASE ~(r + i - 1 <= Mask)
  <2>1. (r + i - 1) \in (Mask + 1)..(2 * (Mask + 1) - 1)
    BY <1>1, <1>3
  <2>2. (r + i - 1) % (Mask + 1) = (r + i - 1) - (Mask + 1)
    BY <1>1, <2>1
  <2> QED BY <1>1, <1>3, <2>2 DEF Slot, Index
<1> QED BY <1>2, <1>3

\* They are the entries between the indices, each once.
LEMMA SlotsAre ==
    ASSUME NEW r \in Index, NEW w \in Index
    PROVE  /\ \A i \in 1..Num(r, w) : Slot(r, i) \in Between(r, w)
           /\ \A i, j \in 1..Num(r, w) : Slot(r, i) = Slot(r, j) => i = j
           /\ \A x \in Between(r, w) : \E i \in 1..Num(r, w) : Slot(r, i) = x
           /\ Cardinality(Between(r, w)) = Num(r, w)
<1>1. r \in Int /\ w \in Int /\ Mask \in Nat
      /\ r >= 0 /\ r <= Mask /\ w >= 0 /\ w <= Mask
  BY MsgAssumption DEF Index
<1>2. /\ Num(r, w) = (IF r <= w THEN w - r ELSE w - r + Mask + 1)
      /\ Num(r, w) \in 0..Mask
  BY NumIs
<1>3. \A i \in 1..Num(r, w) :
        /\ i \in 1..(Mask + 1)
        /\ Slot(r, i) = (IF r + i - 1 <= Mask THEN r + i - 1 ELSE r + i - 1 - (Mask + 1))
        /\ Slot(r, i) \in Index
  BY <1>1, <1>2, SlotIs
<1>4. ASSUME NEW i \in 1..Num(r, w) PROVE Slot(r, i) \in Between(r, w)
  <2>1. Slot(r, i) \in Between(r, w) <=>
          IF r <= w THEN r <= Slot(r, i) /\ Slot(r, i) < w ELSE r <= Slot(r, i) \/ Slot(r, i) < w
    BY <1>3, BetweenIs
  <2> QED BY <1>1, <1>2, <1>3, <2>1
<1>5. ASSUME NEW i \in 1..Num(r, w), NEW j \in 1..Num(r, w), Slot(r, i) = Slot(r, j)
      PROVE  i = j
  BY <1>1, <1>2, <1>3, <1>5
<1>6. ASSUME NEW x \in Between(r, w) PROVE \E i \in 1..Num(r, w) : Slot(r, i) = x
  <2>1. x \in Index
    BY DEF Between
  <2>2. x \in Int /\ x >= 0 /\ x <= Mask
    BY <2>1, MsgAssumption DEF Index
  <2>3. IF r <= w THEN r <= x /\ x < w ELSE r <= x \/ x < w
    BY <2>1, BetweenIs
  <2> DEFINE k == IF r <= x THEN x - r + 1 ELSE x - r + Mask + 2
  <2>4. k \in 1..Num(r, w)
    BY <1>1, <1>2, <2>2, <2>3
  <2>5. Slot(r, k) = x
    <3>1. Slot(r, k) = (IF r + k - 1 <= Mask THEN r + k - 1 ELSE r + k - 1 - (Mask + 1))
      BY <1>3, <2>4
    <3>2. CASE r <= x
      BY <1>1, <2>2, <3>1, <3>2
    <3>3. CASE ~(r <= x)
      BY <1>1, <2>2, <3>1, <3>3
    <3> QED BY <3>2, <3>3
  <2> HIDE DEF k
  <2> QED BY <2>4, <2>5
<1>7. Cardinality(Between(r, w)) = Num(r, w)
  <2> DEFINE f == [i \in 1..Num(r, w) |-> Slot(r, i)]
  <2>1. f \in [1..Num(r, w) -> Between(r, w)]
    BY <1>4
  <2>2. \A i, j \in 1..Num(r, w) : f[i] = f[j] => i = j
    BY <1>5
  <2>3. \A x \in Between(r, w) : \E i \in 1..Num(r, w) : f[i] = x
    BY <1>6
  <2> HIDE DEF f
  <2>4. f \in Bijection(1..Num(r, w), Between(r, w))
    BY <2>1, <2>2, <2>3 DEF Bijection, Injection, Surjection, IsInjective
  <2>5. Num(r, w) \in Nat
    BY <1>2
  <2>6. ExistsBijection(1..Num(r, w), Between(r, w))
    BY <2>4 DEF ExistsBijection
  <2> QED BY <2>5, <2>6, FS_CountingElements
<1> QED BY <1>4, <1>5, <1>6, <1>7

\* What a ring holds, in the order in which it is read.
Ring(que, r, w) == [i \in 1..Num(r, w) |-> que[Slot(r, i)]]

Entry == Message \cup {Null}

\* By position.
LEMMA RingIs ==
    ASSUME NEW que \in [Index -> Entry], NEW r \in Index, NEW w \in Index
    PROVE  /\ Ring(que, r, w) \in Seq(Entry)
           /\ Len(Ring(que, r, w)) = Num(r, w)
           /\ DOMAIN Ring(que, r, w) = 1..Num(r, w)
           /\ \A i \in 1..Num(r, w) :
                 Ring(que, r, w)[i] = que[Slot(r, i)] /\ Slot(r, i) \in Index
<1>1. Num(r, w) \in Nat /\ \A i \in 1..Num(r, w) : Slot(r, i) \in Index
  <2>1. Num(r, w) \in 0..Mask /\ Mask \in Nat
    BY NumIs, MsgAssumption
  <2>2. Between(r, w) \subseteq Index
    BY DEF Between
  <2> QED BY <2>1, <2>2, SlotsAre
<1>2. \A i \in 1..Num(r, w) : que[Slot(r, i)] \in Entry
  BY <1>1
<1> QED BY <1>1, <1>2 DEF Ring

\* Two sequences with the same elements.
LEMMA SameSeq ==
    ASSUME NEW S, NEW s \in Seq(S), NEW u \in Seq(S), Len(s) = Len(u),
           \A i \in 1..Len(s) : s[i] = u[i]
    PROVE  s = u
  OBVIOUS

\* The next message comes last.
LEMMA RingPut ==
    ASSUME NEW que \in [Index -> Entry], NEW r \in Index, NEW w \in Index, NEW m \in Entry,
           After(w) # r, NEW new \in [Index -> Entry],
           new[w] = m, \A i \in Index \ {w} : new[i] = que[i]
    PROVE  /\ Ring(new, r, After(w)) = Append(Ring(que, r, w), m)
           /\ Len(Ring(que, r, w)) < Mask
<1> DEFINE n == Num(r, w)
           s == Ring(que, r, w)
           u == Ring(new, r, After(w))
<1>1. After(w) \in Index
  BY AfterIs
<1>2. n \in Nat /\ n < Mask /\ Num(r, After(w)) = n + 1
  BY NumIs, MsgAssumption
<1>3. /\ s \in Seq(Entry) /\ Len(s) = n
      /\ \A i \in 1..n : s[i] = que[Slot(r, i)] /\ Slot(r, i) \in Index
  BY RingIs
<1>4. /\ u \in Seq(Entry) /\ Len(u) = n + 1
      /\ \A i \in 1..(n + 1) : u[i] = new[Slot(r, i)] /\ Slot(r, i) \in Index
  <2>1. /\ u \in Seq(Entry) /\ Len(u) = Num(r, After(w))
        /\ \A i \in 1..Num(r, After(w)) : u[i] = new[Slot(r, i)] /\ Slot(r, i) \in Index
    <3> HIDE DEF n
    <3> QED BY <1>1, RingIs
  <2> QED BY <1>2, <2>1
<1>5. \A i \in 1..n : Slot(r, i) # w
  BY BetweenEmpty, SlotsAre
<1>6. Slot(r, n + 1) = w
  <2>1. /\ r \in Int /\ w \in Int /\ Mask \in Nat /\ r >= 0 /\ r <= Mask /\ w >= 0 /\ w <= Mask
    BY MsgAssumption DEF Index
  <2>2. n + 1 \in 1..(Mask + 1)
    BY <1>2, <2>1
  <2>3. Slot(r, n + 1) = (IF r + (n + 1) - 1 <= Mask THEN r + (n + 1) - 1
                          ELSE r + (n + 1) - 1 - (Mask + 1))
    BY <2>2, SlotIs
  <2>4. n = (IF r <= w THEN w - r ELSE w - r + Mask + 1)
    BY NumIs
  <2> HIDE DEF n
  <2> QED BY <1>2, <2>1, <2>3, <2>4
<1> HIDE DEF n, s, u
<1>7. \A i \in 1..n : u[i] = s[i]
  BY <1>2, <1>3, <1>4, <1>5
<1>8. u[n + 1] = m
  BY <1>2, <1>4, <1>6
<1>9. u = Append(s, m)
  <2>1. /\ Append(s, m) \in Seq(Entry) /\ Len(Append(s, m)) = n + 1
        /\ \A i \in 1..(n + 1) : Append(s, m)[i] = IF i = n + 1 THEN m ELSE s[i]
    BY <1>2, <1>3
  <2>2. \A i \in 1..(n + 1) : u[i] = Append(s, m)[i]
    BY <1>2, <1>7, <1>8, <2>1
  <2> QED BY <1>4, <2>1, <2>2, SameSeq
<1> QED BY <1>2, <1>3, <1>9 DEF s, u, n

\* The oldest comes first.
LEMMA RingTake ==
    ASSUME NEW que \in [Index -> Entry], NEW r \in Index, NEW w \in Index, r # w
    PROVE  /\ Ring(que, After(r), w) = Tail(Ring(que, r, w))
           /\ Ring(que, r, w) # <<>>
<1> DEFINE n == Num(r, w)
           s == Ring(que, r, w)
           u == Ring(que, After(r), w)
<1>1. After(r) \in Index /\ After(r) = (IF r = Mask THEN 0 ELSE r + 1)
  BY AfterIs
<1>2. n \in Nat /\ n > 0 /\ n <= Mask /\ Num(After(r), w) = n - 1
  BY NumIs, MsgAssumption
<1>3. /\ s \in Seq(Entry) /\ Len(s) = n
      /\ \A i \in 1..n : s[i] = que[Slot(r, i)] /\ Slot(r, i) \in Index
  BY RingIs
<1>4. /\ u \in Seq(Entry) /\ Len(u) = n - 1
      /\ \A i \in 1..(n - 1) : u[i] = que[Slot(After(r), i)]
  BY <1>1, <1>2, RingIs
<1> HIDE DEF n, s, u
<1>5. \A i \in 1..(n - 1) : Slot(After(r), i) = Slot(r, i + 1)
  <2>1. r \in Int /\ Mask \in Nat /\ r >= 0 /\ r <= Mask
    BY MsgAssumption DEF Index
  <2> TAKE i \in 1..(n - 1)
  <2>2. i \in Int /\ i \in 1..(Mask + 1) /\ i + 1 \in 1..(Mask + 1)
    BY <1>2, <2>1
  <2>3. /\ Slot(After(r), i) = (IF After(r) + i - 1 <= Mask THEN After(r) + i - 1
                                ELSE After(r) + i - 1 - (Mask + 1))
        /\ Slot(r, i + 1) = (IF r + (i + 1) - 1 <= Mask THEN r + (i + 1) - 1
                             ELSE r + (i + 1) - 1 - (Mask + 1))
    BY <1>1, <2>2, SlotIs
  <2> QED BY <1>1, <2>1, <2>2, <2>3
<1>6. /\ s # <<>> /\ Tail(s) \in Seq(Entry) /\ Len(Tail(s)) = n - 1
      /\ \A i \in 1..(n - 1) : Tail(s)[i] = s[i + 1]
  BY <1>2, <1>3
<1>7. \A i \in 1..(n - 1) : u[i] = Tail(s)[i]
  BY <1>2, <1>3, <1>4, <1>5, <1>6
<1>8. u = Tail(s)
  BY <1>4, <1>6, <1>7, SameSeq
<1> QED BY <1>6, <1>8 DEF s, u

\* An empty ring.
LEMMA RingEmpty ==
    ASSUME NEW que \in [Index -> Entry], NEW w \in Index
    PROVE  Ring(que, w, w) = <<>>
<1>1. Num(w, w) = 0
  BY NumIs, MsgAssumption DEF Index
<1>2. Ring(que, w, w) \in Seq(Entry) /\ Len(Ring(que, w, w)) = 0
  BY <1>1, RingIs
<1> QED BY <1>2

\* The refinement mapping.
LEMMA ContentsAre ==
    ASSUME NEW q \in MsgQ
    PROVE  /\ MsgTypeOK => Contents(q) = Ring(mq_que[q], mq_read[q], mq_write[q])
           /\ MsgTypeOK' => Contents(q)' = Ring(mq_que'[q], mq_read'[q], mq_write'[q])
<1>1. ASSUME MsgTypeOK
      PROVE  Contents(q) = Ring(mq_que[q], mq_read[q], mq_write[q])
  <2>1. mq_read[q] \in Index /\ mq_write[q] \in Index
    BY <1>1 DEF MsgTypeOK
  <2>2. Cardinality(Between(mq_read[q], mq_write[q])) = Num(mq_read[q], mq_write[q])
    BY <2>1, SlotsAre
  <2>3. Pending(q) = Between(mq_read[q], mq_write[q])
    BY DEF Pending, Between
  <2> QED BY <2>2, <2>3 DEF Contents, Ring, Slot
<1>2. ASSUME MsgTypeOK'
      PROVE  Contents(q)' = Ring(mq_que'[q], mq_read'[q], mq_write'[q])
  <2>1. mq_read'[q] \in Index /\ mq_write'[q] \in Index
    BY <1>2 DEF MsgTypeOK
  <2>2. Cardinality(Between(mq_read'[q], mq_write'[q])) = Num(mq_read'[q], mq_write'[q])
    BY <2>1, SlotsAre
  <2>3. Pending(q)' = Between(mq_read'[q], mq_write'[q])
    BY DEF Pending, Between
  <2> QED BY <2>2, <2>3 DEF Contents, Ring, Slot
<1> QED BY <1>1, <1>2

-----------------------------------------------------------------------------
(* The steps of the abstract queue.                                        *)

AllContents == [q \in MsgQ |-> Contents(q)]

\* Only the abstract queue of q changes.
LEMMA OneQueueMoves ==
    ASSUME MInv, MInv', NEW q \in MsgQ, NEW new, Contents(q)' = new,
           \A x \in MsgQ \ {q} : /\ mq_que'[x] = mq_que[x]
                                 /\ mq_read'[x] = mq_read[x] /\ mq_write'[x] = mq_write[x]
    PROVE  AllContents' = [AllContents EXCEPT ![q] = new]
<1>1. \A x \in MsgQ \ {q} : Contents(x)' = Contents(x)
  BY ContentsAre DEF MInv
<1> QED BY <1>1 DEF AllContents

\* A message is posted.
LEMMA PutRefines ==
    ASSUME MInv, MInv', NEW q \in MsgQ, NEW m \in Message, ~NutMsgQFull(q), Put(q, m)
    PROVE  MQ!Post(q, m)
<1>1. /\ mq_que' = [mq_que EXCEPT ![q][mq_write[q]] = m]
      /\ mq_write' = [mq_write EXCEPT ![q] = After(mq_write[q])]
      /\ mq_read' = mq_read /\ After(mq_write[q]) # mq_read[q]
  BY DEF Put, NutMsgQFull
<1>2. /\ mq_que'[q] = [mq_que[q] EXCEPT ![mq_write[q]] = m]
      /\ mq_write'[q] = After(mq_write[q]) /\ mq_read'[q] = mq_read[q]
      /\ \A x \in MsgQ \ {q} : /\ mq_que'[x] = mq_que[x]
                               /\ mq_read'[x] = mq_read[x] /\ mq_write'[x] = mq_write[x]
      /\ mq_que[q] \in [Index -> Entry] /\ mq_read[q] \in Index /\ mq_write[q] \in Index
      /\ m \in Entry
  BY <1>1 DEF MInv, MsgTypeOK, Entry
<1>3. /\ Contents(q)' = Append(Contents(q), m)
      /\ Len(Contents(q)) < Mask
  <2>1. /\ Contents(q) = Ring(mq_que[q], mq_read[q], mq_write[q])
        /\ Contents(q)' = Ring(mq_que'[q], mq_read'[q], mq_write'[q])
    BY ContentsAre DEF MInv
  <2>2. Contents(q)' = Ring(mq_que'[q], mq_read[q], After(mq_write[q]))
    BY <1>2, <2>1
  <2>3. After(mq_write[q]) # mq_read[q]
    BY <1>1
  <2>4. /\ mq_que'[q] \in [Index -> Entry] /\ mq_que'[q][mq_write[q]] = m
        /\ \A i \in Index \ {mq_write[q]} : mq_que'[q][i] = mq_que[q][i]
    BY <1>2
  <2> DEFINE que == mq_que[q]
             new == mq_que'[q]
             r == mq_read[q]
             w == mq_write[q]
  <2>5. /\ que \in [Index -> Entry] /\ new \in [Index -> Entry] /\ r \in Index /\ w \in Index
        /\ m \in Entry /\ After(w) # r /\ new[w] = m
        /\ \A i \in Index \ {w} : new[i] = que[i]
    BY <1>2, <2>3, <2>4
  <2>6. Contents(q) = Ring(que, r, w) /\ Contents(q)' = Ring(new, r, After(w))
    BY <2>1, <2>2
  <2> HIDE DEF que, new, r, w
  <2>7. Ring(new, r, After(w)) = Append(Ring(que, r, w), m) /\ Len(Ring(que, r, w)) < Mask
    BY <2>5, RingPut
  <2> QED BY <2>6, <2>7
<1>4. AllContents' = [AllContents EXCEPT ![q] = Append(Contents(q), m)]
  BY <1>2, <1>3, OneQueueMoves
<1>5. AllContents[q] = Contents(q)
  BY DEF AllContents
<1> QED BY <1>3, <1>4, <1>5 DEF MQ!Post, AllContents

\* The oldest message is taken.
LEMMA TakeRefines ==
    ASSUME IInv, MInv, MInv', NEW t \in Thread, NEW q \in MsgQ, GetTake(t, q)
    PROVE  MQ!Get(q)
<1>1. /\ mq_read' = [mq_read EXCEPT ![q] = After(mq_read[q])]
      /\ mq_que' = mq_que /\ mq_write' = mq_write
      /\ running = t /\ step[t] = "get" /\ obj[t] = q /\ t \notin timedOut
  BY DEF GetTake, At
<1>2. t \in ToSet(runQueue)
  BY <1>1, SchedAssumption DEF IInv, Queues, Placed
<1>3. mq_read[q] # mq_write[q]
  BY <1>1, <1>2 DEF MInv, EventsCount, Woken
<1>4. /\ mq_read'[q] = After(mq_read[q])
      /\ \A x \in MsgQ \ {q} : mq_read'[x] = mq_read[x]
      /\ mq_que[q] \in [Index -> Entry] /\ mq_read[q] \in Index /\ mq_write[q] \in Index
  BY <1>1 DEF MInv, MsgTypeOK, Entry
<1>5. /\ Contents(q)' = Tail(Contents(q))
      /\ Contents(q) # <<>>
  BY <1>1, <1>3, <1>4, ContentsAre, RingTake DEF MInv
<1>6. AllContents' = [AllContents EXCEPT ![q] = Tail(Contents(q))]
  BY <1>1, <1>4, <1>5, OneQueueMoves
<1>7. AllContents[q] = Contents(q)
  BY DEF AllContents
<1> QED BY <1>5, <1>6, <1>7 DEF MQ!Get, AllContents

\* A queue is flushed.
LEMMA FlushRefines ==
    ASSUME MInv, MInv', NEW t \in Thread, NEW q \in MsgQ, NutMsgQFlush(t, q)
    PROVE  MQ!Flush(q)
<1>1. /\ mq_read' = [mq_read EXCEPT ![q] = mq_write[q]]
      /\ mq_que' = mq_que /\ mq_write' = mq_write
  BY DEF NutMsgQFlush
<1>2. /\ mq_read'[q] = mq_write[q]
      /\ \A x \in MsgQ \ {q} : mq_read'[x] = mq_read[x]
      /\ mq_que[q] \in [Index -> Entry] /\ mq_write[q] \in Index
  BY <1>1 DEF MInv, MsgTypeOK, Entry
<1>3. Contents(q)' = <<>>
  BY <1>1, <1>2, ContentsAre, RingEmpty DEF MInv
<1>4. AllContents' = [AllContents EXCEPT ![q] = <<>>]
  BY <1>1, <1>2, <1>3, OneQueueMoves
<1> QED BY <1>4 DEF MQ!Flush, AllContents

\* A timer is stopped.
LEMMA StopRefines ==
    ASSUME MInv, MInv', NEW t \in Thread, NEW q \in MsgQ, NEW tm \in MsgTimer,
           NutMsgQStopTimer(t, q, tm)
    PROVE  \E m \in Message : MQ!Blank(q, m)
<1> DEFINE m == [id |-> "MSG_TIMER", data |-> tm]
           r == mq_read[q]
           w == mq_write[q]
           que == mq_que[q]
           new == mq_que'[q]
           s == Contents(q)
           u == Contents(q)'
<1>1. /\ mq_que' = [mq_que EXCEPT ![q] = [i \in Index |->
                       IF i \in Pending(q) /\ mq_que[q][i] = m THEN Null ELSE mq_que[q][i]]]
      /\ mq_read' = mq_read /\ mq_write' = mq_write
  BY DEF NutMsgQStopTimer, Searched
<1>2. Pending(q) = Between(r, w)
  BY DEF Pending, Between
<1>3. /\ \A i \in Index : new[i] = IF i \in Between(r, w) /\ que[i] = m THEN Null ELSE que[i]
      /\ \A x \in MsgQ \ {q} : mq_que'[x] = mq_que[x]
      /\ que \in [Index -> Entry] /\ new \in [Index -> Entry] /\ r \in Index /\ w \in Index
  BY <1>1, <1>2 DEF MInv, MsgTypeOK, Entry
<1>4. m \in Message
  BY DEF Message
<1>5. s = Ring(que, r, w) /\ u = Ring(new, r, w)
  BY <1>1, ContentsAre DEF MInv
<1> HIDE DEF m, r, w, que, new, s, u
<1>6. /\ s \in Seq(Entry) /\ u \in Seq(Entry) /\ Len(u) = Len(s)
      /\ \A i \in 1..Len(s) : u[i] = IF s[i] = m THEN Null ELSE s[i]
  <2>1. /\ s \in Seq(Entry) /\ Len(s) = Num(r, w)
        /\ \A i \in 1..Num(r, w) : s[i] = que[Slot(r, i)]
    BY <1>3, <1>5, RingIs
  <2>2. /\ u \in Seq(Entry) /\ Len(u) = Num(r, w)
        /\ \A i \in 1..Num(r, w) : u[i] = new[Slot(r, i)]
    BY <1>3, <1>5, RingIs
  <2>3. \A i \in 1..Num(r, w) : Slot(r, i) \in Between(r, w) /\ Slot(r, i) \in Index
    BY <1>3, SlotsAre DEF Between
  <2> QED BY <1>3, <2>1, <2>2, <2>3
<1>7. u = [i \in DOMAIN s |-> IF s[i] = m THEN Null ELSE s[i]]
  BY <1>6
<1>8. AllContents' = [AllContents EXCEPT ![q] = u]
  BY <1>1, <1>3, OneQueueMoves DEF u
<1>9. AllContents[q] = s
  BY DEF AllContents, s
<1>10. MQ!Blank(q, m)
  BY <1>7, <1>8, <1>9 DEF MQ!Blank, AllContents
<1> QED BY <1>4, <1>10

\* The other steps leave the rings alone.
LEMMA OthersStutter ==
    ASSUME mq_que' = mq_que, mq_read' = mq_read, mq_write' = mq_write
    PROVE  AllContents' = AllContents
  BY DEF AllContents, Contents, Pending

\* Every step of the composition is a step of the abstract queues or none.
LEMMA ServicesStepRefines ==
    ASSUME IInv, MInv, MInv', [ServicesNext]_<<schedVars, progVars, syncVars, msgVars>>
    PROVE  MQ!Next \/ AllContents' = AllContents
<1>1. CASE UNCHANGED msgVars
  BY <1>1, OthersStutter DEF msgVars
<1>2. CASE MsgStep
  <2>1. ASSUME NEW t \in Thread, MsgCall(t) PROVE MQ!Next \/ AllContents' = AllContents
    <3> PICK q \in MsgQ :
        \/ \E d \in Data : NutMsgQPost(t, q, d) \/ NutMsgQSend(t, q, d)
        \/ \E tm \in MsgTimer :
              \/ \E once \in BOOLEAN : NutMsgQStartTimer(t, q, tm, once)
              \/ NutMsgQStopTimer(t, q, tm)
        \/ \E withTimer \in BOOLEAN : NutMsgQGetMessage(t, q, withTimer)
        \/ GetTake(t, q) \/ NutMsgQFlush(t, q)
      BY <2>1 DEF MsgCall
    <3>1. ASSUME NEW d \in Data, NutMsgQPost(t, q, d) \/ NutMsgQSend(t, q, d)
          PROVE  MQ!Next
      <4> DEFINE m == [id |-> "user", data |-> d]
      <4>1. m \in Message /\ ~NutMsgQFull(q) /\ Put(q, m)
        BY <3>1 DEF NutMsgQPost, NutMsgQSend, Message
      <4> HIDE DEF m
      <4> QED BY <4>1, PutRefines DEF MQ!Next
    <3>2. ASSUME NEW tm \in MsgTimer, NutMsgQStopTimer(t, q, tm) PROVE MQ!Next
      BY <3>2, StopRefines DEF MQ!Next
    <3>3. CASE GetTake(t, q)
      BY <3>3, TakeRefines DEF MQ!Next
    <3>4. CASE NutMsgQFlush(t, q)
      BY <3>4, FlushRefines DEF MQ!Next
    <3>5. ASSUME NEW tm \in MsgTimer, NEW once \in BOOLEAN, NutMsgQStartTimer(t, q, tm, once)
          PROVE  AllContents' = AllContents
      BY <3>5, OthersStutter DEF NutMsgQStartTimer
    <3>6. ASSUME NEW w \in BOOLEAN, NutMsgQGetMessage(t, q, w)
          PROVE  AllContents' = AllContents
      BY <3>6, OthersStutter DEF NutMsgQGetMessage, msgVars
    <3> QED BY <3>1, <3>2, <3>3, <3>4, <3>5, <3>6
  <2>2. ASSUME NEW t \in Thread, GetTimeout(t) PROVE AllContents' = AllContents
    BY <2>2, OthersStutter DEF GetTimeout, msgVars
  <2>3. ASSUME NEW q \in MsgQ, NEW tm \in MsgTimer, NutMsgQTimerCb(q, tm) PROVE MQ!Next
    <3> DEFINE m == [id |-> "MSG_TIMER", data |-> tm]
    <3>1. m \in Message /\ ~NutMsgQFull(q) /\ Put(q, m)
      BY <2>3 DEF NutMsgQTimerCb, Message
    <3> HIDE DEF m
    <3> QED BY <3>1, PutRefines DEF MQ!Next
  <2> QED BY <1>2, <2>1, <2>2, <2>3 DEF MsgStep
<1> QED BY <1>1, <1>2 DEF ServicesNext

\* A queue of msg.c is a FIFO of bounded capacity: messages are taken in the order of
\* their posts, each of them once, and a post to a full queue leaves no trace.
THEOREM QueuesAreFifos == ServicesSpec => ImplementsMessageQueue
<1>1. ServicesInit => MQ!Init
  <2> SUFFICES ASSUME ServicesInit PROVE MQ!Init
    OBVIOUS
  <2>1. MsgTypeOK
    BY InitMInv DEF MInv
  <2>2. \A q \in MsgQ : mq_read[q] = 0 /\ mq_write[q] = 0
    BY DEF ServicesInit, MsgInit
  <2>3. \A q \in MsgQ : Contents(q) = <<>>
    <3> TAKE q \in MsgQ
    <3>1. mq_que[q] \in [Index -> Entry] /\ 0 \in Index
      BY <2>1, MsgAssumption DEF MsgTypeOK, Entry, Index
    <3> QED BY <2>1, <2>2, <3>1, ContentsAre, RingEmpty
  <2> QED BY <2>3 DEF MQ!Init
<1>2. IInv /\ MInv /\ [ServicesNext]_<<schedVars, progVars, syncVars, msgVars>>
        => [MQ!Next]_AllContents
  <2> SUFFICES ASSUME IInv, MInv, [ServicesNext]_<<schedVars, progVars, syncVars, msgVars>>
               PROVE  MQ!Next \/ AllContents' = AllContents
    OBVIOUS
  <2> QED BY ServicesStepMInv, ServicesStepRefines
<1>3. [MQ!Next]_AllContents => [MQ!Next]_[q \in MsgQ |-> Contents(q)]
  BY DEF AllContents
<1> QED BY <1>1, <1>2, <1>3, MsgInvariant, PTL DEF ServicesSpec, ImplementsMessageQueue, MQ!Spec

=============================================================================
