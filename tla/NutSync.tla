------------------------------ MODULE NutSync -------------------------------
(***************************************************************************)
(* Mutexes, semaphores and condition variables: os/mutex.c,                *)
(* os/semaphore.c and os/condition.c on the thread and event functions of  *)
(* NutSched.  A condition is a mutex with an event queue of its own.       *)
(*                                                                         *)
(* The callers obey two rules the code cannot check: only a thread that    *)
(* holds a mutex unlocks it, and NutConditionWait and                      *)
(* NutConditionTimedWait are called with the mutex held.  A call that the  *)
(* code rejects changes nothing and is no step.                            *)
(***************************************************************************)
EXTENDS NutSched

CONSTANTS
    Mutex,            \* addresses of MUTEX structures, roots of their queues
    Condition,        \* the mutexes that are part of a CONDITION
    EventOf,          \* the root of its event queue
    Stray,            \* whatever root the value of cond->event points to
    Sem,              \* addresses of SEM structures, roots of their queues
    InitialValue,     \* of a semaphore
    MaxNest,          \* bound on the count of a mutex
    MaxValue          \* bound on the value of a semaphore

ASSUME SyncAssumption ==
    /\ Mutex \cup Sem \cup {Stray} \subseteq Root
    /\ Mutex \cap Sem = {} /\ Stray \notin Mutex \cup Sem
    /\ Condition \subseteq Mutex
    /\ EventOf \in [Condition -> Root \ (Mutex \cup Sem \cup {Stray})]
    /\ InitialValue \in Nat /\ MaxNest \in Nat /\ MaxValue \in Nat

VARIABLES
    owner,            \* mutex->thread, kept when the mutex is released
    count,            \* mutex->count
    value,            \* sem->value
    held              \* what the callers know: successful locks not yet unlocked

syncVars == <<owner, count, value, held>>

SyncInit ==
    /\ owner = [m \in Mutex |-> NIL]
    /\ count = [m \in Mutex |-> 0]
    /\ value = [s \in Sem |-> InitialValue]
    /\ held = [m \in Mutex |-> [t \in Thread |-> 0]]

-----------------------------------------------------------------------------
(* Mutexes.                                                                *)

\* The end of NutMutexLock.
Acquire(t, m) ==
    /\ owner' = [owner EXCEPT ![m] = t]
    /\ count' = [count EXCEPT ![m] = @ + 1]
    /\ held' = [held EXCEPT ![m][t] = @ + 1]
    /\ GoTo(t, "user", NIL)
    /\ UNCHANGED <<schedVars, value>>

\* One round of the loop in NutMutexLock that finds the mutex taken.
WaitForMutex(t, m) ==
    /\ NutEventWaitNext(t, m)
    /\ GoTo(t, "lock", m)
    /\ UNCHANGED syncVars

\* NutMutexLock from its beginning.
LockEntry(t, m) ==
    IF owner[m] # t /\ count[m] # 0 THEN WaitForMutex(t, m) ELSE Acquire(t, m)

NutMutexLock(t, m) ==
    /\ At(t, "user")
    /\ count[m] < MaxNest
    /\ LockEntry(t, m)

\* Seeded fault: the waiter takes it that the post has given it the mutex.
LockRetryOnce(t, m) == At(t, "lock") /\ obj[t] = m /\ Acquire(t, m)

\* Back from NutEventWaitNext: someone else may have locked the mutex meanwhile.
LockRetry(t, m) ==
    /\ At(t, "lock") /\ obj[t] = m
    /\ IF count[m] # 0 THEN WaitForMutex(t, m) ELSE Acquire(t, m)

NutMutexTrylock(t, m) ==
    /\ At(t, "user")
    /\ count[m] < MaxNest
    /\ count[m] = 0 \/ owner[m] = t
    /\ LockEntry(t, m)

\* Seeded fault: the event is posted when one more unlock is missing.
UnlockPostsEarly(t, m) ==
    /\ owner[m] = t
    /\ count' = [count EXCEPT ![m] = @ - 1]
    /\ held' = [held EXCEPT ![m][t] = @ - 1]
    /\ IF count[m] = 2 THEN NutEventPost(t, m) ELSE UNCHANGED schedVars
    /\ UNCHANGED <<owner, value>>

\* NutMutexUnlock by the thread that mutex->thread names.
Unlock(t, m) ==
    /\ owner[m] = t
    /\ count' = [count EXCEPT ![m] = @ - 1]
    /\ held' = [held EXCEPT ![m][t] = @ - 1]
    /\ IF count[m] = 1 THEN NutEventPost(t, m) ELSE UNCHANGED schedVars
    /\ UNCHANGED <<owner, value>>

NutMutexUnlock(t, m) ==
    At(t, "user") /\ held[m][t] > 0 /\ Unlock(t, m) /\ UNCHANGED progVars

-----------------------------------------------------------------------------
(* Condition variables.                                                    *)

\* Both waits begin with NutMutexUnlock, which may release the CPU before the
\* thread reaches NutEventWait.
WaitCall(t, c, place) ==
    /\ At(t, "user")
    /\ held[c][t] > 0
    /\ Unlock(t, c)
    /\ GoTo(t, place, c)

NutConditionWait(t, c)      == WaitCall(t, c, "wait")
NutConditionTimedWait(t, c) == WaitCall(t, c, "timedwait")

\* NutConditionTimedWait waits on the condition's queue, for a time that has not
\* come yet.
TimedWaitEvent(t) ==
    /\ At(t, "timedwait")
    /\ NutEventWait(t, EventOf[obj[t]], TRUE)
    /\ GoTo(t, "relock", obj[t])
    /\ UNCHANGED syncVars

\* NutConditionWait passes the value of cond->event where an address is meant.
\* Whatever that memory holds is taken for a root: one that looks signaled, or
\* one nobody posts to.
WaitEvent(t) ==
    /\ At(t, "wait")
    /\ \/ NutEventWait(t, Stray, FALSE)
       \/ NutThreadYield(t)
    /\ GoTo(t, "relock", obj[t])
    /\ UNCHANGED syncVars

\* After the wait both call NutMutexLock, whatever NutEventWait returned.
Relock(t) == At(t, "relock") /\ LockEntry(t, obj[t])

NutConditionSignal(t, c) ==
    /\ At(t, "user")
    /\ NutEventPost(t, EventOf[c])
    /\ UNCHANGED <<progVars, syncVars>>

NutConditionBroadcast(t, c) ==
    /\ At(t, "user")
    /\ GoTo(t, "broadcast", c)
    /\ UNCHANGED <<schedVars, syncVars>>

\* The caller goes through the waiters without a release of the CPU in between.
BroadcastRound(t) ==
    /\ At(t, "broadcast")
    /\ NutEventBroadcast(t, EventOf[obj[t]])
    /\ IF waitq[EventOf[obj[t]]] = <<>> THEN GoTo(t, "user", NIL) ELSE UNCHANGED progVars
    /\ UNCHANGED syncVars

-----------------------------------------------------------------------------
(* Semaphores.                                                             *)

NutSemWait(t, s) ==
    /\ At(t, "user")
    /\ value' = [value EXCEPT ![s] = @ - 1]
    /\ IF value[s] - 1 < 0 THEN NutEventWaitNext(t, s) ELSE UNCHANGED schedVars
    /\ UNCHANGED <<progVars, owner, count, held>>

NutSemTryWait(t, s) == value[s] > 0 /\ NutSemWait(t, s)

\* Seeded fault: the value 0 is taken for nobody waits.
SemPostOffByOne(t, s) ==
    /\ At(t, "user")
    /\ value[s] < MaxValue
    /\ value' = [value EXCEPT ![s] = @ + 1]
    /\ IF value[s] + 1 < 0 THEN NutEventPost(t, s) ELSE UNCHANGED schedVars
    /\ UNCHANGED <<progVars, owner, count, held>>

NutSemPost(t, s) ==
    /\ At(t, "user")
    /\ value[s] < MaxValue
    /\ value' = [value EXCEPT ![s] = @ + 1]
    /\ IF value[s] + 1 <= 0 THEN NutEventPost(t, s) ELSE UNCHANGED schedVars
    /\ UNCHANGED <<progVars, owner, count, held>>

-----------------------------------------------------------------------------

SyncCall(t) ==
    \/ \E m \in Mutex : NutMutexLock(t, m) \/ NutMutexTrylock(t, m) \/ NutMutexUnlock(t, m)
    \/ \E m \in Mutex : LockRetry(t, m)
    \/ \E c \in Condition : NutConditionWait(t, c) \/ NutConditionTimedWait(t, c)
    \/ WaitEvent(t) \/ TimedWaitEvent(t) \/ Relock(t)
    \/ \E c \in Condition : NutConditionSignal(t, c) \/ NutConditionBroadcast(t, c)
    \/ BroadcastRound(t)
    \/ \E s \in Sem : NutSemWait(t, s) \/ NutSemTryWait(t, s) \/ NutSemPost(t, s)

\* The synchronisation objects by themselves.
Init == SchedInit /\ SyncInit

Next ==
    \/ SchedStep /\ UNCHANGED syncVars
    \/ \E t \in Thread : SyncCall(t)

vars == <<schedVars, progVars, syncVars>>

Spec == Init /\ [][Next]_vars

-----------------------------------------------------------------------------
(* Properties.                                                             *)

SyncTypeOK ==
    /\ SchedTypeOK
    /\ owner \in [Mutex -> Thread \cup {NIL}]
    /\ count \in [Mutex -> Nat]
    /\ value \in [Sem -> Int]
    /\ held \in [Mutex -> [Thread -> Nat]]

\* Mutual exclusion with nesting (mutex.c): what the callers have locked and not
\* unlocked is what the structure counts, and it is all one thread's.
\* A thread back from a wait or from a condition is included.
MutexExclusive ==
    \A m \in Mutex, t \in Thread :
        /\ held[m][t] > 0 => owner[m] = t /\ count[m] = held[m][t]
        /\ count[m] > 0 => \E u \in Thread : held[m][u] = count[m]

\* A released mutex is not forgotten (mutex.c:99, 134): while threads wait for a
\* mutex that is free, one that was woken is on its way to take it.
MutexHandedOn ==
    \A m \in Mutex : count[m] = 0 /\ waitq[m] # <<>> =>
        \E t \in ToSet(runQueue) : step[t] = "lock" /\ obj[t] = m

\* The value of a semaphore tells who waits (semaphore.c:97-115): below zero it
\* is the number of waiting threads, otherwise nobody waits, and no post is left
\* behind as a signaled root for a later NutSemWait.
SemWaiters ==
    \A s \in Sem :
        /\ Len(waitq[s]) = IF value[s] < 0 THEN -value[s] ELSE 0
        /\ s \notin signaled

=============================================================================
