------------------------------ MODULE PriQueue ------------------------------
(***************************************************************************)
(* The priority ordered thread queue of os/thread.c.  The C code links the *)
(* NUTTHREADINFO structures through td_qnxt; here a queue is the sequence  *)
(* of its threads, so td_qnxt of a thread is its successor.  The pending   *)
(* event counter td_qpec travels with the threads and is a function.       *)
(***************************************************************************)
EXTENDS Integers, Sequences, SequencesExt

\* The position of the thread the walk of NutThreadAddPriQueue stops at: the
\* first one with a priority number above td's, 0 if it runs off the end.
WalkStop(s, td, prio) == SelectInSeq(s, LAMBDA u : prio[u] > prio[td])

\* NutThreadAddPriQueue, the list: td goes behind every thread of its own or
\* of a more urgent (numerically lower) priority.
Enqueued(s, td, prio) ==
    LET k == WalkStop(s, td, prio)
    IN  IF k = 0 THEN Append(s, td) ELSE InsertAt(s, k, td)

\* Seeded fault: td takes over nothing from its successor.
PendingAfterAddOwn(qpec, s, td, prio, isSignaled) ==
    [qpec EXCEPT ![td] = IF isSignaled THEN 1 ELSE 0]

\* NutThreadAddPriQueue, the counters.  A signaled root becomes one pending
\* event of td; otherwise td takes over what is pending on its successor.
PendingAfterAdd(qpec, s, td, prio, isSignaled) ==
    LET k == WalkStop(s, td, prio)
    IN  IF isSignaled THEN [qpec EXCEPT ![td] = 1]
        ELSE IF k = 0 THEN [qpec EXCEPT ![td] = 0]
        ELSE [qpec EXCEPT ![td] = qpec[s[k]], ![s[k]] = 0]

\* The position of td in s, 0 if it is not there.
IndexOf(s, td) == SelectInSeq(s, LAMBDA u : u = td)

\* NutThreadRemoveQueue, the list: td is unlinked wherever it stands; a queue
\* that does not hold td stays as it is.
Dequeued(s, td) == RemoveFirst(s, td)

\* Seeded fault: nobody inherits what was pending on td.
PendingAfterLeaveLost(qpec, s, td) == [qpec EXCEPT ![td] = 0]

\* The counters when td leaves the event queue s (NutEventPostAsync and
\* NutEventTimeout): its successor inherits what was pending on td.
PendingAfterLeave(qpec, s, td) ==
    LET k == IndexOf(s, td)
    IN  IF k # 0 /\ k < Len(s) /\ qpec[td] > 0
        THEN [qpec EXCEPT ![s[k + 1]] = qpec[td], ![td] = 0]
        ELSE [qpec EXCEPT ![td] = 0]

\* When td leaves as the last waiter with events pending, the root of the
\* queue becomes SIGNALED.
SignalsOnLeave(qpec, s, td) == qpec[td] > 0 /\ s[Len(s)] = td

\* No waiter stands in front of a more urgent one.
PriorityOrdered(s, prio) ==
    \A i, j \in 1..Len(s) : i < j => prio[s[i]] <= prio[s[j]]

=============================================================================
