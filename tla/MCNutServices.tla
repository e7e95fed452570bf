--------------------------- MODULE MCNutServices ----------------------------
(***************************************************************************)
(* Small instances of the services for TLC.                                *)
(***************************************************************************)
EXTENDS NutServices, TLC

CONSTANTS a, b, c, m, e, s, q, stray, d1, t1, t2

\* Neither the writers nor the blocks of the message timers differ.
ServiceSymmetry == Permutations({b, c}) \cup Permutations(MsgTimer)

MCEventOf == [x \in Condition |-> e]
MCReader  == [x \in MsgQ |-> a]

\* The objects of the two modules only meet in the scheduler.  In this instance
\* threads use one kind or the other, not both, which leaves room for three of them.
OneKindNext ==
    \/ SchedStep /\ UNCHANGED <<syncVars, msgVars>>
    \/ MsgInit /\ \E t \in Thread : SyncCall(t) /\ UNCHANGED msgVars
    \/ SyncInit /\ MsgStep /\ UNCHANGED syncVars

OneKindSpec ==
    ServicesInit /\ [][OneKindNext]_<<schedVars, progVars, syncVars, msgVars>>

-----------------------------------------------------------------------------
(* What the sources say and the code does not keep.                        *)

\* condition.c:199 says of a broadcast: "If threads are waiting for cond, all of
\* them are woken up."  A thread that has given up the mutex in a wait is woken, or finds
\* the event when it comes to wait, if the caller holds the mutex.
BroadcastReachesAll ==
    [][\A t, u \in Thread, x \in Condition :
          /\ At(t, "broadcast") /\ obj[t] = x /\ held[x][t] > 0 /\ step'[t] = "user"
          /\ step[u] = "timedwait" /\ obj[u] = x
          => EventOf[x] \in signaled']_vars

=============================================================================
