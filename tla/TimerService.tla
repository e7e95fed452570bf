---------------------------- MODULE TimerService ----------------------------
(***************************************************************************)
(* What the system timers of os/timer.c promise: a timer counts the ticks  *)
(* of its interval and its callback runs when they are over, never before, *)
(* the longest overdue timer first; a periodic timer keeps its phase       *)
(* however late a callback is; a stopped timer runs no callback any more.  *)
(* A timer that a callback starts counts the ticks, too, that the round of *)
(* callbacks has still to deal with: it is short by this backlog.          *)
(***************************************************************************)
EXTENDS Integers

CONSTANT Timer

VARIABLES
    mode,      \* "free", "armed", or "done": no callback any more
    left,      \* ticks until an armed timer is due; overdue below 0
    period,    \* 0 for a one-shot timer
    backlog    \* ticks a round of callbacks has still to deal with

vars == <<mode, left, period, backlog>>

Init ==
    /\ mode = [tn \in Timer |-> "free"]
    /\ left = [tn \in Timer |-> 0]
    /\ period = [tn \in Timer |-> 0]
    /\ backlog = 0

Armed(tn) == mode[tn] = "armed"

Tick ==
    /\ left' = [tn \in Timer |-> IF Armed(tn) THEN left[tn] - 1 ELSE left[tn]]
    /\ UNCHANGED <<mode, period, backlog>>

\* A round of callbacks begins or ends.
Round ==
    /\ backlog' \in Nat
    /\ UNCHANGED <<mode, left, period>>

Start(tn) ==
    /\ mode[tn] = "free"
    /\ mode' = [mode EXCEPT ![tn] = "armed"]
    /\ left'[tn] + backlog \in Nat /\ period'[tn] \in {0, left'[tn] + backlog}
    /\ left' = [left EXCEPT ![tn] = left'[tn]]
    /\ period' = [period EXCEPT ![tn] = period'[tn]]
    /\ UNCHANGED backlog

\* The callback of tn runs.
Fire(tn) ==
    /\ Armed(tn) /\ left[tn] <= 0
    /\ \A u \in Timer : Armed(u) => left[tn] <= left[u]
    /\ IF period[tn] = 0
       THEN /\ mode' = [mode EXCEPT ![tn] = "done"]
            /\ left' = [left EXCEPT ![tn] = 0]
       ELSE /\ left' = [left EXCEPT ![tn] = @ + period[tn]]
            /\ UNCHANGED mode
    /\ backlog' \in 0..backlog
    /\ UNCHANGED period

Stop(tn) ==
    /\ Armed(tn)
    /\ mode' = [mode EXCEPT ![tn] = "done"]
    /\ left' = [left EXCEPT ![tn] = 0]
    /\ period' = [period EXCEPT ![tn] = 0]
    /\ UNCHANGED backlog

\* The memory of a timer that is done goes back to the heap.
Release(tn) ==
    /\ mode[tn] = "done"
    /\ mode' = [mode EXCEPT ![tn] = "free"]
    /\ UNCHANGED <<left, period, backlog>>

Next == Tick \/ Round \/ \E tn \in Timer : Start(tn) \/ Fire(tn) \/ Stop(tn) \/ Release(tn)

Spec == Init /\ [][Next]_vars

=============================================================================
