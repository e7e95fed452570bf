---------------------------- MODULE MCNutKernel -----------------------------
(***************************************************************************)
(* Small instances of the kernel for TLC, and the specifications some of   *)
(* the runs use.                                                           *)
(***************************************************************************)
EXTENDS NutKernelRefinement, TLC

CONSTANTS a, b, c, q1, q2, t1, t2

\* Heap blocks are interchangeable.
TimerSymmetry == Permutations(Timer)

-----------------------------------------------------------------------------
(* Fairness: kernel code runs on, ticks keep coming, and the idle thread   *)
(* loops.  Nothing makes an application thread release the CPU, so the     *)
(* liveness properties assume that the CPU is released again and again.    *)

FairSpec == Spec /\ WF_vars(KernelStep) /\ WF_vars(IrqTick) /\ WF_vars(IdleLoop)

CpuReleased == []<>(pc = "resume")

\* Events an interrupt has posted on a waiting thread are delivered or passed on
\* to another waiter (NutThreadResume).
PendingServed ==
    CpuReleased => \A t \in Thread : (td_qpec[t] > 0) ~> (td_qpec[t] = 0)

\* A thread that waits or sleeps with a timer becomes ready, whatever happens to
\* the queue and to the other timers (NutEventTimeout, NutThreadWake).
TimedSleepEnds ==
    CpuReleased => \A t \in Thread :
        (td_state[t] = "SLEEP" /\ td_timer[t] \in Timer) ~> (td_state[t] # "SLEEP")

=============================================================================
