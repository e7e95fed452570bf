------------------------------ MODULE NutTimer ------------------------------
(***************************************************************************)
(* The system timers of os/timer.c: the delta list, the free running tick  *)
(* counter that the timer interrupt increments, the loop that processes    *)
(* elapsed timers, and the callbacks it calls in the middle of that loop.  *)
(***************************************************************************)
EXTENDS Integers, Sequences, SequencesExt

CONSTANTS
    NoTimer,      \* NULL
    Timer,        \* heap blocks that can hold a NUTTIMERINFO
    Interval,     \* timer intervals in ticks
    TickWord,     \* 2^32, the modulus of uint32_t
    MaxLag        \* bound on ticks NutTimerProcessElapsed has not dealt with

ASSUME TimerAssumption ==
    /\ NoTimer \notin Timer
    /\ Interval \subseteq Nat /\ MaxLag \in Nat /\ TickWord \in Nat
    /\ \A i \in Interval : i + MaxLag < TickWord

VARIABLES
    nut_ticks,
    nut_ticks_resume,
    nutTimerList,
    tn_ticks,         \* interval of a periodic timer, 0 for one-shot
    tn_ticks_left,    \* ticks after the timer in front
    tn_callback,      \* TRUE: has a callback
    ticks_new,        \* local variables of NutTimerProcessElapsed: ticks not
    cur,              \* yet used up, and tn, the timer that elapsed
    pc                \* "idle", or where NutTimerProcessElapsed is

timerVars == <<nut_ticks, nut_ticks_resume, nutTimerList, tn_ticks, tn_ticks_left,
          tn_callback, ticks_new, cur, pc>>

Since == (nut_ticks - nut_ticks_resume) % TickWord

TimerInit ==
    /\ nut_ticks \in 0..(TickWord - 1)
    /\ nut_ticks_resume = nut_ticks
    /\ nutTimerList = <<>>
    /\ tn_ticks = [tn \in Timer |-> 0]
    /\ tn_ticks_left = [tn \in Timer |-> 0]
    /\ tn_callback = [tn \in Timer |-> FALSE]
    /\ ticks_new = 0
    /\ cur = NoTimer
    /\ pc = "idle"

\* NutTimerIntr: the tick interrupt, at any moment.
NutTimerIntr ==
    /\ Since + ticks_new < MaxLag
    /\ nut_ticks' = (nut_ticks + 1) % TickWord
    /\ UNCHANGED <<nut_ticks_resume, nutTimerList, tn_ticks, tn_ticks_left, tn_callback,
                   ticks_new, cur, pc>>

\* Ticks from the head of the list to the expiry of its k-th timer.
Due(list, left, k) ==
    LET sum[i \in 0..Len(list)] == IF i = 0 THEN 0 ELSE sum[i - 1] + left[list[i]]
    IN  sum[k]

\* Seeded fault: a timer goes before the ones due at the same tick.
LaterOrSame(tn, list, left) == {k \in 1..Len(list) : left[tn] <= Due(list, left, k)}

\* The timers of the list that are due later than tn.
Later(tn, list, left) == {k \in 1..Len(list) : left[tn] < Due(list, left, k)}

\* NutTimerInsert: the walk stops at the first timer that is due later.  What
\* is left of tn when it gets there is its own distance, which the timer it
\* stops at gives up.
NutTimerInsert(tn, list, left) ==
    LET later == Later(tn, list, left)
        at    == IF later = {} THEN Len(list) + 1 ELSE Min(later)
        own   == left[tn] - Due(list, left, at - 1)
    IN  /\ nutTimerList' = InsertAt(list, at, tn)
        /\ tn_ticks_left' =
              IF later = {} THEN [left EXCEPT ![tn] = own]
              ELSE [left EXCEPT ![tn] = own, ![list[at]] = @ - own]

\* NutTimerStartTicks, with NutTimerCreate, by a thread or from inside a callback
\* (as NutMsgQTimerCb does, msg.c:254).
NutTimerStartTicks(tn, ticks, oneshot) ==
    /\ pc \in {"idle", "callback"}
    /\ tn \notin ToSet(nutTimerList)
    /\ tn_ticks' = [tn_ticks EXCEPT ![tn] = IF oneshot THEN 0 ELSE ticks]
    /\ tn_callback' = [tn_callback EXCEPT ![tn] = TRUE]
    /\ NutTimerInsert(tn, nutTimerList,
          [tn_ticks_left EXCEPT ![tn] = (ticks + nut_ticks - nut_ticks_resume) % TickWord])
    /\ UNCHANGED <<nut_ticks, nut_ticks_resume, ticks_new, cur, pc>>

\* Seeded fault: the ticks of the unlinked timer are lost.
LeftWithoutLost(tn, k) == [tn_ticks_left EXCEPT ![tn] = 0]

\* The distances when tn, the k-th timer, is unlinked: its successor inherits.
LeftWithout(tn, k) ==
    LET next == IF k < Len(nutTimerList) THEN {nutTimerList[k + 1]} ELSE {}
    IN  [u \in Timer |-> IF u = tn THEN 0
                         ELSE IF u \in next THEN tn_ticks_left[u] + tn_ticks_left[tn]
                         ELSE tn_ticks_left[u]]

\* NutTimerStop, by a thread or from inside a callback (its own or another's):
\* a timer that still has ticks left is unlinked, hands them to its successor
\* and is inserted again as expired.
NutTimerStop(tn) ==
    /\ pc \in {"idle", "callback"}
    /\ tn \in ToSet(nutTimerList) /\ tn_callback[tn]
    /\ tn_ticks' = [tn_ticks EXCEPT ![tn] = 0]
    /\ tn_callback' = [tn_callback EXCEPT ![tn] = FALSE]
    /\ IF tn_ticks_left[tn] = 0
       THEN UNCHANGED <<nutTimerList, tn_ticks_left>>
       ELSE LET k == CHOOSE i \in 1..Len(nutTimerList) : nutTimerList[i] = tn
            IN  NutTimerInsert(tn, RemoveAt(nutTimerList, k), LeftWithout(tn, k))
    /\ UNCHANGED <<nut_ticks, nut_ticks_resume, ticks_new, cur, pc>>

\* NutTimerProcessElapsed, entry.
ProcessElapsed ==
    /\ pc = "idle"
    /\ ticks_new' = Since
    /\ nut_ticks_resume' = nut_ticks
    /\ pc' = "loop"
    /\ UNCHANGED <<nut_ticks, nutTimerList, tn_ticks, tn_ticks_left, tn_callback, cur>>

HasElapsed(tn) == tn_ticks_left[tn] <= ticks_new

\* One round: the first timer has elapsed; its callback, if any, is called.
Elapse ==
    /\ pc = "loop" /\ nutTimerList # <<>> /\ ticks_new > 0
    /\ LET tn == Head(nutTimerList) IN
       /\ HasElapsed(tn)
       /\ ticks_new' = ticks_new - tn_ticks_left[tn]
       /\ tn_ticks_left' = [tn_ticks_left EXCEPT ![tn] = 0]
       /\ cur' = tn
       /\ pc' = IF tn_callback[tn] THEN "callback" ELSE "unlink"
    /\ UNCHANGED <<nut_ticks, nut_ticks_resume, nutTimerList, tn_ticks, tn_callback>>

\* A one-shot timer, or one that was stopped.
ToBeFreed(tn) == tn_ticks[tn] = 0

\* After the callback: take the first timer off the list.  The one that
\* elapsed is inserted again if it is periodic and freed if not.
Unlink ==
    /\ pc \in {"callback", "unlink"}
    /\ pc' = "loop"
    /\ cur' = NoTimer
    /\ LET rest == Tail(nutTimerList) IN
       \/ /\ ToBeFreed(cur)
          /\ nutTimerList' = rest
          /\ tn_callback' = [tn_callback EXCEPT ![cur] = FALSE]
          /\ UNCHANGED tn_ticks_left
       \/ /\ ~ToBeFreed(cur)
          /\ NutTimerInsert(cur, rest, [tn_ticks_left EXCEPT ![cur] = tn_ticks[cur]])
          /\ UNCHANGED tn_callback
    /\ UNCHANGED <<nut_ticks, nut_ticks_resume, tn_ticks, ticks_new>>

\* Seeded fault: ticks that are too few for the first timer are dropped.
TicksKept(tn) == tn_ticks_left[tn]

\* What the first timer still needs when the ticks run out.
TicksUsed(tn) == tn_ticks_left[tn] - ticks_new

\* The loop ends: no timer, no ticks, or not enough of them.
Finish ==
    /\ pc = "loop"
    /\ \/ /\ nutTimerList = <<>> \/ ticks_new = 0
          /\ UNCHANGED tn_ticks_left
       \/ /\ nutTimerList # <<>> /\ ticks_new > 0
          /\ LET tn == Head(nutTimerList) IN
             /\ ticks_new < tn_ticks_left[tn]
             /\ tn_ticks_left' = [tn_ticks_left EXCEPT ![tn] = TicksUsed(tn)]
    /\ ticks_new' = 0
    /\ pc' = "idle"
    /\ UNCHANGED <<nut_ticks, nut_ticks_resume, nutTimerList, tn_ticks, tn_callback, cur>>

Process == ProcessElapsed \/ Elapse \/ Unlink \/ Finish

TimerNext ==
    \/ NutTimerIntr
    \/ \E tn \in Timer, i \in Interval, oneshot \in BOOLEAN : NutTimerStartTicks(tn, i, oneshot)
    \/ \E tn \in Timer : NutTimerStop(tn)
    \/ Process

TimerSpec == TimerInit /\ [][TimerNext]_timerVars

\* Ticks keep coming, and the CPU is released again and again (every release
\* passes NutTimerProcessElapsed; the idle thread releases it all the time).
TimerFairSpec == TimerSpec /\ WF_timerVars(NutTimerIntr) /\ WF_timerVars(Process)

-----------------------------------------------------------------------------
(* Properties.                                                             *)

TypeOK ==
    /\ nut_ticks \in 0..(TickWord - 1) /\ nut_ticks_resume \in 0..(TickWord - 1)
    /\ nutTimerList \in Seq(Timer)
    /\ tn_ticks \in [Timer -> Nat]
    /\ tn_ticks_left \in [Timer -> 0..(TickWord - 1)]
    /\ tn_callback \in [Timer -> BOOLEAN]
    /\ ticks_new \in 0..MaxLag
    /\ cur \in Timer \cup {NoTimer}
    /\ pc \in {"idle", "loop", "callback", "unlink"}

Linked == ToSet(nutTimerList)

Position(tn) == CHOOSE k \in 1..Len(nutTimerList) : nutTimerList[k] = tn

\* The timer whose callback runs or has just run.
InCallback(tn) == tn = cur

AbsMode == [tn \in Timer |->
    IF tn \notin Linked THEN "free"
    ELSE IF ~tn_callback[tn] \/ (InCallback(tn) /\ tn_ticks[tn] = 0) THEN "done"
    ELSE "armed"]

AbsLeft == [tn \in Timer |->
    IF AbsMode[tn] # "armed" THEN 0
    ELSE Due(nutTimerList, tn_ticks_left, Position(tn)) - ticks_new - Since
            + (IF InCallback(tn) THEN tn_ticks[tn] ELSE 0)]

AbsPeriod == [tn \in Timer |-> IF AbsMode[tn] = "armed" THEN tn_ticks[tn] ELSE 0]

Service == INSTANCE TimerService WITH
    mode <- AbsMode, left <- AbsLeft, period <- AbsPeriod, backlog <- ticks_new

\* The delta list keeps the promise of TimerService across stops, late rounds,
\* periodic re-insertion, starts and stops by callbacks and the wrap of
\* nut_ticks: no callback runs out of order or after a stop, none before its
\* interval is over unless a callback has started the timer, and stopping or
\* starting one timer never shifts another.
ImplementsTimerService == Service!Spec

\* When a callback returns, the head of the list is still the timer whose
\* callback ran, whatever the callback stopped: NutTimerProcessElapsed unlinks
\* nutTimerList but frees or re-inserts tn (timer.c:470-487).
HeadElapsed == cur # NoTimer => nutTimerList # <<>> /\ Head(nutTimerList) = cur

\* An armed one-shot timer gets off the list (liveness, timer.c:437), unless the
\* callbacks of one round keep it going with new timers for ever.
OneShotEnds ==
    []<>(pc = "idle") =>
        \A tn \in Timer : (tn \in Linked /\ tn_ticks[tn] = 0) ~> (tn \notin Linked)

=============================================================================
