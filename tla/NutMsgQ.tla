------------------------------ MODULE NutMsgQ -------------------------------
(***************************************************************************)
(* Message queues and their timers: os/msg.c on the thread and event       *)
(* functions of NutSched.  A queue is a ring of mq_mask + 1 entries, one   *)
(* of them always free.  A NUTMSGTMR comes from the heap, later from the   *)
(* free list, and is on the mq_timers list of its queue in between.        *)
(*                                                                         *)
(* The callers obey two rules of the code's comments: a one-shot timer is  *)
(* not stopped once its message was received, and a queue is not flushed   *)
(* while its reader is in NutMsgQGetMessage, waiting or woken.  And a      *)
(* queue has one reader, the thread its messages are for.                  *)
(***************************************************************************)
EXTENDS NutSched

CONSTANTS
    MsgQ,             \* message queues, the roots of their mq_wait
    Mask,             \* mq_mask
    Data,             \* data of messages that threads post
    MsgTimer,         \* blocks that can hold a NUTMSGTMR
    Reader            \* per queue, the thread that calls NutMsgQGetMessage

ASSUME MsgAssumption ==
    /\ MsgQ \subseteq Root
    /\ Mask \in Nat \ {0}
    /\ Data \cap MsgTimer = {}
    /\ NIL \notin Data \cup MsgTimer
    /\ Reader \in [MsgQ -> Thread]

VARIABLES
    mq_que,           \* per queue, the ring
    mq_read,          \* index of the oldest message
    mq_write,         \* index of the next free entry
    mq_timers,        \* per queue, the timers in its list
    freeTimers,       \* nutMsgFreeTimers
    oneshot,          \* timers started with TM_ONESHOT
    ticking           \* timers whose system timer runs (mt_handle)

msgVars == <<mq_que, mq_read, mq_write, mq_timers, freeTimers, oneshot, ticking>>
tmrVars == <<mq_timers, freeTimers, oneshot, ticking>>

Index   == 0..Mask
Message == [id : {"user"}, data : Data] \cup [id : {"MSG_TIMER"}, data : MsgTimer]
Null    == [id |-> "MSG_NULL", data |-> NIL]

MsgInit ==
    /\ mq_que = [q \in MsgQ |-> [i \in Index |-> Null]]
    /\ mq_read = [q \in MsgQ |-> 0]
    /\ mq_write = [q \in MsgQ |-> 0]
    /\ mq_timers = [q \in MsgQ |-> {}]
    /\ freeTimers = <<>>
    /\ oneshot = {}
    /\ ticking = {}

-----------------------------------------------------------------------------
(* Posting.                                                                *)

\* An index moves on: ++ and & mq_mask.
After(i) == (i + 1) % (Mask + 1)

\* Seeded fault: the index is compared unmasked.
FullUnmasked(q) == mq_write[q] + 1 = mq_read[q]

NutMsgQFull(q) == After(mq_write[q]) = mq_read[q]

\* A message goes into the ring of q.
Put(q, m) ==
    /\ mq_que' = [mq_que EXCEPT ![q][mq_write[q]] = m]
    /\ mq_write' = [mq_write EXCEPT ![q] = After(@)]
    /\ UNCHANGED mq_read

\* NutMsgQPost; a full queue is left alone.
NutMsgQPost(t, q, d) ==
    /\ At(t, "user")
    /\ ~NutMsgQFull(q)
    /\ Put(q, [id |-> "user", data |-> d])
    /\ NutEventPostAsync(q)
    /\ UNCHANGED <<progVars, tmrVars>>

\* NutMsgQSend: the caller yields after the post.
NutMsgQSend(t, q, d) ==
    /\ At(t, "user")
    /\ ~NutMsgQFull(q)
    /\ Put(q, [id |-> "user", data |-> d])
    /\ NutEventPost(t, q)
    /\ UNCHANGED <<progVars, tmrVars>>

-----------------------------------------------------------------------------
(* Timers.                                                                 *)

\* NutMsgQStartTimer, with the first free NUTMSGTMR or a new one.
NutMsgQStartTimer(t, q, tm, once) ==
    /\ At(t, "user")
    /\ \/ freeTimers # <<>> /\ tm = Head(freeTimers) /\ freeTimers' = Tail(freeTimers)
       \/ /\ freeTimers = <<>>
          /\ \A r \in MsgQ : tm \notin mq_timers[r]
          /\ UNCHANGED freeTimers
    /\ mq_timers' = [mq_timers EXCEPT ![q] = @ \cup {tm}]
    /\ oneshot' = IF once THEN oneshot \cup {tm} ELSE oneshot \ {tm}
    /\ ticking' = ticking \cup {tm}
    /\ UNCHANGED <<schedVars, progVars, mq_que, mq_read, mq_write>>

\* NutMsgQTimerCb in NutThreadResume.  On a full queue a one-shot timer is started
\* again, a periodic one skips the message.
NutMsgQTimerCb(q, tm) ==
    /\ running = NIL
    /\ tm \in ticking \cap mq_timers[q]
    /\ ~NutMsgQFull(q)
    /\ Put(q, [id |-> "MSG_TIMER", data |-> tm])
    /\ NutEventPostAsync(q)
    /\ ticking' = ticking \ (oneshot \cap {tm})
    /\ UNCHANGED <<progVars, mq_timers, freeTimers, oneshot>>

\* NutMsgQFreeTimer.
FreeTimer(q, tm) ==
    /\ mq_timers' = [mq_timers EXCEPT ![q] = @ \ {tm}]
    /\ freeTimers' = <<tm>> \o freeTimers

\* The indices from mq_read up to mq_write.
Pending(q) == {i \in Index : (i - mq_read[q]) % (Mask + 1) < (mq_write[q] - mq_read[q]) % (Mask + 1)}

\* Seeded fault: the search ends at the end of the array.
PendingNoWrap(q) == {i \in Index : mq_read[q] <= i /\ i < mq_write[q]}

\* The entries that NutMsgQStopTimer looks at.
Searched(q) == Pending(q)

\* NutMsgQStopTimer: its messages in the ring become MSG_NULL.
NutMsgQStopTimer(t, q, tm) ==
    /\ At(t, "user")
    /\ tm \in mq_timers[q]
    /\ mq_que' = [mq_que EXCEPT ![q] = [i \in Index |->
                    IF i \in Searched(q) /\ @[i] = [id |-> "MSG_TIMER", data |-> tm]
                    THEN Null ELSE @[i]]]
    /\ ticking' = ticking \ {tm}
    /\ FreeTimer(q, tm)
    /\ UNCHANGED <<schedVars, progVars, mq_read, mq_write, oneshot>>

-----------------------------------------------------------------------------
(* Receiving.                                                              *)

NutMsgQGetMessage(t, q, withTimer) ==
    /\ At(t, "user") /\ t = Reader[q]
    /\ NutEventWait(t, q, withTimer)
    /\ GoTo(t, "get", q)
    /\ UNCHANGED msgVars

GetTimeout(t) ==
    /\ At(t, "get") /\ t \in timedOut
    /\ GoTo(t, "user", NIL)
    /\ UNCHANGED <<schedVars, msgVars>>

\* Seeded faults: the event is posted only for the first message, or always.
RepostNever(q) == FALSE
RepostAlways(q) == TRUE

\* More messages follow the one just taken.
Repost(q) == After(mq_read[q]) # mq_write[q]

\* After the wait the oldest entry is taken without a look at mq_write.  If more
\* follow, the event is posted again; a one-shot timer is freed.
GetTake(t, q) ==
    /\ At(t, "get") /\ obj[t] = q /\ t \notin timedOut
    /\ mq_read' = [mq_read EXCEPT ![q] = After(@)]
    /\ IF Repost(q) THEN NutEventPostAsync(q) ELSE UNCHANGED schedVars
    /\ LET msg == mq_que[q][mq_read[q]] IN
       IF msg.id = "MSG_TIMER" /\ msg.data \in oneshot
       THEN FreeTimer(q, msg.data) ELSE UNCHANGED <<mq_timers, freeTimers>>
    /\ GoTo(t, "user", NIL)
    /\ UNCHANGED <<mq_que, mq_write, oneshot, ticking>>

\* NutMsgQFlush.  The root is cleared, the timers of dropped messages stay.  That nobody
\* waits and no reader has been woken that did not run yet is a rule for the callers: the
\* code has no test, and its disabled assertion would see the waiting one only.
NutMsgQFlush(t, q) ==
    /\ At(t, "user")
    /\ waitq[q] = <<>> /\ \A u \in Thread : ~(step[u] = "get" /\ obj[u] = q)
    /\ mq_read' = [mq_read EXCEPT ![q] = mq_write[q]]
    /\ signaled' = signaled \ {q}
    /\ UNCHANGED <<runQueue, running, waitq, timed, timedOut, progVars, mq_que, mq_write, tmrVars>>

-----------------------------------------------------------------------------

MsgCall(t) ==
    \E q \in MsgQ :
        \/ \E d \in Data : NutMsgQPost(t, q, d) \/ NutMsgQSend(t, q, d)
        \/ \E tm \in MsgTimer :
              \/ \E once \in BOOLEAN : NutMsgQStartTimer(t, q, tm, once)
              \/ NutMsgQStopTimer(t, q, tm)
        \/ \E withTimer \in BOOLEAN : NutMsgQGetMessage(t, q, withTimer)
        \/ GetTake(t, q) \/ NutMsgQFlush(t, q)

MsgStep ==
    \/ \E t \in Thread : MsgCall(t) \/ GetTimeout(t)
    \/ \E q \in MsgQ, tm \in MsgTimer : NutMsgQTimerCb(q, tm)

-----------------------------------------------------------------------------
(* Properties.                                                             *)

MsgTypeOK ==
    /\ mq_que \in [MsgQ -> [Index -> Message \cup {Null}]]
    /\ mq_read \in [MsgQ -> Index]
    /\ mq_write \in [MsgQ -> Index]
    /\ mq_timers \in [MsgQ -> SUBSET MsgTimer]
    /\ freeTimers \in Seq(MsgTimer)
    /\ oneshot \in SUBSET MsgTimer
    /\ ticking \in SUBSET MsgTimer

\* msg.c:389 asserts it: a thread that comes out of the wait finds a message.
\* The event queue and the ring are two pieces of state that only the posts of
\* NutMsgQPost and NutMsgQGetMessage keep together.
EventMeansMessage ==
    \A q \in MsgQ :
        /\ q \in signaled => Pending(q) # {}
        /\ \A t \in ToSet(runQueue) :
              step[t] = "get" /\ obj[t] = q /\ t \notin timedOut => Pending(q) # {}

\* The other direction, no message is stranded: while messages are pending, the
\* root is signaled or a reader is on its way to them, so nobody waits.
MessageMeansEvent ==
    \A q \in MsgQ : Pending(q) # {} =>
        /\ waitq[q] = <<>>
        /\ \/ q \in signaled
           \/ \E t \in ToSet(runQueue) : step[t] = "get" /\ obj[t] = q

\* msg.c:341-344, "If you stop it you don't want a message from it": a timer
\* message in a ring belongs to a timer on the list of that queue, never to
\* one that is free or that serves another queue by now.  A timer on the free list is
\* on no queue's list and does not run.
TimerMessagesOwned ==
    /\ \A q \in MsgQ : \A i \in Pending(q) :
          mq_que[q][i].id = "MSG_TIMER" => mq_que[q][i].data \in mq_timers[q]
    /\ IsInjective(freeTimers)
    /\ \A tm \in ToSet(freeTimers) :
          tm \notin ticking /\ \A q \in MsgQ : tm \notin mq_timers[q]

=============================================================================
