---------------------------- MODULE NutServices -----------------------------
(***************************************************************************)
(* The synchronisation objects and the message queues together: threads    *)
(* that use both compete for the same run queue.                           *)
(***************************************************************************)
EXTENDS NutSync, NutMsgQ

\* Structures of different kinds have different addresses.
ASSUME ServicesAssumption ==
    MsgQ \cap (Mutex \cup Sem \cup {Stray} \cup {EventOf[c] : c \in Condition}) = {}

ServicesInit == SchedInit /\ SyncInit /\ MsgInit

ServicesNext ==
    \/ SchedStep /\ UNCHANGED <<syncVars, msgVars>>
    \/ \E t \in Thread : SyncCall(t) /\ UNCHANGED msgVars
    \/ MsgStep /\ UNCHANGED syncVars

ServicesSpec ==
    ServicesInit /\ [][ServicesNext]_<<schedVars, progVars, syncVars, msgVars>>

-----------------------------------------------------------------------------
(* The ring of a queue, read from mq_read to mq_write, is a FIFO.          *)

Contents(q) ==
    [i \in 1..Cardinality(Pending(q)) |-> mq_que[q][(mq_read[q] + i - 1) % (Mask + 1)]]

MQ == INSTANCE MessageQueue
        WITH contents <- [q \in MsgQ |-> Contents(q)], Capacity <- Mask

\* Messages are taken in the order of the posts, each of them once, and a post to
\* a full queue leaves no trace (msg.c).
ImplementsMessageQueue == MQ!Spec

=============================================================================
