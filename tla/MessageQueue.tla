---------------------------- MODULE MessageQueue ----------------------------
(***************************************************************************)
(* What os/msg.c promises of a message queue: a FIFO of bounded capacity.  *)
(***************************************************************************)
EXTENDS Integers, Sequences

CONSTANTS MsgQ, Message, Null, Capacity

VARIABLE contents     \* per queue, the messages posted and not yet taken

Init == contents = [q \in MsgQ |-> <<>>]

Post(q, m) ==
    /\ Len(contents[q]) < Capacity
    /\ contents' = [contents EXCEPT ![q] = Append(@, m)]

Get(q) ==
    /\ contents[q] # <<>>
    /\ contents' = [contents EXCEPT ![q] = Tail(@)]

Flush(q) == contents' = [contents EXCEPT ![q] = <<>>]

\* Stopping a timer blanks its messages where they stand.
Blank(q, m) ==
    contents' = [contents EXCEPT ![q] =
                    [i \in DOMAIN @ |-> IF @[i] = m THEN Null ELSE @[i]]]

Next ==
    \E q \in MsgQ :
        \/ Get(q) \/ Flush(q)
        \/ \E m \in Message : Post(q, m) \/ Blank(q, m)

Spec == Init /\ [][Next]_contents

=============================================================================
