------------------------------- MODULE NutTcp -------------------------------
(***************************************************************************)
(* A TCP connection between two Nut/OS nodes: net/tcpsm.c, tcpout.c and    *)
(* the socket calls of tcpsock.c, over a network that loses and reorders   *)
(* segments; retransmission duplicates them.  Each node has one socket,    *)
(* one application thread and the state machine thread NutTcpSm.           *)
(*                                                                         *)
(* A step is the code between two releases of the CPU.  The application    *)
(* has the default priority 64 and NutTcpSm has 32, so posting an event    *)
(* does not stop NutTcpSm; sending a segment does, NutIpOutput may wait    *)
(* for ARP or the driver.  What a handler does after it has sent a segment *)
(* is a step of its own, named by the field sm.                            *)
(*                                                                         *)
(* Segments carry one byte at most, the maximum segment size is 1, initial *)
(* sequence numbers are 0 and sequence numbers do not wrap.  A byte is     *)
(* known by its sequence number.  Time is left out: whatever a timer does  *)
(* may happen at any time, which covers the retransmission after three     *)
(* duplicate ACKs.  Buffers for headers can be allocated.                  *)
(***************************************************************************)
EXTENDS Integers, Sequences, FiniteSets, SequencesExt

CONSTANTS
    Active, Passive,  \* the node that connects and the one that accepts
    Bytes,            \* per node, how many bytes its application may send
    WinSize,          \* TCP_WINSIZE, in segments
    Capacity,         \* segments on their way to a node; more are lost
    MaxSyn,           \* bound on the SYNs a listening socket answers
    MaxSeq,           \* bound on the sequence numbers a node acknowledges
    NIL

Node == {Active, Passive}

Segment == [flags : SUBSET {"SYN", "FIN", "ACK", "RST"}, seq : Nat, ack : Nat,
            win : 0 .. WinSize, data : BOOLEAN]

\* Where a handler goes on after an output, and its variable flags.
Place == [at : {"absorb", "post", "finish", "closewait", "opened", "synacked", "finwait"},
          flags : SUBSET {"FIN"}]

ASSUME TcpAssumption ==
    /\ Active # Passive
    /\ Bytes \in [Node -> Nat] /\ Capacity \in [Node -> Nat]
    /\ WinSize \in Nat \ {0} /\ MaxSeq \in Nat /\ MaxSyn \in Nat
    /\ NIL \notin Segment \cup Place

VARIABLES
    sock,             \* per node, the socket with its two threads
    net,              \* per node, the segments on their way to it
    backlog           \* tcp_backlog of the accepting node: a SYN or NIL

vars == <<sock, net, backlog>>

Peer(e) == IF e = Active THEN Passive ELSE Active

(***************************************************************************)
(* A socket: so_state, so_tx_una, so_tx_nxt, so_tx_win, so_tx_wl1,         *)
(* so_tx_wl2, the flags SO_ACK and SO_FORCE, so_tx_nbq, so_rx_isn,         *)
(* so_rx_nxt, so_rx_win, so_rx_buf, so_rx_cnt, so_rx_nbq (adv).  SO_SYN    *)
(* and SO_FIN are set right before the output that clears them.            *)
(*   app   where the application is: "tx", "rx", "pc", "ac" waiting in the *)
(*         queue of that name, "txw", "rxw" woken there; an application    *)
(*         whose NutTcpConnect has "failed" only closes the socket         *)
(*   sm    where NutTcpSm goes on: [at, flags], or NIL between two segments *)
(*   out   segments sent in this step                                      *)
(*   read  the bytes the application has read, those behind so_rx_isn      *)
(*   skew  SYN_RECEIVED has taken data or a FIN out of sequence            *)
(***************************************************************************)
ClosedByUs == {"FIN_WAIT_1", "FIN_WAIT_2", "CLOSING", "LAST_ACK", "TIME_WAIT"}

State == {"CLOSED", "LISTEN", "SYN_SENT", "SYN_RECEIVED", "ESTABLISHED", "CLOSE_WAIT",
          "GONE"} \cup ClosedByUs

AppPlace == {"start", "opening", "user", "failed", "closed", "fault",
             "pc", "ac", "tx", "txw", "rx", "rxw"}

Socket ==
    [state : State, una : Nat, nxt : Nat, win : 0 .. WinSize, wl1 : Nat, wl2 : Nat,
     ack : BOOLEAN, force : BOOLEAN, nbq : Seq(Segment),
     rxIsn : Nat, rxNxt : Nat, rxWin : 0 .. WinSize, rxBuf : Seq(Nat), rxCnt : Nat,
     adv : Seq(Segment), app : AppPlace, sm : Place \cup {NIL},
     out : Seq(Segment), read : Seq(Nat), skew : BOOLEAN]

NewSocket ==
    [state |-> "CLOSED", una |-> 0, nxt |-> 0, win |-> 0, wl1 |-> 0, wl2 |-> 0,
     ack |-> FALSE, force |-> FALSE, nbq |-> <<>>,
     rxIsn |-> 0, rxNxt |-> 0, rxWin |-> WinSize, rxBuf |-> <<>>, rxCnt |-> 0, adv |-> <<>>,
     app |-> "start", sm |-> NIL, out |-> <<>>, read |-> <<>>,
     skew |-> FALSE]

Init ==
    /\ sock = [e \in Node |-> NewSocket]
    /\ net = [e \in Node |-> {}]
    /\ backlog = NIL

-----------------------------------------------------------------------------
(* The application's waits.                                                *)

\* A post or broadcast on the receive queue, on the transmit queue.
WakeRx(s) == IF s.app = "rx" THEN [s EXCEPT !.app = "rxw"] ELSE s
WakeTx(s) == IF s.app = "tx" THEN [s EXCEPT !.app = "txw"] ELSE s

\* A post or broadcast on the queues "pc" and "ac" of the opening calls.  They are
\* called once, so it does not matter that a post is remembered.
WakeOpen(s) == IF s.app \in {"pc", "ac"} THEN [s EXCEPT !.app = "user"] ELSE s

-----------------------------------------------------------------------------
(* Output.                                                                 *)

\* NutTcpOutput with a "SYN", a "FIN", "DATA" or "nothing" but what is forced.
NutTcpOutput(s, what) ==
    LET seg == [flags |-> (IF s.ack THEN {"ACK"} ELSE {}) \cup ({what} \cap {"SYN", "FIN"}),
                seq |-> s.nxt, ack |-> IF s.ack THEN s.rxNxt ELSE 0,
                win |-> s.rxWin, data |-> what = "DATA"]
    IN  IF what = "nothing" /\ ~s.force THEN s
        ELSE [s EXCEPT !.ack = FALSE, !.force = FALSE, !.out = Append(@, seg),
                       !.nxt = IF what = "nothing" THEN @ ELSE @ + 1,
                       !.nbq = IF what = "nothing" THEN @ ELSE Append(@, seg)]

\* NutTcpOutput after SO_ACK and SO_FORCE have been set.
ForceAck(s) == NutTcpOutput([s EXCEPT !.ack = TRUE, !.force = TRUE], "nothing")

\* NutTcpReject: what is sent back for segment g, if anything.  No handler looks
\* at the sequence number of a reset.
NutTcpReject(g) ==
    LET rst == [flags |-> {"RST"}, seq |-> 0, ack |-> 0, win |-> 0, data |-> FALSE]
    IN  CASE "RST" \in g.flags -> <<>>
          [] "RST" \notin g.flags /\ "ACK" \in g.flags -> <<rst>>
          [] OTHER -> <<[rst EXCEPT !.flags = {"RST", "ACK"},
                             !.ack = IF "SYN" \in g.flags THEN g.seq + 1 ELSE g.seq]>>

Rejected(s, g) == [s EXCEPT !.out = @ \o NutTcpReject(g)]

-----------------------------------------------------------------------------
(* Helpers of the handlers.                                                *)

\* In a queue with ascending sequence numbers: how many segments come before n, those
\* that do not, and how many of the first follow each other from n on.
Earlier(q, n) == CHOOSE k \in 0 .. Len(q) : \A i \in DOMAIN q : q[i].seq < n <=> i <= k
Later(q, n)   == SubSeq(q, Earlier(q, n) + 1, Len(q))
Adjoining(q, n) ==
    CHOOSE k \in 0 .. Len(q) :
        /\ \A i \in 1 .. k : q[i].seq = n + i - 1
        /\ k < Len(q) => q[k + 1].seq # n + k

NutTcpDiscardBuffers(s) == [s EXCEPT !.rxBuf = <<>>, !.nbq = <<>>, !.adv = <<>>]

\* NutTcpDestroySocket: the application may still be about to find out.
NutTcpDestroySocket(s) ==
    [NewSocket EXCEPT !.state = "GONE", !.app = s.app, !.read = s.read,
                      !.rxIsn = s.rxIsn, !.sm = s.sm, !.skew = s.skew]

\* Seeded fault: the transmitter is not told.
AbortQuietly(s) ==
    WakeRx(WakeOpen(NutTcpDiscardBuffers(
        [s EXCEPT !.state = IF @ \in ClosedByUs THEN "TIME_WAIT" ELSE "CLOSED"])))

\* Seeded fault: closed, although the application has closed it before.
AbortCloses(s) ==
    WakeRx(WakeTx(WakeOpen(NutTcpDiscardBuffers([s EXCEPT !.state = "CLOSED"]))))

NutTcpAbortSocket(s) ==
    WakeRx(WakeTx(WakeOpen(NutTcpDiscardBuffers(
        [s EXCEPT !.state = IF @ \in ClosedByUs THEN "TIME_WAIT" ELSE "CLOSED"]))))

\* NutTcpProcessAck, without the counting of duplicates.
NutTcpProcessAck(s, g) ==
    CASE g.ack > s.nxt -> [s EXCEPT !.ack = TRUE, !.force = TRUE]
      [] g.ack < s.una -> s
      [] g.ack = s.una ->
            IF g.seq > s.wl1 \/ (g.seq = s.wl1 /\ s.wl2 <= g.ack)
            THEN [s EXCEPT !.win = g.win, !.wl1 = g.seq, !.wl2 = g.ack]
            ELSE s
      [] OTHER ->
            [s EXCEPT !.una = g.ack, !.win = g.win,
                      !.nbq = Later(@, g.ack)]

NutTcpProcessSyn(s, g) ==
    [s EXCEPT !.rxIsn = g.seq, !.rxNxt = g.seq + 1, !.wl1 = g.seq, !.win = g.win]

\* Seeded fault: so_rx_nxt grows by all that is in the buffer.
BufferedTwice(s, bytes, last) ==
    [s EXCEPT !.rxBuf = @ \o bytes, !.rxCnt = @ + Len(bytes),
              !.rxNxt = @ + s.rxCnt + Len(bytes),
              !.rxWin = IF Len(bytes) >= @ THEN 0 ELSE @ - Len(bytes),
              !.ack = TRUE, !.force = @ \/ last]

\* Bytes go into the input buffer.  The last one of a batch forces an ACK.
Buffered(s, bytes, last) ==
    [s EXCEPT !.rxBuf = @ \o bytes, !.rxCnt = @ + Len(bytes), !.rxNxt = @ + Len(bytes),
              !.rxWin = IF Len(bytes) >= @ THEN 0 ELSE @ - Len(bytes),
              !.ack = TRUE, !.force = @ \/ last]

\* NutTcpProcessAppData; more says that more segments wait in tcp_in_nbq.
NutTcpProcessAppData(s, g, more) == NutTcpOutput(Buffered(s, <<g.seq>>, ~more), "nothing")

\* What the legal state changes set in so_tx_flags and send.
Change(from, to, flags, what) == [from |-> from, to |-> to, flags |-> flags, what |-> what]

Changes ==
    {Change("CLOSED", "LISTEN", {}, "nothing"),
     Change("CLOSED", "SYN_SENT", {}, "SYN"),
     Change("LISTEN", "SYN_RECEIVED", {"ACK"}, "SYN"),
     Change("SYN_SENT", "SYN_RECEIVED", {"ACK"}, "SYN"),
     Change("SYN_SENT", "ESTABLISHED", {"ACK", "FORCE"}, "nothing"),
     Change("SYN_RECEIVED", "LISTEN", {}, "nothing"),
     Change("SYN_RECEIVED", "ESTABLISHED", {}, "nothing"),
     Change("SYN_RECEIVED", "FIN_WAIT_1", {}, "FIN"),
     Change("SYN_RECEIVED", "CLOSE_WAIT", {"ACK"}, "FIN"),
     Change("ESTABLISHED", "FIN_WAIT_1", {"ACK"}, "FIN"),
     Change("ESTABLISHED", "CLOSE_WAIT", {"ACK", "FORCE"}, "nothing"),
     Change("FIN_WAIT_1", "FIN_WAIT_2", {}, "nothing"),
     Change("FIN_WAIT_1", "CLOSING", {"ACK", "FORCE"}, "nothing"),
     Change("FIN_WAIT_1", "TIME_WAIT", {}, "nothing"),
     Change("FIN_WAIT_2", "TIME_WAIT", {"ACK", "FORCE"}, "nothing"),
     Change("CLOSE_WAIT", "LAST_ACK", {"ACK"}, "FIN"),
     Change("CLOSING", "TIME_WAIT", {}, "nothing")}

\* NutTcpStateChange up to its output.  An illegal change is refused, though in
\* FIN_WAIT_2 it leaves an ACK to be sent.
NutTcpStateChange(s, to) ==
    LET legal == {c \in Changes : c.from = s.state /\ c.to = to}
    IN  IF legal = {}
        THEN IF s.state = "FIN_WAIT_2" THEN [s EXCEPT !.ack = TRUE, !.force = TRUE] ELSE s
        ELSE LET c == CHOOSE x \in legal : TRUE
             IN  NutTcpOutput([s EXCEPT !.state = to, !.ack = @ \/ "ACK" \in c.flags,
                                        !.force = @ \/ "FORCE" \in c.flags], c.what)

\* What is left to do for a handler about the flags of g, once it has looked at the others.
Fin(g) == g.flags \cap {"FIN"}

\* Where the handler goes on when its last segment has been sent.
Then(s, at, flags) == [s EXCEPT !.sm = [at |-> at, flags |-> flags]]
Done(s) == [s EXCEPT !.sm = NIL]

Sent(s) == s.out # <<>>

-----------------------------------------------------------------------------
(* The handlers: socket s gets segment g.  They end at the first output.   *)

\* After a FIN: rx_nxt moves on and the application is told, which is left to
\* the step after the output.
EnterCloseWait(s) ==
    LET t == NutTcpStateChange([s EXCEPT !.rxNxt = @ + 1], "CLOSE_WAIT")
    IN  IF t.state = "CLOSE_WAIT" THEN Then(t, "closewait", {"FIN"}) ELSE Done(t)

\* The end of NutTcpStateEstablished.
CheckFin(s, flags) == IF flags # {} THEN EnterCloseWait(s) ELSE Done(s)

\* The segments received in advance that are in sequence now.
InSequence(s) ==
    LET live == Later(s.adv, s.rxNxt)
    IN  SubSeq(live, 1, Adjoining(live, s.rxNxt))

\* The loop on so_rx_nbq in NutTcpStateEstablished, then the post to the reader.
\* Only the last segment of the queue forces an ACK.
Absorb(s, flags) ==
    LET take == InSequence(s)
        rest == Later(s.adv, s.rxNxt + Len(take))
        all  == flags \cup UNION {Fin(take[i]) : i \in DOMAIN take}
        got  == IF take = <<>> THEN s
                ELSE LET bytes == [i \in DOMAIN take |-> take[i].seq]
                     IN  NutTcpOutput(Buffered(s, bytes, rest = <<>>), "nothing")
        t    == [got EXCEPT !.adv = rest]
    IN  IF rest = <<>> /\ take # <<>> THEN Then(t, "post", all)
        ELSE CheckFin(WakeRx(t), all)

\* Seeded faults: any segment in the window is taken; so is an old one.
AheadOfWindow(s, g) == g.seq > s.rxNxt + s.rxWin
UnexpectedAhead(s, g) == g.seq > s.rxNxt

\* The segment is ahead of sequence; it is not the one expected.
Ahead(s, g) == g.seq > s.rxNxt
Unexpected(s, g) == g.seq # s.rxNxt

\* A segment ahead of sequence: kept in order unless the limit for such
\* segments, which all sockets share, is reached.
InAdvance(s, g, keep) ==
    LET known == \E i \in DOMAIN s.adv : s.adv[i].seq = g.seq
        lower == SubSeq(s.adv, 1, Earlier(s.adv, g.seq))
    IN  IF g.data /\ keep /\ ~known
        THEN [s EXCEPT !.adv = lower \o <<g>> \o Later(@, g.seq)]
        ELSE s

\* NutTcpStateEstablished and the wake-up of the transmitter in
\* NutTcpStateProcess.
NutTcpStateEstablished(s, g, more, keep) ==
    LET acked == NutTcpProcessAck(s, g)
        a     == IF acked.win > s.win \/ acked.una # s.una THEN WakeTx(acked) ELSE acked
    IN  CASE "RST" \in g.flags -> NutTcpAbortSocket(s)
          [] "RST" \notin g.flags /\ "SYN" \in g.flags ->
                IF g.seq # s.rxIsn THEN Rejected(s, g) ELSE s
          [] g.flags \cap {"RST", "SYN", "ACK"} = {} -> s
          [] OTHER ->
                IF Ahead(s, g) THEN ForceAck(InAdvance(a, g, keep))
                ELSE IF Unexpected(s, g) THEN Then(ForceAck(a), "finish", Fin(g))
                ELSE IF ~g.data THEN CheckFin(a, Fin(g))
                ELSE LET t == NutTcpProcessAppData(a, g, more)
                     IN  IF Sent(t) THEN Then(t, "absorb", Fin(g)) ELSE Absorb(t, Fin(g))

NutTcpStateListen(s, g) ==
    IF g.flags \cap {"SYN", "ACK", "RST"} = {"SYN"}
    THEN NutTcpStateChange(NutTcpProcessSyn(s, g), "SYN_RECEIVED")
    ELSE Rejected(s, g)

NutTcpStateSynSent(s, g) ==
    IF "ACK" \in g.flags /\ g.ack \notin 1 .. s.nxt THEN Rejected(s, g)
    ELSE IF "RST" \in g.flags
    THEN IF "ACK" \in g.flags THEN NutTcpAbortSocket(s) ELSE s
    ELSE IF "SYN" \notin g.flags THEN s
    ELSE IF "ACK" \notin g.flags
    THEN NutTcpStateChange(NutTcpProcessSyn(s, g), "SYN_RECEIVED")
    ELSE Then(NutTcpStateChange(NutTcpProcessAck(NutTcpProcessSyn(s, g), g), "ESTABLISHED"),
              "opened", {})

\* The last part of NutTcpStateSynReceived.
SynAcked(s, flags) ==
    IF flags # {} THEN EnterCloseWait(s)
    ELSE Done(WakeOpen(NutTcpStateChange(s, "ESTABLISHED")))

\* NutTcpStateSynReceived.  It looks at the acknowledgement only: the sequence
\* number of the segment may be any.
NutTcpStateSynReceived(s, g, more) ==
    LET a == [NutTcpProcessAck(s, g) EXCEPT
                 !.skew = @ \/ ((g.data \/ Fin(g) # {}) /\ g.seq # s.rxNxt)]
        t == NutTcpProcessAppData(a, g, more)
    IN  CASE "RST" \in g.flags ->
                NutTcpDiscardBuffers(IF s.app = "pc" THEN NutTcpStateChange(s, "LISTEN")
                                     ELSE NutTcpAbortSocket(s))
          [] "RST" \notin g.flags /\ "SYN" \in g.flags -> Rejected(s, g)
          [] g.flags \cap {"RST", "SYN", "ACK"} = {} -> s
          [] OTHER ->
                IF g.ack \notin s.una + 1 .. s.nxt THEN Rejected(s, g)
                ELSE IF ~g.data THEN SynAcked(a, Fin(g))
                ELSE IF Sent(t) THEN Then(t, "synacked", Fin(g)) ELSE SynAcked(t, Fin(g))

\* The treatment of a FIN at the end of the handlers of FIN_WAIT_1 and
\* FIN_WAIT_2, whatever its sequence number.
FinReceived(s, flags) ==
    IF flags = {} THEN Done(s)
    ELSE Done(NutTcpStateChange([s EXCEPT !.rxNxt = @ + 1],
                                IF s.state = "FIN_WAIT_2" THEN "TIME_WAIT" ELSE "CLOSING"))

\* What the handlers of the closing states have in common.
IfAcked(s, g, next) ==
    CASE "RST" \in g.flags -> NutTcpDestroySocket(s)
      [] "RST" \notin g.flags /\ "SYN" \in g.flags -> Rejected(s, g)
      [] g.flags \cap {"RST", "SYN", "ACK"} = {} -> s
      [] OTHER -> next

\* NutTcpStateFinWait1 and NutTcpStateFinWait2, which differ in one state
\* change.  Data is taken whatever its sequence number.
NutTcpStateFinWait(s, g, more) ==
    LET acked == NutTcpProcessAck(s, g)
        a     == IF s.state = "FIN_WAIT_1" /\ acked.nxt = acked.una
                 THEN NutTcpStateChange(acked, "FIN_WAIT_2") ELSE acked
        t     == NutTcpProcessAppData(a, g, more)
    IN  IfAcked(s, g,
            IF ~g.data THEN FinReceived(a, Fin(g))
            ELSE IF Sent(t) THEN Then(t, "finwait", Fin(g)) ELSE FinReceived(t, Fin(g)))

NutTcpStateCloseWait(s, g) ==
    IF "RST" \in g.flags THEN NutTcpAbortSocket(s)
    ELSE IfAcked(s, g, NutTcpProcessAck(s, g))

NutTcpStateClosing(s, g) ==
    LET a == NutTcpProcessAck(s, g)
    IN  IfAcked(s, g, IF a.nxt = a.una THEN NutTcpStateChange(a, "TIME_WAIT") ELSE a)

NutTcpStateLastAck(s, g) ==
    LET a == NutTcpProcessAck(s, g)
    IN  IfAcked(s, g, IF a.nxt = a.una THEN NutTcpDestroySocket(a) ELSE a)

NutTcpStateProcess(s, g, more, keep) ==
    CASE s.state = "ESTABLISHED"  -> NutTcpStateEstablished(s, g, more, keep)
      [] s.state = "LISTEN"       -> NutTcpStateListen(s, g)
      [] s.state = "SYN_SENT"     -> NutTcpStateSynSent(s, g)
      [] s.state = "SYN_RECEIVED" -> NutTcpStateSynReceived(s, g, more)
      [] s.state \in {"FIN_WAIT_1", "FIN_WAIT_2"} -> NutTcpStateFinWait(s, g, more)
      [] s.state = "CLOSE_WAIT"   -> NutTcpStateCloseWait(s, g)
      [] s.state = "CLOSING"      -> NutTcpStateClosing(s, g)
      [] s.state = "LAST_ACK"     -> NutTcpStateLastAck(s, g)
      [] s.state = "TIME_WAIT"    -> s

\* A handler goes on after its output.
Continued(s) ==
    CASE s.sm.at = "absorb"    -> Absorb(s, s.sm.flags)
      [] s.sm.at = "post"      -> CheckFin(WakeRx(s), s.sm.flags)
      [] s.sm.at = "finish"    -> CheckFin(s, s.sm.flags)
      [] s.sm.at = "closewait" -> Done(WakeTx(WakeOpen(WakeRx(s))))
      [] s.sm.at = "opened"    -> Done(WakeOpen(s))
      [] s.sm.at = "synacked"  -> SynAcked(s, s.sm.flags)
      [] s.sm.at = "finwait"   -> FinReceived(WakeRx(s), s.sm.flags)

-----------------------------------------------------------------------------
(* The network.                                                            *)

\* The segments of out travel to node e, or some of them are lost.
Travel(netTo, e, out) ==
    {n \in SUBSET (netTo \cup ToSet(out)) :
        netTo \subseteq n /\ (n = netTo \/ Cardinality(n) <= Capacity[e])}

\* Once the application has closed the socket it neither sends nor reads: the
\* fields only it looks at are cleared.
Forget(s) ==
    IF s.app = "closed"
    THEN [s EXCEPT !.win = 0, !.wl1 = 0, !.wl2 = 0, !.rxBuf = <<>>, !.rxCnt = 0]
    ELSE s

\* Socket s of node e is the result of the step, gone is taken off the network.
Step(e, s, gone) ==
    /\ sock' = [sock EXCEPT ![e] = Forget([s EXCEPT !.out = <<>>])]
    /\ \E n \in Travel(net[Peer(e)], Peer(e), s.out) :
          net' = [net EXCEPT ![Peer(e)] = n, ![e] = @ \ gone]

-----------------------------------------------------------------------------
(* NutTcpSm.                                                               *)

\* NutTcpFindSocket: a socket that is closed gets no segments.
Found(s) == s.state \notin {"CLOSED", "GONE"}

\* Node e takes a segment from the network, in any order.
Receive(e, g) ==
    /\ sock[e].sm = NIL
    /\ Found(sock[e])
    /\ sock[e].rxNxt <= MaxSeq
    /\ sock[e].state = "LISTEN" => sock[e].nxt < MaxSyn
    /\ \E more, keep \in BOOLEAN :
          /\ ~g.data => ~more /\ keep
          /\ Step(e, NutTcpStateProcess(sock[e], g, more, keep), {g})
    /\ UNCHANGED backlog

\* No socket is found: a SYN goes to the backlog, anything else is rejected.  A
\* second SYN kills the entry of the first.
ReceiveNoSocket(e, g) ==
    /\ sock[e].sm = NIL
    /\ ~Found(sock[e])
    /\ IF e = Passive /\ g.flags = {"SYN"} /\ backlog = NIL
       THEN backlog' = g /\ Step(e, sock[e], {g})
       ELSE /\ backlog' = IF e = Passive /\ g.flags = {"SYN"} THEN NIL ELSE backlog
            /\ Step(e, Rejected(sock[e], g), {g})

\* NutTcpBacklogTimer: the SYN has waited too long.
NutTcpBacklogTimer ==
    /\ backlog # NIL /\ sock[Passive].sm = NIL
    /\ Step(Passive, Rejected(sock[Passive], backlog), {})
    /\ backlog' = NIL

Continue(e) ==
    /\ sock[e].sm # NIL
    /\ Step(e, Continued(sock[e]), {})
    /\ UNCHANGED backlog

\* Timers are looked at when NutTcpSm is idle.
Timer(e, s) == sock[e].sm = NIL /\ Step(e, s, {}) /\ UNCHANGED backlog

LateAck(e) ==
    sock[e].ack /\ Timer(e, NutTcpOutput([sock[e] EXCEPT !.force = TRUE], "nothing"))

\* NutTcpStateRetranTimeout: the oldest segment is sent as it was.
Retransmit(e) ==
    /\ sock[e].nbq # <<>>
    /\ Timer(e, [sock[e] EXCEPT !.out = <<Head(sock[e].nbq)>>])

\* It gives up after TCP_RETRIES_MAX retries, or when NutIpOutput fails.
RetransmitFails(e) == sock[e].nbq # <<>> /\ Timer(e, NutTcpAbortSocket(sock[e]))

TimeWaitOver(e) ==
    sock[e].state \in {"TIME_WAIT", "FIN_WAIT_2"} /\ Timer(e, NutTcpDestroySocket(sock[e]))

\* The recovery from SYN floods.
SynTimeout(e) ==
    /\ sock[e].state = "SYN_RECEIVED"
    /\ Timer(e, [sock[e] EXCEPT !.state = "LISTEN"])

-----------------------------------------------------------------------------
(* The application.                                                        *)

App(e, s) == Step(e, s, {}) /\ UNCHANGED backlog

\* NutTcpConnect up to the output of the SYN.  If that fails the call fails,
\* otherwise it waits unless the answer is already there.
NutTcpConnect ==
    /\ sock[Active].app = "start"
    /\ LET s == NutTcpStateChange(sock[Active], "SYN_SENT")
       IN  \/ App(Active, [s EXCEPT !.app = "opening"])
           \/ App(Active, [s EXCEPT !.app = "failed", !.out = <<>>])

ConnectWait ==
    /\ sock[Active].app = "opening"
    /\ App(Active, [sock[Active] EXCEPT !.app = IF sock[Active].state = "SYN_SENT"
                                               THEN "ac" ELSE "user"])

\* NutTcpAccept waits for a connection, or takes the SYN from the backlog and
\* returns.
NutTcpAccept ==
    /\ sock[Passive].app = "start"
    /\ LET s == NutTcpStateChange(sock[Passive], "LISTEN")
       IN  Step(Passive,
                IF backlog = NIL THEN [s EXCEPT !.app = "pc"]
                ELSE [NutTcpStateListen(s, backlog) EXCEPT !.app = "user"], {})
    /\ backlog' = NIL

\* so_read_to is over.
AcceptTimeout ==
    /\ sock[Passive].app = "pc"
    /\ App(Passive, [sock[Passive] EXCEPT !.app = "user", !.state = "CLOSED"])

\* Seeded fault: what is on its way is not taken off the window.
WindowOpenAlways(s) == s.nxt - s.una < 4 /\ s.win >= 1

\* Four segments may be unacknowledged, and the peer must have room.
WindowOpen(s) == s.nxt - s.una < 4 /\ s.win - (s.nxt - s.una) >= 1

\* NutTcpSend of a byte.
NutTcpSend(e) ==
    /\ sock[e].app \in {"user", "txw"} /\ sock[e].nxt <= Bytes[e]
    /\ App(e, IF sock[e].state # "ESTABLISHED" THEN [sock[e] EXCEPT !.app = "user"]
              ELSE IF WindowOpen(sock[e])
              THEN NutTcpOutput([sock[e] EXCEPT !.app = "user", !.ack = TRUE], "DATA")
              ELSE [sock[e] EXCEPT !.app = "tx"])

\* NutTcpReceive has found data and copies the first n bytes.  In ESTABLISHED the
\* window is opened, which the peer is told when it exceeds a segment.
Copied(s, n) ==
    LET win == IF s.rxWin + n > WinSize THEN WinSize ELSE s.rxWin + n
        t   == [s EXCEPT !.read = @ \o SubSeq(s.rxBuf, 1, n), !.rxCnt = @ - n,
                         !.rxBuf = SubSeq(@, n + 1, Len(@)), !.app = "user"]
    IN  IF s.state # "ESTABLISHED" THEN t
        ELSE IF s.rxWin <= 1 /\ win > 1 THEN ForceAck([t EXCEPT !.rxWin = win])
        ELSE [t EXCEPT !.rxWin = win]

\* NutTcpReceive: reading from an empty list of buffers is a fault of the program.
NutTcpReceive(e) ==
    LET s == sock[e]
    IN  /\ Bytes[Peer(e)] > 0
        /\ s.app = "rxw" \/ (s.app = "user" /\ s.state \in {"ESTABLISHED", "CLOSE_WAIT"})
        /\ IF s.rxCnt = 0
           THEN App(e, [s EXCEPT !.app = IF s.state = "ESTABLISHED" THEN "rx" ELSE "user"])
           ELSE \E n \in 1 .. s.rxCnt :
                   App(e, IF n > Len(s.rxBuf) THEN [s EXCEPT !.app = "fault"]
                          ELSE Copied(s, n))

\* Seeded fault: a socket with nothing left to acknowledge is destroyed at once.
CloseIdle(e) ==
    LET s == [sock[e] EXCEPT !.app = "closed"]
    IN  /\ sock[e].app \in {"user", "failed"}
        /\ App(e, CASE s.state \in {"LISTEN", "SYN_SENT", "CLOSED"} \/ s.nbq = <<>> ->
                          NutTcpDestroySocket(s)
                    [] s.nbq # <<>> /\ s.state \in {"SYN_RECEIVED", "ESTABLISHED"} ->
                          NutTcpStateChange(s, "FIN_WAIT_1")
                    [] s.nbq # <<>> /\ s.state = "CLOSE_WAIT" ->
                          NutTcpStateChange(s, "LAST_ACK"))

\* NutTcpCloseSocket, after which the application has no socket.
NutTcpCloseSocket(e) ==
    LET s == [sock[e] EXCEPT !.app = "closed"]
    IN  /\ sock[e].app \in {"user", "failed"}
        /\ App(e, CASE s.state \in {"LISTEN", "SYN_SENT", "CLOSED"} -> NutTcpDestroySocket(s)
                    [] s.state \in {"SYN_RECEIVED", "ESTABLISHED"} ->
                          NutTcpStateChange(s, "FIN_WAIT_1")
                    [] s.state = "CLOSE_WAIT" -> NutTcpStateChange(s, "LAST_ACK"))

-----------------------------------------------------------------------------

SmStep(e) ==
    \/ Continue(e)
    \/ LateAck(e)
    \/ Retransmit(e) \/ RetransmitFails(e)
    \/ TimeWaitOver(e)
    \/ SynTimeout(e)

NetStep(e) == \E g \in net[e] : Receive(e, g) \/ ReceiveNoSocket(e, g)

AppStep(e) == NutTcpSend(e) \/ NutTcpReceive(e) \/ NutTcpCloseSocket(e)

Next ==
    \/ \E e \in Node : SmStep(e) \/ NetStep(e) \/ AppStep(e)
    \/ NutTcpConnect \/ ConnectWait
    \/ NutTcpAccept \/ AcceptTimeout
    \/ NutTcpBacklogTimer

Spec == Init /\ [][Next]_vars

\* NutTcpSm runs on when its output returns, and in each of its rounds it looks at the
\* timers: retries are limited, and so is the time a socket stays in TIME_WAIT and
\* FIN_WAIT_2.
GiveUp(e) == RetransmitFails(e) \/ TimeWaitOver(e)

FairSpec == Spec /\ \A e \in Node : WF_vars(Continue(e)) /\ SF_vars(GiveUp(e))

-----------------------------------------------------------------------------
(* Properties.                                                             *)

\* Types; what is acknowledged has been sent, and only SYNs wait in the backlog.
TypeOK ==
    /\ sock \in [Node -> Socket]
    /\ net \in [Node -> SUBSET Segment]
    /\ backlog \in Segment \cup {NIL}
    /\ \A e \in Node : sock[e].una <= sock[e].nxt /\ sock[e].out = <<>>
    /\ backlog = NIL \/ backlog.flags = {"SYN"}

InOrder(e) == \A i \in DOMAIN sock[e].read : sock[e].read[i] = sock[e].rxIsn + i

\* The comment at tcpsm.c:1118 says that NutTcpStateSynReceived rejects segments out of
\* sequence: the bytes an application reads are those the peer sent, in order, once.
StreamInOrder == \A e \in Node : InOrder(e)

\* The bytes are in order when NutTcpStateSynReceived took nothing out of sequence,
\* whatever the network does (NutTcpStateEstablished, NutTcpProcessAck and NutTcpReceive together).
StreamIntact == \A e \in Node : ~sock[e].skew => InOrder(e)

Open == {"ESTABLISHED", "CLOSE_WAIT"}

\* What a node takes for acknowledged, and has dropped from its transmission queue, has
\* arrived; what arrived the application has read or will find in the input buffer.
AckedIsKept ==
    \A e \in Node :
        LET s == sock[e]
        IN  s.state \in Open /\ ~s.skew
            => /\ sock[Peer(e)].una <= s.rxNxt
               /\ Len(s.read) + Len(s.rxBuf)
                     = s.rxNxt - s.rxIsn - (IF s.state = "CLOSE_WAIT" THEN 2 ELSE 1)

\* In CLOSE_WAIT everything the peer sent before it closed has arrived.
EofMeansAll ==
    \A e \in Node :
        LET p == sock[Peer(e)]
        IN  sock[e].state = "CLOSE_WAIT" /\ ~sock[e].skew
            => p.app = "closed" /\ (p.state \in ClosedByUs => p.nxt = sock[e].rxNxt)

\* The peer never has more on its way than the window has room for: the input buffer
\* and the segments received in advance together stay within it (NutTcpSend).
BufferBounded ==
    \A e \in Node : Len(sock[e].rxBuf) + Len(sock[e].adv) <= WinSize

\* An application waits only where NutTcpSm will still come by to wake it: nobody is
\* left in the queue of a socket that is closed, aborted or at the end of its input.
NobodyForgotten ==
    \A e \in Node :
        LET s == sock[e]
        IN  /\ s.app = "rx" => s.state = "ESTABLISHED" \/ s.sm # NIL
            /\ s.app = "tx" => s.state = "ESTABLISHED" \/ s.sm # NIL
            /\ s.app = "pc" => s.state \in {"LISTEN", "SYN_RECEIVED"} \/ s.sm # NIL
            /\ s.app = "ac" => s.state \in {"SYN_SENT", "SYN_RECEIVED"} \/ s.sm # NIL

\* No call of the application destroys a socket NutTcpSm works on, unless NutTcpAccept
\* has timed out and closed it before.
SmKeepsSocket ==
    [][\A e \in Node :
          sock[e].sm # NIL /\ sock[e].state \notin {"CLOSED", "GONE"}
          => sock'[e].state # "GONE"]_vars

\* A socket the application has closed is destroyed in the end, and NutTcpConnect
\* returns, whatever became of the peer (NutTcpStateRetranTimeout, NutTcpSm).  Neither
\* comes back, so it is enough that nothing is left over again and again.
ClosedSocketsGo ==
    []<>(/\ \A e \in Node : sock[e].app = "closed" => sock[e].state = "GONE"
         /\ sock[Active].app # "ac")

=============================================================================
