------------------------------- MODULE NutPpp -------------------------------
(***************************************************************************)
(* PPP: the automatons of LCP and IPCP, authentication with PAP, the       *)
(* retry thread NutPppSm, the receiver thread AhdlcRx and the application. *)
(* The peer is the environment: it may send any packet, or answer any      *)
(* request, at any time and as often as it likes, and may fall silent.     *)
(*                                                                         *)
(* An output waits while the transmit buffer is full, so another thread    *)
(* may run there.  What the calling code does afterwards is what the       *)
(* thread has left to do, in the sequence rest.                            *)
(***************************************************************************)
EXTENDS Naturals, Sequences

CONSTANT MaxRetries                 \* 9 in NutPppSm

ASSUME RetriesAssumption == MaxRetries \in Nat \ {0}

VARIABLES
    dcb,        \* PPPDCB, with what the functions below change besides it
    open,       \* the device is open (NutPppOpen)
    up,         \* AhdlcRx has signalled LCP_LOWERUP
    rest,       \* what the threads have left to do after an output
    tries,      \* the local variable retries of NutPppSm
    silent      \* the peer has fallen silent for good

vars == <<dcb, open, up, rest, tries, silent>>

PppState == {"INITIAL", "STARTING", "CLOSED", "STOPPED", "CLOSING",
             "STOPPING", "REQSENT", "ACKRCVD", "ACKSENT", "OPENED"}
Requesting == {"REQSENT", "ACKSENT"}
Terminating == {"CLOSING", "STOPPING"}
Negotiating == Requesting \cup {"ACKRCVD"}
Layer == {"lcp", "ipcp"}
PppThread == {"AhdlcRx", "NutPppSm", "app"}

\* memset in NutPppOpen.  dcb_reqid appears only as the set of the layers whose last
\* request carries it (current): an id in a packet is compared with nothing else.
\* icb is dev_icb of the HDLC device, conf the thread that calls NutNetIfConfig, early a
\* history: IPCP was up at the broadcast of that thread, and has been since.
NoDcb == [lcp |-> "INITIAL", ipcp |-> "INITIAL", auth |-> "INITIAL",
          acked |-> FALSE, retries |-> 0, current |-> {},
          state_chg |-> FALSE, icb |-> FALSE, conf |-> "idle", early |-> FALSE]

-----------------------------------------------------------------------------
(* What a function leaves: the device, and what the thread has to do after *)
(* the output it ends in.                                                  *)

Done(d) == [dcb |-> d, rest |-> <<>>]
Output(d, left) == [dcb |-> d, rest |-> left]

\* NutEventPost(&dcb_state_chg).  It also yields, but AhdlcRx is more urgent (priority 9)
\* than the other threads, and the application posts where its output is modelled.
PostStateChange(d) ==
    IF d.conf = "wait" THEN [d EXCEPT !.conf = "woken"]
                       ELSE [d EXCEPT !.state_chg = TRUE]

\* ++dcb_reqid.
NextId(d) == [d EXCEPT !.current = {}]

\* Without memory the request is not sent; the rest is the same, as if it were lost.
IpcpTxConfReq(d) == [d EXCEPT !.acked = FALSE, !.current = @ \cup {"ipcp"}]

LcpTxConfReq(d) ==
    [d EXCEPT !.acked = FALSE, !.retries = 0, !.current = @ \cup {"lcp"}]

TxConfReq(p, d) == IF p = "lcp" THEN LcpTxConfReq(d) ELSE IpcpTxConfReq(d)

\* A new request, after which the code sets the state.
Request(p, d) == Output(TxConfReq(p, NextId(d)), <<<<p, "reqsent">>>>)

\* PapTxAuthReq counts dcb_reqid itself, whether or not its caller has done so.
PapTxAuthReq(d, mem) ==
    IF mem THEN [d EXCEPT !.auth = "AUTHREQ", !.current = {}] ELSE d

-----------------------------------------------------------------------------
(* The events of the layer above and below (pppsm.c).                      *)

\* The layer above opens a layer that the one below has brought up, or not yet.
OpenEvent(p, d) ==
    CASE d[p] = "INITIAL" -> Done([d EXCEPT ![p] = "STARTING"])
      [] d[p] = "CLOSED"  -> Request(p, d)
      [] d[p] = "CLOSING" -> Done([d EXCEPT ![p] = "STOPPING"])
      [] OTHER            -> Done(d)

LcpOpen(d) == OpenEvent("lcp", d)

IpcpOpen(d) ==
    IF d.ipcp = "INITIAL" THEN LcpOpen([d EXCEPT !.ipcp = "STARTING"])
                          ELSE OpenEvent("ipcp", d)

LowerUp(p, d) ==
    CASE d[p] = "INITIAL"  -> Done([d EXCEPT ![p] = "CLOSED"])
      [] d[p] = "STARTING" -> Request(p, d)
      [] OTHER             -> Done(d)

LcpLowerUp(d) == LowerUp("lcp", d)
IpcpLowerUp(d) == LowerUp("ipcp", d)

IpcpLowerDown(d) ==
    CASE d.ipcp = "CLOSED"  -> [d EXCEPT !.ipcp = "INITIAL", !.icb = FALSE]
      [] d.ipcp = "CLOSING" -> [d EXCEPT !.ipcp = "INITIAL"]
      [] d.ipcp \in {"STOPPED", "STOPPING"} \cup Negotiating ->
             [d EXCEPT !.ipcp = "STARTING"]
      [] d.ipcp = "OPENED"  -> PostStateChange([d EXCEPT !.ipcp = "STARTING"])
      [] OTHER              -> d

LcpLowerDown(d) ==
    CASE d.lcp \in {"CLOSED", "CLOSING"} -> [d EXCEPT !.lcp = "INITIAL"]
      [] d.lcp \in {"STOPPED", "STOPPING"} \cup Negotiating ->
             [d EXCEPT !.lcp = "STARTING"]
      [] d.lcp = "OPENED" -> [IpcpLowerDown(d) EXCEPT !.lcp = "STARTING"]
      [] OTHER -> d

\* A close before the layer is up, or after it has stopped.
CloseIdle(p, d) ==
    CASE d[p] = "STARTING" -> [d EXCEPT ![p] = "INITIAL"]
      [] d[p] = "STOPPED"  -> [d EXCEPT ![p] = "CLOSED"]
      [] d[p] = "STOPPING" -> [d EXCEPT ![p] = "CLOSING"]
      [] OTHER             -> d

\* Seeded fault: the network layer is not told.
LcpCloseSilently(d) ==
    IF d.lcp \in Negotiating \cup {"OPENED"}
      THEN Output([d EXCEPT !.lcp = "CLOSING"], <<>>)
      ELSE Done(CloseIdle("lcp", d))

\* LCP changes its state before it sends the request, IPCP afterwards.
LcpClose(d) ==
    IF d.lcp \in Negotiating \cup {"OPENED"}
      THEN Output(IpcpLowerDown([d EXCEPT !.lcp = "CLOSING"]), <<>>)
      ELSE Done(CloseIdle("lcp", d))

IpcpClose(d) ==
    IF d.ipcp \in Negotiating \cup {"OPENED"}
      THEN Output(d, <<<<"ipcp", "closing">>>>)
      ELSE Done(CloseIdle("ipcp", d))

-----------------------------------------------------------------------------
(* Packets from the peer (lcpin.c, ipcpin.c, papin.c).  good: the options  *)
(* of a request are accepted; the id of an answer is dcb_reqid, and the    *)
(* options of an acknowledgement are those of the request.                 *)

\* Seeded fault: IPCP comes up unnoticed.
AnsweredQuietly(p, d, good, mem) ==
    CASE good /\ d[p] = "ACKRCVD" /\ p = "lcp" ->
             PapTxAuthReq(NextId([d EXCEPT !.lcp = "OPENED"]), mem)
      [] d[p] = "ACKRCVD" /\ p = "ipcp" -> IF good THEN [d EXCEPT ![p] = "OPENED"] ELSE d
      [] ~good /\ d[p] = "ACKRCVD" /\ p = "lcp" -> d
      [] OTHER -> [d EXCEPT ![p] = IF good THEN "ACKSENT" ELSE "REQSENT"]

\* After the answer to a request.  The state is the one found now.
Answered(p, d, good, mem) ==
    CASE good /\ d[p] = "ACKRCVD" /\ p = "lcp" ->
             PapTxAuthReq(NextId([d EXCEPT !.lcp = "OPENED"]), mem)
      [] good /\ d[p] = "ACKRCVD" /\ p = "ipcp" ->
             PostStateChange([d EXCEPT !.ipcp = "OPENED"])
      [] good /\ d[p] # "ACKRCVD"  -> [d EXCEPT ![p] = "ACKSENT"]
      [] ~good /\ d[p] # "ACKRCVD" -> [d EXCEPT ![p] = "REQSENT"]
      [] OTHER -> d

RxConfReq(p, d, good) ==
    LET answer == <<<<p, IF good THEN "acknowledged" ELSE "refused">>>>
        again  == Request(p, d)
    IN  CASE d[p] = "CLOSED" -> Output(d, <<>>)
          [] d[p] \in Terminating -> Done(d)
          [] d[p] = "OPENED" ->
                 Output(TxConfReq(p, NextId(IpcpLowerDown(d))), answer)
          [] d[p] = "STOPPED" -> Output(again.dcb, again.rest \o answer)
          [] OTHER -> Output(d, answer)

LcpRxConfReq(d, good) == RxConfReq("lcp", d, good)
IpcpRxConfReq(d, good) == RxConfReq("ipcp", d, good)

\* Once a request is acknowledged, every further acknowledgement passes.
LcpRxConfAck(d, good, mem) ==
    LET a == [d EXCEPT !.acked = TRUE]
    IN  IF ~good /\ ~d.acked THEN Done(d) ELSE
        CASE d.lcp = "REQSENT"  ->
                 Done([a EXCEPT !.lcp = "ACKRCVD", !.retries = 0])
          [] d.lcp = "ACKRCVD"  -> Request("lcp", a)
          [] d.lcp = "ACKSENT"  ->
                 Output(PapTxAuthReq(NextId([a EXCEPT !.lcp = "OPENED"]), mem), <<>>)
          [] d.lcp = "OPENED"   -> Request("lcp", IpcpLowerDown(a))
          [] OTHER              -> Output(a, <<>>)

\* dcb_acked is set last, here also after a new request.
IpcpRxConfAck(d, good) ==
    LET end == <<<<"ipcp", "reqsent">>, <<"ipcp", "acked">>>>
    IN  IF ~good \/ d.acked THEN Done(d) ELSE
        CASE d.ipcp = "REQSENT" ->
                 Done([d EXCEPT !.ipcp = "ACKRCVD", !.retries = 0, !.acked = TRUE])
          [] d.ipcp = "ACKRCVD" -> Output(IpcpTxConfReq(NextId(d)), end)
          [] d.ipcp = "ACKSENT" ->
                 Done(PostStateChange([d EXCEPT !.ipcp = "OPENED", !.retries = 0,
                                                !.acked = TRUE]))
          [] d.ipcp = "OPENED" -> Output(IpcpTxConfReq(NextId(IpcpLowerDown(d))), end)
          [] d.ipcp \in Terminating -> Done([d EXCEPT !.acked = TRUE])
          [] OTHER -> Output(d, <<>>)

\* The peer wants another request.
RequestAgain(p, d) ==
    CASE d[p] \in Requesting -> Output(TxConfReq(p, NextId(d)), <<>>)
      [] d[p] = "ACKRCVD"    -> Request(p, d)
      [] d[p] = "OPENED"     -> Request(p, IpcpLowerDown(d))
      [] OTHER               -> Output(d, <<>>)

LcpRxConfNakRej(d, good) ==
    IF ~good \/ d.acked THEN Done(d)
                        ELSE RequestAgain("lcp", [d EXCEPT !.acked = TRUE])

IpcpRxConfNakRej(d, good) ==
    IF ~good \/ d.acked THEN Done(d)
    ELSE IF d.ipcp \in Negotiating \cup {"OPENED"}
           THEN RequestAgain("ipcp", [d EXCEPT !.acked = TRUE])
           ELSE Output(d, <<>>)

RxTermReq(p, d) ==
    CASE d[p] \in {"ACKRCVD", "ACKSENT"} -> Output([d EXCEPT ![p] = "REQSENT"], <<>>)
      [] d[p] = "OPENED" -> Output([IpcpLowerDown(d) EXCEPT ![p] = "STOPPING"], <<>>)
      [] OTHER -> Output(d, <<>>)

LcpRxTermReq(d) == RxTermReq("lcp", d)
IpcpRxTermReq(d) == RxTermReq("ipcp", d)

\* In OPENED the request is sent, but the state stays what it is.
RxTermAck(p, d) ==
    CASE d[p] = "CLOSING"  -> Done([d EXCEPT ![p] = "CLOSED"])
      [] d[p] = "STOPPING" -> Done([d EXCEPT ![p] = "STOPPED"])
      [] d[p] = "ACKRCVD"  -> Done([d EXCEPT ![p] = "REQSENT"])
      [] d[p] = "OPENED"   -> Output(TxConfReq(p, NextId(IpcpLowerDown(d))), <<>>)
      [] OTHER             -> Done(d)

LcpRxTermAck(d) == RxTermAck("lcp", d)
IpcpRxTermAck(d) == RxTermAck("ipcp", d)

RxCodeRej(p, d) ==
    Done(IF d[p] = "ACKRCVD" THEN [d EXCEPT ![p] = "REQSENT"] ELSE d)

LcpRxCodeRej(d) == RxCodeRej("lcp", d)
IpcpRxCodeRej(d) == RxCodeRej("ipcp", d)

PapRxAuthAck(d) ==
    IF d.auth = "AUTHREQ" THEN IpcpLowerUp([d EXCEPT !.auth = "OPEN"]) ELSE Done(d)

PapRxAuthNak(d) ==
    Done(IF d.auth = "AUTHREQ" THEN IpcpLowerDown([d EXCEPT !.auth = "BADAUTH"])
                               ELSE d)

Code == {"CONFREQ", "CONFACK", "CONFNAK", "TERMREQ", "TERMACK", "CODEREJ"}

NutLcpInput(d, code, good, mem) ==
    IF d.lcp \in {"INITIAL", "STARTING"} THEN Done(d) ELSE
    CASE code = "CONFREQ" -> LcpRxConfReq(d, good)
      [] code = "CONFACK" -> LcpRxConfAck(d, good, mem)
      [] code = "CONFNAK" -> LcpRxConfNakRej(d, good)
      [] code = "TERMREQ" -> LcpRxTermReq(d)
      [] code = "TERMACK" -> LcpRxTermAck(d)
      [] OTHER            -> LcpRxCodeRej(d)

NutIpcpInput(d, code, good) ==
    IF d.ipcp \in {"INITIAL", "STARTING"} THEN Done(d) ELSE
    CASE code = "CONFREQ" -> IpcpRxConfReq(d, good)
      [] code = "CONFACK" -> IpcpRxConfAck(d, good)
      [] code = "CONFNAK" -> IpcpRxConfNakRej(d, good)
      [] code = "TERMREQ" -> IpcpRxTermReq(d)
      [] code = "TERMACK" -> IpcpRxTermAck(d)
      [] OTHER            -> IpcpRxCodeRej(d)

NutPapInput(d, code) ==
    CASE code = "CONFACK" -> PapRxAuthAck(d)
      [] code = "CONFNAK" -> PapRxAuthNak(d)
      [] OTHER            -> Done(d)

-----------------------------------------------------------------------------
(* A round of NutPppSm: three parts with the same local copy n of          *)
(* dcb_retries.  A part that sends counts after its output, so that the    *)
(* reset in LcpTxConfReq does not last.                                    *)

Timed(p, d) == d[p] \in Requesting \cup Terminating \cup {"AUTHREQ"}

Exhausted(p, d) ==
    CASE p = "auth" -> [d EXCEPT !.lcp = "STOPPED"]
      [] d[p] = "CLOSING" -> [d EXCEPT ![p] = "CLOSED"]
      [] OTHER -> [d EXCEPT ![p] = "STOPPED"]

Resent(p, d, mem) ==
    CASE p = "auth" -> PapTxAuthReq(d, mem)
      [] d[p] \in Terminating -> d
      [] OTHER -> TxConfReq(p, d)

\* The part of p.  The first round only counts.
Timeout(p, d, n, mem) ==
    IF ~Timed(p, d) THEN Done(d) ELSE
    CASE n >= MaxRetries -> Done(Exhausted(p, d))
      [] n = 0           -> Done([d EXCEPT !.retries = 1])
      [] OTHER           -> Output(Resent(p, d, mem), <<<<p, "resent">>>>)

\* The round from the part of a layer on, up to the next output.
SmIpcp(d, n, mem) == Timeout("ipcp", d, n, mem)
SmAuth(d, n, mem) ==
    LET r == Timeout("auth", d, n, mem)
    IN  IF r.rest # <<>> THEN r ELSE SmIpcp(r.dcb, n, mem)
SmLcp(d, n, mem) ==
    LET r == Timeout("lcp", d, n, mem)
    IN  IF r.rest # <<>> THEN r ELSE SmAuth(r.dcb, n, mem)

\* Seeded fault: counts on from the counter, which LcpTxConfReq has reset.
AfterResendCounting(p, d, n, mem) ==
    LET c == [d EXCEPT !.retries = @ + 1]
    IN  CASE p = "lcp"  -> SmAuth(c, n, mem)
          [] p = "auth" -> SmIpcp(c, n, mem)
          [] OTHER      -> Done(c)

\* The rest of the round after the output of part p.
AfterResend(p, d, n, mem) ==
    LET c == [d EXCEPT !.retries = n + 1]
    IN  CASE p = "lcp"  -> SmAuth(c, n, mem)
          [] p = "auth" -> SmIpcp(c, n, mem)
          [] OTHER      -> Done(c)

-----------------------------------------------------------------------------
(* Steps.                                                                  *)

Init ==
    /\ dcb = NoDcb
    /\ open = FALSE
    /\ up = FALSE
    /\ rest = [t \in PppThread |-> <<>>]
    /\ tries = 0
    /\ silent = FALSE

\* What is left of the history after a step.
Since(d) == [d EXCEPT !.early = @ /\ d.ipcp = "OPENED"]

Run(t, result) ==
    /\ dcb' = Since(result.dcb)
    /\ rest' = [rest EXCEPT ![t] = result.rest \o
                    IF rest[t] = <<>> THEN <<>> ELSE Tail(rest[t])]

\* The output of thread t returns.
Resumed(what, mem) ==
    LET p == what[1]
    IN  CASE what[2] = "reqsent"      -> Done([dcb EXCEPT ![p] = "REQSENT"])
          [] what[2] = "closing"      ->
                 Done(PostStateChange([dcb EXCEPT !.ipcp = "CLOSING"]))
          [] what[2] = "acked"        -> Done([dcb EXCEPT !.acked = TRUE])
          [] what[2] = "acknowledged" -> Done(Answered(p, dcb, TRUE, mem))
          [] what[2] = "refused"      -> Done(Answered(p, dcb, FALSE, mem))
          [] what[2] = "resent"       -> AfterResend(p, dcb, tries, mem)

Continue(t) ==
    /\ rest[t] # <<>>
    /\ \E mem \in BOOLEAN : Run(t, Resumed(Head(rest[t]), mem))
    /\ UNCHANGED <<open, up, tries, silent>>

\* NutPppSm after its sleep.
NutPppSm ==
    /\ rest["NutPppSm"] = <<>>
    /\ tries' = dcb.retries
    /\ \E mem \in BOOLEAN : Run("NutPppSm", SmLcp(dcb, dcb.retries, mem))
    /\ UNCHANGED <<open, up, silent>>

\* AhdlcRx: the interface has been attached, or detached.
AhdlcRx ==
    /\ rest["AhdlcRx"] = <<>>
    /\ up # dcb.icb
    /\ up' = dcb.icb
    /\ Run("AhdlcRx", IF up' THEN LcpLowerUp(dcb) ELSE Done(LcpLowerDown(dcb)))
    /\ UNCHANGED <<open, tries, silent>>

\* Nobody answers a request before it has left: AhdlcRx itself is in no output here,
\* and NutPppSm only sends again.
Answerable(p) == p \in dcb.current /\ <<<<p, "reqsent">>>> # rest["app"]

\* A frame arrives.
NutPppInput ==
    /\ rest["AhdlcRx"] = <<>> /\ up /\ dcb.icb /\ ~silent
    /\ \E code \in Code, good, mem \in BOOLEAN :
          \/ /\ code \in {"CONFACK", "CONFNAK"} /\ good => Answerable("lcp")
             /\ Run("AhdlcRx", NutLcpInput(dcb, code, good, mem))
          \/ /\ dcb.lcp = "OPENED"
             /\ Run("AhdlcRx", NutPapInput(dcb, code))
          \/ /\ dcb.lcp = "OPENED" /\ dcb.auth = "OPEN"
             /\ code \in {"CONFACK", "CONFNAK"} /\ good => Answerable("ipcp")
             /\ Run("AhdlcRx", NutIpcpInput(dcb, code, good))
    /\ UNCHANGED <<open, up, tries, silent>>

PeerFallsSilent == ~silent /\ silent' = TRUE /\ UNCHANGED <<dcb, open, up, rest, tries>>

-----------------------------------------------------------------------------
(* The application: one thread opens, closes and controls the device,      *)
(* another one configures the interface.                                   *)

\* The control block is cleared first, with the root another thread would wait at
\* (conf = "idle" excludes that); opening the physical device may then fail.
NutPppOpen ==
    /\ ~open /\ rest["app"] = <<>> /\ dcb.conf = "idle"
    /\ open' \in BOOLEAN
    /\ LET d == [NoDcb EXCEPT !.icb = dcb.icb]
       IN  Run("app", IF open' THEN IpcpOpen(d) ELSE Done(d))
    /\ UNCHANGED <<up, tries, silent>>

NutPppClose ==
    /\ open /\ rest["app"] = <<>>
    /\ open' = FALSE
    /\ Run("app", IpcpClose(dcb))
    /\ UNCHANGED <<up, tries, silent>>

\* LCP_OPEN, LCP_CLOSE, and HDLC_SETIFNET without an interface.
NutPppIOCtl ==
    /\ open /\ rest["app"] = <<>>
    /\ \/ Run("app", LcpOpen(dcb))
       \/ Run("app", LcpClose(dcb))
       \/ Run("app", Done([dcb EXCEPT !.icb = FALSE]))
    /\ UNCHANGED <<open, up, tries, silent>>

\* The broadcast, the attachment, the wait and its end: each releases the CPU.
Configure(from, d) ==
    /\ dcb.conf \in from
    /\ dcb' = d
    /\ UNCHANGED <<open, up, rest, tries, silent>>

\* NutEventWait: an event posted since the broadcast ends the wait at once.
Waiting(d) ==
    IF d.state_chg THEN [d EXCEPT !.state_chg = FALSE, !.conf = "woken"]
                   ELSE [d EXCEPT !.conf = "wait"]

Returned(d) == [d EXCEPT !.conf = "idle", !.early = FALSE]

\* Seeded fault: the interface is attached first, and an event of then is cleared.
NutNetIfConfigAttachedFirst ==
    \/ open /\ Configure({"idle"}, [dcb EXCEPT !.icb = TRUE, !.conf = "cleared",
                                              !.early = dcb.ipcp = "OPENED"])
    \/ Configure({"cleared"}, [dcb EXCEPT !.state_chg = FALSE, !.conf = "attached"])
    \/ Configure({"attached"}, Waiting(dcb))
    \/ Configure({"wait", "woken"}, Returned(dcb))

NutNetIfConfig ==
    \/ open /\ Configure({"idle"}, [dcb EXCEPT !.state_chg = FALSE, !.conf = "cleared",
                                              !.early = dcb.ipcp = "OPENED"])
    \/ Configure({"cleared"}, [dcb EXCEPT !.icb = TRUE, !.conf = "attached"])
    \/ Configure({"attached"}, Waiting(dcb))
    \/ Configure({"wait", "woken"}, Returned(dcb))

Next ==
    \/ \E t \in PppThread : Continue(t)
    \/ NutPppSm
    \/ AhdlcRx
    \/ NutPppInput
    \/ PeerFallsSilent
    \/ NutPppOpen
    \/ NutPppClose
    \/ NutPppIOCtl
    \/ NutNetIfConfig

Spec == Init /\ [][Next]_vars

FairSpec ==
    /\ Spec
    /\ \A t \in PppThread : WF_vars(Continue(t))
    /\ WF_vars(NutPppSm)

-----------------------------------------------------------------------------
Dcb == [lcp : PppState, ipcp : PppState,
        auth : {"INITIAL", "AUTHREQ", "OPEN", "BADAUTH"},
        acked : BOOLEAN, retries : 0 .. MaxRetries, current : SUBSET Layer,
        state_chg : BOOLEAN, icb : BOOLEAN,
        conf : {"idle", "cleared", "attached", "wait", "woken"}, early : BOOLEAN]

\* The states exist; no counter passes the number of retries.
TypeOK ==
    /\ dcb \in Dcb
    /\ open \in BOOLEAN /\ up \in BOOLEAN /\ silent \in BOOLEAN
    /\ tries \in 0 .. MaxRetries

\* Datagrams pass (NutPppInput) only over a link that is open and authenticated,
\* although handlers set states after outputs in which another thread has changed them.
OpenMeansOpen == dcb.ipcp = "OPENED" => dcb.lcp = "OPENED" /\ dcb.auth = "OPEN"

\* A thread does not wait in NutNetIfConfig for a layer that is up, whether it came up
\* between the broadcast and the wait or in the wait.  Only where IPCP was up before the
\* broadcast and has stayed so is there no event to come, and the 60 seconds pass.
NobodyWaitsInVain == dcb.conf = "wait" /\ dcb.ipcp = "OPENED" => dcb.early

\* No layer expects an answer.
Settled ==
    /\ dcb.lcp \notin Requesting \cup Terminating
    /\ dcb.lcp = "OPENED" =>
          dcb.auth # "AUTHREQ" /\ dcb.ipcp \notin Requesting \cup Terminating

\* With a peer that answers no more, every attempt to open, to authenticate or to
\* terminate ends, though the three parts of NutPppSm share one counter, which new
\* requests reset.
GivesUp == silent ~> Settled

=============================================================================
