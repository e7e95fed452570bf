---------------------------- MODULE NutPppProofs ----------------------------
(***************************************************************************)
(* A PPP link is up only over an open and authenticated one, whatever the  *)
(* peer sends, wherever the threads wait for an output, and for any number *)
(* of retries.                                                             *)
(***************************************************************************)
EXTENDS NutPpp, SequenceTheorems, TLAPS

\* An acknowledged layer needs only the request of its peer to be open.
Up == {"ACKRCVD", "OPENED"}
Down == {"INITIAL", "CLOSED"}
PapState == {"INITIAL", "AUTHREQ", "OPEN", "BADAUTH"}

\* What the receiver, the application and NutPppSm may have left to do.
RxReqsent(p) == <<<<p, "reqsent">>>>
RxAck == <<<<"ipcp", "acked">>>>
RxReqAck == <<<<"ipcp", "reqsent">>, <<"ipcp", "acked">>>>
RxOne(p) == {<<<<p, "acknowledged">>>>, <<<<p, "refused">>>>}
RxTwo(p) == {<<<<p, "reqsent">>, <<p, "acknowledged">>>>, <<<<p, "reqsent">>, <<p, "refused">>>>}
RxLayer(p) == {RxReqsent(p)} \cup RxOne(p) \cup RxTwo(p)
RxAcked == {RxAck, RxReqAck}
RxRest == {<<>>} \cup RxLayer("lcp") \cup RxLayer("ipcp") \cup RxAcked
LcpReqsent == <<<<"lcp", "reqsent">>>>
Closing == <<<<"ipcp", "closing">>>>
AppRest == {<<>>, LcpReqsent, Closing}
SmRest == {<<>>, <<<<"lcp", "resent">>>>, <<<<"auth", "resent">>>>, <<<<"ipcp", "resent">>>>}

\* The invariant asks for the link as soon as IPCP is acknowledged, since an answer that
\* is on its way will open it without looking.
OpenOK(d) == d.ipcp \in Up => d.lcp = "OPENED" /\ d.auth = "OPEN"

\* The configuring thread waits, or will wait, without an event, though the layer was not
\* up at its broadcast, or has not been since: then the layer must not be up.
Unheard(d) ==
    /\ ~d.early
    /\ d.conf = "wait" \/ (d.conf \in {"cleared", "attached"} /\ ~d.state_chg)

WaitOK(d) == Unheard(d) => d.ipcp # "OPENED"

\* What the receiver still has to do to LCP it does with IPCP down, and it will not note an
\* acknowledgement while PAP waits for its answer.  While the application sends a request of
\* LCP nobody has acknowledged it, or LCP has gone down meanwhile.
RxOK(d, rx, app) ==
    /\ rx \in RxLayer("lcp") => d.ipcp \notin Up
    /\ rx \in RxAcked => d.auth # "AUTHREQ"
    /\ app = LcpReqsent =>
          /\ d.lcp \notin Up
          /\ rx \in RxAcked \/ d.acked =>
                d.lcp \in Down /\ d.auth # "AUTHREQ" /\ rx \notin RxLayer("lcp")

\* All that is said of the device, with what these two threads have left.
Good(d, rx, app) == d \in Dcb /\ OpenOK(d) /\ WaitOK(d) /\ RxOK(d, rx, app)

RestOK ==
    /\ rest = [t \in PppThread |-> rest[t]]
    /\ rest["AhdlcRx"] \in RxRest
    /\ rest["app"] \in AppRest
    /\ rest["NutPppSm"] \in SmRest

IInv ==
    /\ open \in BOOLEAN /\ up \in BOOLEAN /\ silent \in BOOLEAN
    /\ tries \in 0 .. MaxRetries
    /\ RestOK
    /\ rest["NutPppSm"] # <<>> => tries < MaxRetries
    /\ Good(dcb, rest["AhdlcRx"], rest["app"])

-----------------------------------------------------------------------------
(* The device after an assignment to one of its members.                   *)

LEMMA SetLayer ==
    ASSUME NEW d \in Dcb, NEW p \in Layer, NEW v \in PppState
    PROVE  LET e == [d EXCEPT ![p] = v]
           IN  /\ e \in Dcb
               /\ e.lcp = (IF p = "lcp" THEN v ELSE d.lcp)
               /\ e.ipcp = (IF p = "ipcp" THEN v ELSE d.ipcp)
               /\ e.auth = d.auth /\ e.acked = d.acked /\ (Unheard(e) => Unheard(d))
<1>1. CASE p = "lcp"
  BY <1>1 DEF Dcb, Unheard
<1>2. CASE p = "ipcp"
  BY <1>2 DEF Dcb, Unheard
<1> QED BY <1>1, <1>2 DEF Layer

LEMMA SetAuth ==
    ASSUME NEW d \in Dcb, NEW v \in PapState
    PROVE  LET e == [d EXCEPT !.auth = v]
           IN  /\ e \in Dcb /\ e.auth = v
               /\ e.lcp = d.lcp /\ e.ipcp = d.ipcp /\ e.acked = d.acked
               /\ (Unheard(e) => Unheard(d))
  BY DEF Dcb, PapState, Unheard

LEMMA SetAcked ==
    ASSUME NEW d \in Dcb, NEW v \in BOOLEAN
    PROVE  LET e == [d EXCEPT !.acked = v]
           IN  /\ e \in Dcb /\ e.acked = v
               /\ e.lcp = d.lcp /\ e.ipcp = d.ipcp /\ e.auth = d.auth
               /\ (Unheard(e) => Unheard(d))
  BY DEF Dcb, Unheard

\* The members that no invariant speaks of.
Alike(d, e) ==
    /\ e \in Dcb
    /\ e.lcp = d.lcp /\ e.ipcp = d.ipcp /\ e.auth = d.auth
    /\ e.acked = d.acked /\ (Unheard(e) => Unheard(d))

LEMMA SetRetries ==
    ASSUME NEW d \in Dcb, NEW v \in 0 .. MaxRetries
    PROVE  Alike(d, [d EXCEPT !.retries = v])
  BY DEF Dcb, Alike, Unheard

LEMMA SetCurrent ==
    ASSUME NEW d \in Dcb, NEW v \in SUBSET Layer
    PROVE  Alike(d, [d EXCEPT !.current = v])
  BY DEF Dcb, Alike, Unheard

LEMMA SetIcb ==
    ASSUME NEW d \in Dcb, NEW v \in BOOLEAN
    PROVE  Alike(d, [d EXCEPT !.icb = v])
  BY DEF Dcb, Alike, Unheard

-----------------------------------------------------------------------------
(* The device after the pieces of a handler.                               *)

LEMMA PostOK ==
    ASSUME NEW d \in Dcb, NEW e, e = PostStateChange(d)
    PROVE  /\ e \in Dcb /\ ~Unheard(e)
           /\ e.lcp = d.lcp /\ e.ipcp = d.ipcp /\ e.auth = d.auth
           /\ e.acked = d.acked
  BY DEF PostStateChange, Dcb, Unheard

LEMMA NextIdOK ==
    ASSUME NEW d \in Dcb
    PROVE  Alike(d, NextId(d))
  BY SetCurrent DEF NextId

LEMMA TxConfReqOK ==
    ASSUME NEW d \in Dcb, NEW p \in Layer, NEW e, e = TxConfReq(p, d)
    PROVE  /\ e \in Dcb /\ ~e.acked
           /\ e.lcp = d.lcp /\ e.ipcp = d.ipcp /\ e.auth = d.auth /\ (Unheard(e) => Unheard(d))
<1> DEFINE a == [d EXCEPT !.acked = FALSE]
<1>1. /\ a \in Dcb /\ ~a.acked /\ a.current = d.current
      /\ a.lcp = d.lcp /\ a.ipcp = d.ipcp /\ a.auth = d.auth /\ (Unheard(a) => Unheard(d))
  BY DEF Dcb, Unheard
<1>2. d.current \cup {p} \in SUBSET Layer
  BY DEF Dcb
<1>3. CASE p = "lcp"
  <2> DEFINE b == [a EXCEPT !.retries = 0]
  <2>1. e = [b EXCEPT !.current = d.current \cup {p}]
    BY <1>3 DEF TxConfReq, LcpTxConfReq, Dcb
  <2>2. Alike(a, b)
    <3>1. 0 \in 0 .. MaxRetries
      BY RetriesAssumption
    <3> QED BY <1>1, <3>1, SetRetries
  <2>3. Alike(b, [b EXCEPT !.current = d.current \cup {p}])
    BY <1>2, <2>2, SetCurrent DEF Alike
  <2> HIDE DEF a, b
  <2> QED BY <1>1, <2>1, <2>2, <2>3 DEF Alike
<1>4. CASE p = "ipcp"
  <2>1. e = [a EXCEPT !.current = d.current \cup {p}]
    BY <1>4 DEF TxConfReq, IpcpTxConfReq, Dcb
  <2>2. Alike(a, [a EXCEPT !.current = d.current \cup {p}])
    BY <1>1, <1>2, SetCurrent
  <2> HIDE DEF a
  <2> QED BY <1>1, <2>1, <2>2 DEF Alike
<1> QED BY <1>3, <1>4 DEF Layer

LEMMA PapTxAuthReqOK ==
    ASSUME NEW d \in Dcb, NEW mem \in BOOLEAN, NEW e, e = PapTxAuthReq(d, mem)
    PROVE  /\ e \in Dcb /\ e.auth \in {d.auth, "AUTHREQ"}
           /\ e.lcp = d.lcp /\ e.ipcp = d.ipcp /\ (Unheard(e) => Unheard(d))
           /\ e.acked = d.acked
  BY DEF PapTxAuthReq, Dcb, Unheard

LEMMA IpcpLowerDownOK ==
    ASSUME NEW d \in Dcb, NEW e, e = IpcpLowerDown(d)
    PROVE  /\ e \in Dcb /\ e.ipcp \notin Up
           /\ e.lcp = d.lcp /\ e.auth = d.auth
           /\ e.acked = d.acked
<1> DEFINE down == [d EXCEPT !.ipcp = "STARTING"]
<1>1. /\ down \in Dcb /\ down.ipcp = "STARTING" /\ down.lcp = d.lcp /\ down.auth = d.auth
      /\ down.acked = d.acked
  BY DEF Dcb, PppState
<1>2. d.ipcp \in PppState /\ {"INITIAL", "STARTING"} \cap Up = {}
  BY DEF Dcb, PppState, Up
<1>3. CASE d.ipcp = "CLOSED"
  <2>1. e = [d EXCEPT !.ipcp = "INITIAL", !.icb = FALSE]
    BY <1>3 DEF IpcpLowerDown, Negotiating, Requesting
  <2>2. e.ipcp = "INITIAL" /\ e.lcp = d.lcp /\ e.auth = d.auth /\ e.acked = d.acked
    BY <2>1 DEF Dcb
  <2>3. e \in Dcb
    BY <2>1 DEF Dcb, PppState
  <2> QED BY <1>2, <2>2, <2>3
<1>4. CASE d.ipcp = "CLOSING"
  <2>1. e = [d EXCEPT !.ipcp = "INITIAL"]
    BY <1>4 DEF IpcpLowerDown, Negotiating, Requesting
  <2> QED BY <1>2, <2>1 DEF Dcb, PppState
<1>5. CASE d.ipcp \in {"STOPPED", "STOPPING"} \cup Negotiating
  <2>1. e = down
    BY <1>5 DEF IpcpLowerDown, Negotiating, Requesting
  <2> QED BY <1>1, <1>2, <2>1
<1>6. CASE d.ipcp = "OPENED"
  <2>1. e = PostStateChange(down)
    BY <1>6 DEF IpcpLowerDown, Negotiating, Requesting
  <2> HIDE DEF down
  <2> QED BY <1>1, <1>2, <2>1, PostOK
<1>7. CASE d.ipcp \in {"INITIAL", "STARTING"}
  <2>1. e = d
    BY <1>7 DEF IpcpLowerDown, Negotiating, Requesting
  <2> QED BY <1>2, <1>7, <2>1
<1>8. d.ipcp \in {"CLOSED", "CLOSING", "OPENED", "INITIAL", "STARTING", "STOPPED", "STOPPING"}
        \cup Negotiating
  BY <1>2 DEF PppState, Negotiating, Requesting
<1> QED BY <1>3, <1>4, <1>5, <1>6, <1>7, <1>8

-----------------------------------------------------------------------------
(* What is left to do.                                                     *)

LEMMA RxApart ==
    /\ \A rx \in RxAcked : rx \notin RxLayer("lcp") /\ rx \notin RxLayer("ipcp")
    /\ \A rx \in RxLayer("ipcp") : rx \notin RxLayer("lcp")
    /\ <<>> \notin RxLayer("lcp") \cup RxLayer("ipcp") \cup RxAcked
    /\ LcpReqsent # <<>> /\ Closing # <<>> /\ Closing # LcpReqsent
  BY DEF RxAcked, RxAck, RxReqAck, RxLayer, RxReqsent, RxOne, RxTwo, LcpReqsent, Closing

LEMMA GoodAlike ==
    ASSUME NEW d, NEW e, NEW rx, NEW app, Good(d, rx, app), Alike(d, e)
    PROVE  Good(e, rx, app)
  BY DEF Good, Alike, OpenOK, WaitOK, RxOK

LEMMA GoodPost ==
    ASSUME NEW d \in Dcb, NEW rx, NEW app, OpenOK(d), RxOK(d, rx, app)
    PROVE  Good(PostStateChange(d), rx, app)
<1> DEFINE e == PostStateChange(d)
<1>1. /\ e \in Dcb /\ ~Unheard(e)
      /\ e.lcp = d.lcp /\ e.ipcp = d.ipcp /\ e.auth = d.auth
      /\ e.acked = d.acked
  BY PostOK
<1> HIDE DEF e
<1> QED BY <1>1 DEF Good, OpenOK, WaitOK, RxOK, e

\* The history of the configuring thread after a step.
LEMMA GoodSince ==
    ASSUME NEW d, NEW rx, NEW app, Good(d, rx, app)
    PROVE  Good(Since(d), rx, app)
<1> DEFINE e == Since(d)
<1>1. /\ e \in Dcb
      /\ e.lcp = d.lcp /\ e.ipcp = d.ipcp /\ e.auth = d.auth /\ e.acked = d.acked
      /\ d.ipcp = "OPENED" => (Unheard(e) => Unheard(d))
  BY DEF Since, Good, Dcb, Unheard
<1> HIDE DEF e
<1>2. Good(e, rx, app)
  BY <1>1 DEF Good, OpenOK, WaitOK, RxOK, Up
<1> QED BY <1>2 DEF e

LEMMA GoodTx ==
    ASSUME NEW d, NEW p \in Layer, NEW rx, NEW app, Good(d, rx, app)
    PROVE  /\ Good(TxConfReq(p, d), rx, app)
           /\ TxConfReq(p, d).lcp = d.lcp /\ TxConfReq(p, d).ipcp = d.ipcp
           /\ TxConfReq(p, d).auth = d.auth
<1> DEFINE e == TxConfReq(p, d)
<1>1. d \in Dcb
  BY DEF Good
<1>2. /\ e \in Dcb /\ ~e.acked
      /\ e.lcp = d.lcp /\ e.ipcp = d.ipcp /\ e.auth = d.auth /\ (Unheard(e) => Unheard(d))
  BY <1>1, TxConfReqOK
<1> HIDE DEF e
<1> QED BY <1>2 DEF Good, OpenOK, WaitOK, RxOK, e

LEMMA GoodDown ==
    ASSUME NEW d \in Dcb, NEW rx, NEW app, RxOK(d, rx, app)
    PROVE  /\ Good(IpcpLowerDown(d), rx, app)
           /\ IpcpLowerDown(d).ipcp \notin Up
           /\ IpcpLowerDown(d).lcp = d.lcp /\ IpcpLowerDown(d).auth = d.auth
           /\ IpcpLowerDown(d).acked = d.acked
<1> DEFINE e == IpcpLowerDown(d)
<1>1. /\ e \in Dcb /\ e.ipcp \notin Up
      /\ e.lcp = d.lcp /\ e.auth = d.auth
      /\ e.acked = d.acked
  BY IpcpLowerDownOK
<1> HIDE DEF e
<1> QED BY <1>1 DEF Good, OpenOK, WaitOK, RxOK, Up, e

LEMMA GoodRequest ==
    ASSUME NEW d, NEW p \in Layer, NEW rx \in RxLayer(p), NEW app,
           Good(d, <<>>, app), p = "lcp" => d.ipcp \notin Up
    PROVE  Good(TxConfReq(p, NextId(d)), rx, app)
<1> DEFINE c == NextId(d)
           e == TxConfReq(p, c)
<1>1. Alike(d, c)
  BY NextIdOK DEF Good
<1>2. /\ e \in Dcb /\ ~e.acked
      /\ e.lcp = c.lcp /\ e.ipcp = c.ipcp /\ e.auth = c.auth /\ (Unheard(e) => Unheard(c))
  BY <1>1, TxConfReqOK DEF Alike
<1> HIDE DEF c, e
<1>3. rx \notin RxAcked /\ (p # "lcp" => rx \notin RxLayer("lcp"))
  BY RxApart DEF Layer
<1> QED BY <1>1, <1>2, <1>3 DEF Good, OpenOK, WaitOK, RxOK, Alike, c, e

\* The answer to a request of the peer is on its way.
LEMMA GoodAnswer ==
    ASSUME NEW d, NEW p \in Layer, NEW rx \in RxLayer(p), NEW app, Good(d, <<>>, app),
           p = "lcp" => d.ipcp \notin Up /\ d.lcp \notin Down
    PROVE  Good(d, rx, app)
<1>1. rx \notin RxAcked /\ (p # "lcp" => rx \notin RxLayer("lcp"))
  BY RxApart DEF Layer
<1> QED BY <1>1 DEF Good, RxOK

\* A layer leaves or stays out of the states in Up.
LEMMA GoodSet ==
    ASSUME NEW d, NEW p \in Layer, NEW v \in PppState, NEW rx, NEW app,
           Good(d, rx, app), v \notin Up,
           p = "lcp" => d.ipcp \notin Up,
           p = "lcp" /\ app = LcpReqsent /\ (rx \in RxAcked \/ d.acked) =>
               d.lcp \notin Down \/ v \in Down
    PROVE  Good([d EXCEPT ![p] = v], rx, app)
<1> DEFINE e == [d EXCEPT ![p] = v]
<1>1. /\ e \in Dcb
      /\ e.lcp = (IF p = "lcp" THEN v ELSE d.lcp)
      /\ e.ipcp = (IF p = "ipcp" THEN v ELSE d.ipcp)
      /\ e.auth = d.auth /\ e.acked = d.acked /\ (Unheard(e) => Unheard(d))
  BY SetLayer DEF Good
<1> HIDE DEF e
<1> QED BY <1>1 DEF Good, OpenOK, WaitOK, RxOK, Up, Layer, e

-----------------------------------------------------------------------------
(* The handlers of the receiver: it has nothing else left to do.           *)

RxGood(r, app) == r.rest \in RxRest /\ Good(r.dcb, r.rest, app)

\* What NutPppInput has found out about the state of the layer.
Found(p, d) ==
    /\ d[p] \notin {"INITIAL", "STARTING"}
    /\ p = "ipcp" => d.lcp = "OPENED" /\ d.auth = "OPEN"

LEMMA RxDone ==
    ASSUME NEW d, NEW app, Good(d, <<>>, app)
    PROVE  RxGood(Done(d), app) /\ RxGood(Output(d, <<>>), app)
  BY DEF RxGood, Done, Output, RxRest

LEMMA RxRequest ==
    ASSUME NEW d, NEW p \in Layer, NEW app, Good(d, <<>>, app),
           p = "lcp" => d.ipcp \notin Up
    PROVE  RxGood(Request(p, d), app)
<1>1. RxReqsent(p) \in RxLayer(p) /\ RxReqsent(p) \in RxRest
  BY DEF RxLayer, RxRest, Layer
<1> QED BY <1>1, GoodRequest DEF RxGood, Request, Output, RxReqsent

LEMMA RxLowerUp ==
    ASSUME NEW d, NEW p \in Layer, NEW app, Good(d, <<>>, app)
    PROVE  RxGood(LowerUp(p, d), app)
<1>1. CASE d[p] = "INITIAL"
  <2>1. Good([d EXCEPT ![p] = "CLOSED"], <<>>, app)
    <3>1. p = "lcp" => d.ipcp \notin Up
      BY <1>1 DEF Good, OpenOK
    <3> QED BY <3>1, GoodSet DEF Up, Down, PppState
  <2> QED BY <1>1, <2>1, RxDone DEF LowerUp
<1>2. CASE d[p] = "STARTING"
  <2>1. p = "lcp" => d.ipcp \notin Up
    BY <1>2 DEF Good, OpenOK
  <2> QED BY <1>2, <2>1, RxRequest DEF LowerUp
<1>3. CASE d[p] \notin {"INITIAL", "STARTING"}
  BY <1>3, RxDone DEF LowerUp
<1> QED BY <1>1, <1>2, <1>3

LEMMA RxLcpLowerDown ==
    ASSUME NEW d, NEW app, Good(d, <<>>, app)
    PROVE  RxGood(Done(LcpLowerDown(d)), app)
<1>1. CASE d.lcp = "OPENED"
  <2> DEFINE c == IpcpLowerDown(d)
  <2>1. Good(c, <<>>, app) /\ c.ipcp \notin Up /\ c.lcp = "OPENED"
    BY <1>1, GoodDown DEF Good
  <2> HIDE DEF c
  <2>2. Good([c EXCEPT !["lcp"] = "STARTING"], <<>>, app)
    BY <2>1, GoodSet DEF Up, Down, PppState, Layer
  <2>3. LcpLowerDown(d) = [c EXCEPT !["lcp"] = "STARTING"]
    BY <1>1 DEF LcpLowerDown, c, Negotiating, Requesting
  <2> QED BY <2>2, <2>3, RxDone
<1>2. CASE d.lcp # "OPENED"
  <2>1. d.ipcp \notin Up
    BY <1>2 DEF Good, OpenOK
  <2>2. Good([d EXCEPT !["lcp"] = "INITIAL"], <<>>, app)
    BY <2>1, GoodSet DEF Up, Down, PppState, Layer
  <2>3. d.lcp \notin Down => Good([d EXCEPT !["lcp"] = "STARTING"], <<>>, app)
    BY <2>1, GoodSet DEF Up, Down, PppState, Layer
  <2>4. \/ LcpLowerDown(d) = d
        \/ LcpLowerDown(d) = [d EXCEPT !["lcp"] = "INITIAL"]
        \/ d.lcp \notin Down /\ LcpLowerDown(d) = [d EXCEPT !["lcp"] = "STARTING"]
    BY <1>2 DEF LcpLowerDown, Down, Negotiating, Requesting
  <2> QED BY <2>2, <2>3, <2>4, RxDone
<1> QED BY <1>1, <1>2

LEMMA TwoItems == ASSUME NEW a, NEW b PROVE <<a>> \o <<b>> = <<a, b>>
<1> DEFINE s == <<a>> \o <<b>>
<1>1. <<a>> \in Seq({a, b}) /\ <<b>> \in Seq({a, b})
  OBVIOUS
<1>2. s \in Seq({a, b}) /\ DOMAIN s = 1 .. 2 /\ s[1] = a /\ s[2] = b
  BY <1>1
<1>3. s = [i \in 1 .. 2 |-> s[i]]
  BY <1>2
<1> HIDE DEF s
<1>4. <<a, b>> = [i \in 1 .. 2 |-> IF i = 1 THEN a ELSE b]
  OBVIOUS
<1>5. \A i \in 1 .. 2 : s[i] = IF i = 1 THEN a ELSE b
  BY <1>2
<1> QED BY <1>3, <1>4, <1>5 DEF s

LEMMA RxConfReqOK ==
    ASSUME NEW d, NEW p \in Layer, NEW good \in BOOLEAN, NEW app,
           Good(d, <<>>, app), Found(p, d)
    PROVE  RxGood(RxConfReq(p, d, good), app)
<1> DEFINE one == <<<<p, IF good THEN "acknowledged" ELSE "refused">>>>
           two == <<<<p, "reqsent">>, <<p, IF good THEN "acknowledged" ELSE "refused">>>>
<1>1. /\ one \in RxLayer(p) /\ one \in RxRest
      /\ two \in RxLayer(p) /\ two \in RxRest
  BY DEF RxLayer, RxOne, RxTwo, RxRest, Layer
<1>2. /\ Request(p, d).rest \o one = two
      /\ Request(p, d).dcb = TxConfReq(p, NextId(d))
  BY TwoItems DEF Request, Output
<1> HIDE DEF one, two
<1>3. d \in Dcb
  BY DEF Good
<1>4. CASE d[p] \in {"CLOSED"} \cup Terminating
  BY <1>4, RxDone DEF RxConfReq, Terminating
<1>5. CASE d[p] = "OPENED"
  <2> DEFINE c == IpcpLowerDown(d)
  <2>1. Good(c, <<>>, app) /\ c.ipcp \notin Up
    BY <1>3, GoodDown DEF Good
  <2> HIDE DEF c
  <2>2. Good(TxConfReq(p, NextId(c)), one, app)
    BY <1>1, <2>1, GoodRequest
  <2>3. RxConfReq(p, d, good) = Output(TxConfReq(p, NextId(c)), one)
    BY <1>5 DEF RxConfReq, c, one, Terminating
  <2> QED BY <1>1, <2>2, <2>3 DEF RxGood, Output
<1>6. CASE d[p] = "STOPPED"
  <2>1. p = "lcp" => d.ipcp \notin Up
    BY <1>6 DEF Good, OpenOK
  <2>2. Good(TxConfReq(p, NextId(d)), two, app)
    BY <1>1, <2>1, GoodRequest
  <2>3. RxConfReq(p, d, good) = Output(TxConfReq(p, NextId(d)), two)
    BY <1>2, <1>6 DEF RxConfReq, one, Terminating
  <2> QED BY <1>1, <2>2, <2>3 DEF RxGood, Output
<1>7. CASE d[p] \notin {"CLOSED", "OPENED", "STOPPED"} \cup Terminating
  <2>1. p = "lcp" => d.ipcp \notin Up /\ d.lcp \notin Down
    BY <1>7 DEF Good, OpenOK, Found, Down
  <2>2. Good(d, one, app)
    BY <1>1, <2>1, GoodAnswer
  <2>3. RxConfReq(p, d, good) = Output(d, one)
    BY <1>7 DEF RxConfReq, one
  <2> QED BY <1>1, <2>2, <2>3 DEF RxGood, Output
<1> QED BY <1>4, <1>5, <1>6, <1>7

\* LCP moves while IPCP is down and the application has no request of LCP under way.
LEMMA GoodLcp ==
    ASSUME NEW d, NEW v \in PppState, NEW rx, NEW app,
           Good(d, rx, app), d.ipcp \notin Up, app # LcpReqsent
    PROVE  Good([d EXCEPT !.lcp = v], rx, app)
<1> DEFINE e == [d EXCEPT !["lcp"] = v]
<1>1. /\ e \in Dcb
      /\ e.ipcp = d.ipcp /\ e.auth = d.auth /\ e.acked = d.acked /\ (Unheard(e) => Unheard(d))
  BY SetLayer DEF Good, Layer
<1>2. [d EXCEPT !.lcp = v] = e
  OBVIOUS
<1> HIDE DEF e
<1> QED BY <1>1, <1>2 DEF Good, OpenOK, WaitOK, RxOK

LEMMA GoodAcked ==
    ASSUME NEW d, NEW app, NEW rx, Good(d, rx, app), d.acked \/ app # LcpReqsent
    PROVE  /\ Good([d EXCEPT !.acked = TRUE], rx, app)
           /\ [d EXCEPT !.acked = TRUE].lcp = d.lcp
           /\ [d EXCEPT !.acked = TRUE].ipcp = d.ipcp
           /\ [d EXCEPT !.acked = TRUE].auth = d.auth
<1> DEFINE e == [d EXCEPT !.acked = TRUE]
<1>1. /\ e \in Dcb /\ e.acked
      /\ e.lcp = d.lcp /\ e.ipcp = d.ipcp /\ e.auth = d.auth /\ (Unheard(e) => Unheard(d))
  BY SetAcked DEF Good
<1> HIDE DEF e
<1> QED BY <1>1 DEF Good, OpenOK, WaitOK, RxOK, e

LEMMA GoodPap ==
    ASSUME NEW d, NEW mem \in BOOLEAN, NEW app, NEW rx, Good(d, rx, app),
           d.auth = "AUTHREQ" \/ (d.ipcp \notin Up /\ rx \notin RxAcked /\ app # LcpReqsent)
    PROVE  Good(PapTxAuthReq(d, mem), rx, app)
<1> DEFINE e == PapTxAuthReq(d, mem)
<1>1. /\ e \in Dcb /\ e.auth \in {d.auth, "AUTHREQ"}
      /\ e.lcp = d.lcp /\ e.ipcp = d.ipcp /\ (Unheard(e) => Unheard(d))
      /\ e.acked = d.acked
  BY PapTxAuthReqOK DEF Good
<1> HIDE DEF e
<1> QED BY <1>1 DEF Good, OpenOK, WaitOK, RxOK, e

\* LCP is up and the authentication begins.
LEMMA GoodLcpUp ==
    ASSUME NEW d, NEW mem \in BOOLEAN, NEW app, NEW rx, Good(d, rx, app),
           d.ipcp \notin Up, rx \notin RxAcked, app # LcpReqsent
    PROVE  Good(PapTxAuthReq(NextId([d EXCEPT !.lcp = "OPENED"]), mem), rx, app)
<1> DEFINE e == [d EXCEPT !["lcp"] = "OPENED"]
           c == NextId(e)
<1>1. Good(e, rx, app) /\ e.ipcp \notin Up
  <2>1. "OPENED" \in PppState /\ "lcp" \in Layer /\ d \in Dcb
    BY DEF PppState, Layer, Good
  <2>2. Good(e, rx, app)
    BY <2>1, GoodLcp
  <2>3. e.ipcp = d.ipcp
    BY <2>1, SetLayer
  <2> QED BY <2>2, <2>3
<1> HIDE DEF e
<1>2. Alike(e, c)
  BY <1>1, NextIdOK DEF Good
<1> HIDE DEF c
<1>3. Good(c, rx, app) /\ c.ipcp \notin Up
  BY <1>1, <1>2, GoodAlike DEF Alike
<1>4. Good(PapTxAuthReq(c, mem), rx, app)
  BY <1>3, GoodPap
<1>5. c = NextId([d EXCEPT !.lcp = "OPENED"])
  BY DEF c, e
<1> QED BY <1>4, <1>5

\* The network layer moves over a link that is open and authenticated.
LEMMA GoodIpcp ==
    ASSUME NEW d, NEW app, Good(d, <<>>, app), d.lcp = "OPENED", d.auth = "OPEN",
           NEW e \in Dcb, e.lcp = d.lcp, e.auth = d.auth, WaitOK(e),
           NEW rx, rx \notin RxLayer("lcp")
    PROVE  Good(e, rx, app)
  BY DEF Good, OpenOK, RxOK, Up

LEMMA RxLcpConfAckOK ==
    ASSUME NEW d, NEW good \in BOOLEAN, NEW mem \in BOOLEAN, NEW app,
           Good(d, <<>>, app), Found("lcp", d), good => app # LcpReqsent
    PROVE  RxGood(LcpRxConfAck(d, good, mem), app)
<1> DEFINE a == [d EXCEPT !.acked = TRUE]
<1>1. CASE ~good /\ ~d.acked
  BY <1>1, RxDone DEF LcpRxConfAck
<1>2. CASE good \/ d.acked
  <2>1. Good(a, <<>>, app) /\ a.lcp = d.lcp /\ a.ipcp = d.ipcp
    BY <1>2, GoodAcked DEF Good, Dcb
  <2>2. d.lcp \notin Down => app # LcpReqsent
    BY <1>2 DEF Good, RxOK
  <2>3. d.lcp # "OPENED" => d.ipcp \notin Up
    BY DEF Good, OpenOK
  <2>4. <<>> \notin RxAcked
    BY RxApart
  <2>5. CASE d.lcp = "REQSENT"
    <3> DEFINE b == [a EXCEPT !.lcp = "ACKRCVD"]
    <3>1. Good(b, <<>>, app)
      BY <2>1, <2>2, <2>3, <2>5, GoodLcp DEF Down, PppState
    <3> HIDE DEF b
    <3>2. Good([b EXCEPT !.retries = 0], <<>>, app)
      <4>1. 0 \in 0 .. MaxRetries
        BY RetriesAssumption
      <4> QED BY <3>1, <4>1, SetRetries, GoodAlike DEF Good
    <3>3. LcpRxConfAck(d, good, mem) = Done([b EXCEPT !.retries = 0])
      BY <1>2, <2>5 DEF LcpRxConfAck, b
    <3> QED BY <3>2, <3>3, RxDone
  <2>6. CASE d.lcp = "ACKRCVD"
    <3>1. LcpRxConfAck(d, good, mem) = Request("lcp", a)
      BY <1>2, <2>6 DEF LcpRxConfAck
    <3> QED BY <2>1, <2>3, <2>6, <3>1, RxRequest DEF Layer
  <2>7. CASE d.lcp = "ACKSENT"
    <3>1. LcpRxConfAck(d, good, mem) =
             Output(PapTxAuthReq(NextId([a EXCEPT !.lcp = "OPENED"]), mem), <<>>)
      BY <1>2, <2>7 DEF LcpRxConfAck
    <3>2. Good(PapTxAuthReq(NextId([a EXCEPT !.lcp = "OPENED"]), mem), <<>>, app)
      BY <2>1, <2>2, <2>3, <2>4, <2>7, GoodLcpUp DEF Down
    <3> QED BY <3>1, <3>2, RxDone
  <2>8. CASE d.lcp = "OPENED"
    <3>1. LcpRxConfAck(d, good, mem) = Request("lcp", IpcpLowerDown(a))
      BY <1>2, <2>8 DEF LcpRxConfAck
    <3>2. Good(IpcpLowerDown(a), <<>>, app) /\ IpcpLowerDown(a).ipcp \notin Up
      BY <2>1, GoodDown DEF Good
    <3> QED BY <3>1, <3>2, RxRequest DEF Layer
  <2>9. CASE d.lcp \notin {"REQSENT", "ACKRCVD", "ACKSENT", "OPENED"}
    <3>1. LcpRxConfAck(d, good, mem) = Output(a, <<>>)
      BY <1>2, <2>9 DEF LcpRxConfAck
    <3> QED BY <2>1, <3>1, RxDone
  <2> QED BY <2>5, <2>6, <2>7, <2>8, <2>9
<1> QED BY <1>1, <1>2

LEMMA RxIpcpConfAckOK ==
    ASSUME NEW d, NEW good \in BOOLEAN, NEW app, Good(d, <<>>, app), Found("ipcp", d)
    PROVE  RxGood(IpcpRxConfAck(d, good), app)
<1> DEFINE a(v) == [[d EXCEPT !["ipcp"] = v] EXCEPT !.retries = 0]
           k(v) == [a(v) EXCEPT !.acked = TRUE]
<1>1. d \in Dcb /\ d.lcp = "OPENED" /\ d.auth = "OPEN"
  BY DEF Good, Found
<1>2. ASSUME NEW v \in PppState
      PROVE  /\ k(v) \in Dcb /\ k(v).lcp = d.lcp /\ k(v).auth = d.auth
             /\ k(v).ipcp = v /\ (Unheard(k(v)) => Unheard(d))
  <2> DEFINE b == [d EXCEPT !["ipcp"] = v]
  <2>1. /\ b \in Dcb /\ b.lcp = d.lcp /\ b.auth = d.auth
        /\ b.ipcp = v /\ (Unheard(b) => Unheard(d))
    BY <1>1, SetLayer DEF Layer
  <2> HIDE DEF b
  <2>2. Alike(b, [b EXCEPT !.retries = 0])
    <3>1. 0 \in 0 .. MaxRetries
      BY RetriesAssumption
    <3> QED BY <2>1, <3>1, SetRetries
  <2>3. Alike(b, a(v))
    BY <2>2 DEF b
  <2> HIDE DEF a
  <2> QED BY <2>1, <2>3, SetAcked DEF Alike
<1>3. RxReqAck \in RxRest /\ RxReqAck \notin RxLayer("lcp")
  BY RxApart DEF RxRest, RxAcked
<1>4. CASE ~good \/ d.acked
  BY <1>4, RxDone DEF IpcpRxConfAck
<1>5. CASE good /\ ~d.acked
  <2> DEFINE r == IpcpRxConfAck(d, good)
             next(c) == Output(IpcpTxConfReq(NextId(c)), RxReqAck)
  <2>1. ASSUME NEW c \in Dcb, c.lcp = "OPENED", c.auth = "OPEN", WaitOK(c)
        PROVE  RxGood(next(c), app)
    <3> DEFINE e == TxConfReq("ipcp", NextId(c))
    <3>1. Alike(c, NextId(c))
      BY NextIdOK
    <3>2. /\ e \in Dcb /\ e.lcp = c.lcp /\ e.ipcp = c.ipcp
          /\ e.auth = c.auth /\ (Unheard(e) => Unheard(c))
      BY <3>1, TxConfReqOK DEF Alike, Layer
    <3> HIDE DEF e
    <3>3. Good(e, RxReqAck, app)
      <4>1. WaitOK(e)
        BY <2>1, <3>2 DEF WaitOK
      <4> QED BY <1>1, <1>3, <2>1, <3>2, <4>1, GoodIpcp
    <3>4. next(c) = Output(e, RxReqAck)
      BY DEF e, TxConfReq
    <3> QED BY <1>3, <3>3, <3>4 DEF RxGood, Output
  <2>2. <<>> \notin RxLayer("lcp")
    BY RxApart
  <2>3. CASE d.ipcp = "REQSENT"
    <3>1. r = Done(k("ACKRCVD"))
      BY <1>5, <2>3 DEF IpcpRxConfAck, Terminating
    <3>2. Good(k("ACKRCVD"), <<>>, app)
      <4>1. "ACKRCVD" \in PppState
        BY DEF PppState
      <4> HIDE DEF k
      <4> QED BY <1>1, <1>2, <2>2, <4>1, GoodIpcp DEF WaitOK
    <3> QED BY <3>1, <3>2, RxDone
  <2>4. CASE d.ipcp = "ACKRCVD"
    <3>1. r = next(d)
      BY <1>5, <2>4 DEF IpcpRxConfAck, Terminating, RxReqAck
    <3> QED BY <1>1, <2>1, <3>1 DEF Good
  <2>5. CASE d.ipcp = "ACKSENT"
    <3>1. r = Done(PostStateChange(k("OPENED")))
      BY <1>5, <2>5 DEF IpcpRxConfAck, Terminating
    <3>2. Good(PostStateChange(k("OPENED")), <<>>, app)
      <4>1. "OPENED" \in PppState
        BY DEF PppState
      <4> HIDE DEF k
      <4>2. /\ k("OPENED") \in Dcb /\ k("OPENED").lcp = "OPENED"
            /\ k("OPENED").auth = "OPEN"
        BY <1>1, <1>2, <4>1
      <4>3. OpenOK(k("OPENED")) /\ RxOK(k("OPENED"), <<>>, app)
        BY <1>1, <2>2, <4>2 DEF OpenOK, RxOK, Good, Up
      <4> QED BY <4>2, <4>3, GoodPost
    <3> QED BY <3>1, <3>2, RxDone
  <2>6. CASE d.ipcp = "OPENED"
    <3> DEFINE c == IpcpLowerDown(d)
    <3>1. Good(c, <<>>, app) /\ c.lcp = d.lcp /\ c.auth = d.auth
      BY <1>1, GoodDown DEF Good
    <3>2. r = next(c)
      BY <1>5, <2>6 DEF IpcpRxConfAck, Terminating, RxReqAck
    <3> HIDE DEF c
    <3> QED BY <1>1, <2>1, <3>1, <3>2 DEF Good
  <2>7. CASE d.ipcp \in Terminating
    <3>1. r = Done([d EXCEPT !.acked = TRUE])
      BY <1>5, <2>7 DEF IpcpRxConfAck, Terminating
    <3>2. app # LcpReqsent
      BY <1>1 DEF Good, RxOK, Up
    <3> QED BY <3>1, <3>2, GoodAcked, RxDone
  <2>8. CASE d.ipcp \notin {"REQSENT", "ACKRCVD", "ACKSENT", "OPENED"} \cup Terminating
    <3>1. r = Output(d, <<>>)
      BY <1>5, <2>8 DEF IpcpRxConfAck
    <3> QED BY <3>1, RxDone
  <2> QED BY <2>3, <2>4, <2>5, <2>6, <2>7, <2>8
<1> QED BY <1>4, <1>5

LEMMA RxRequestAgainOK ==
    ASSUME NEW d, NEW p \in Layer, NEW app, Good(d, <<>>, app)
    PROVE  RxGood(RequestAgain(p, d), app)
<1>1. CASE d[p] \in Requesting
  <2>1. RequestAgain(p, d) = Output(TxConfReq(p, NextId(d)), <<>>)
    BY <1>1 DEF RequestAgain, Requesting
  <2>2. Good(NextId(d), <<>>, app)
    BY NextIdOK, GoodAlike DEF Good
  <2> QED BY <2>1, <2>2, GoodTx, RxDone
<1>2. CASE d[p] = "ACKRCVD"
  <2>1. RequestAgain(p, d) = Request(p, d)
    BY <1>2 DEF RequestAgain, Requesting
  <2>2. p = "lcp" => d.ipcp \notin Up
    BY <1>2 DEF Good, OpenOK
  <2> QED BY <2>1, <2>2, RxRequest
<1>3. CASE d[p] = "OPENED"
  <2>1. RequestAgain(p, d) = Request(p, IpcpLowerDown(d))
    BY <1>3 DEF RequestAgain, Requesting
  <2>2. Good(IpcpLowerDown(d), <<>>, app) /\ IpcpLowerDown(d).ipcp \notin Up
    BY GoodDown DEF Good
  <2> QED BY <2>1, <2>2, RxRequest
<1>4. CASE d[p] \notin Requesting \cup {"ACKRCVD", "OPENED"}
  BY <1>4, RxDone DEF RequestAgain
<1> QED BY <1>1, <1>2, <1>3, <1>4

LEMMA RxLcpConfNakRejOK ==
    ASSUME NEW d, NEW good \in BOOLEAN, NEW app, Good(d, <<>>, app), good => app # LcpReqsent
    PROVE  RxGood(LcpRxConfNakRej(d, good), app)
<1>1. CASE ~good \/ d.acked
  BY <1>1, RxDone DEF LcpRxConfNakRej
<1>2. CASE good /\ ~d.acked
  BY <1>2, GoodAcked, RxRequestAgainOK DEF LcpRxConfNakRej, Layer
<1> QED BY <1>1, <1>2

LEMMA RxIpcpConfNakRejOK ==
    ASSUME NEW d, NEW good \in BOOLEAN, NEW app, Good(d, <<>>, app), Found("ipcp", d)
    PROVE  RxGood(IpcpRxConfNakRej(d, good), app)
<1> DEFINE a == [d EXCEPT !.acked = TRUE]
<1>1. app # LcpReqsent
  BY DEF Good, RxOK, Up, Found
<1>2. Good(a, <<>>, app)
  BY <1>1, GoodAcked
<1>3. \/ IpcpRxConfNakRej(d, good) = Done(d)
      \/ IpcpRxConfNakRej(d, good) = Output(d, <<>>)
      \/ IpcpRxConfNakRej(d, good) = RequestAgain("ipcp", a)
  BY DEF IpcpRxConfNakRej
<1> HIDE DEF a
<1> QED BY <1>2, <1>3, RxDone, RxRequestAgainOK DEF Layer

LEMMA RxTermReqOK ==
    ASSUME NEW d, NEW p \in Layer, NEW app, Good(d, <<>>, app)
    PROVE  RxGood(RxTermReq(p, d), app)
<1>1. CASE d[p] \in {"ACKRCVD", "ACKSENT"}
  <2>1. p = "lcp" => d.ipcp \notin Up /\ d.lcp \notin Down
    BY <1>1 DEF Good, OpenOK, Down
  <2>2. Good([d EXCEPT ![p] = "REQSENT"], <<>>, app)
    BY <2>1, GoodSet DEF PppState, Up
  <2>3. RxTermReq(p, d) = Output([d EXCEPT ![p] = "REQSENT"], <<>>)
    BY <1>1 DEF RxTermReq
  <2> QED BY <2>2, <2>3, RxDone
<1>2. CASE d[p] = "OPENED"
  <2> DEFINE c == IpcpLowerDown(d)
  <2>1. Good(c, <<>>, app) /\ c.ipcp \notin Up /\ c.lcp = d.lcp
    BY GoodDown DEF Good
  <2>2. RxTermReq(p, d) = Output([c EXCEPT ![p] = "STOPPING"], <<>>)
    BY <1>2 DEF RxTermReq
  <2> HIDE DEF c
  <2>3. p = "lcp" => c.lcp \notin Down
    BY <1>2, <2>1 DEF Down
  <2>4. Good([c EXCEPT ![p] = "STOPPING"], <<>>, app)
    BY <2>1, <2>3, GoodSet DEF PppState, Up
  <2> QED BY <2>2, <2>4, RxDone
<1>3. CASE d[p] \notin {"ACKRCVD", "ACKSENT", "OPENED"}
  BY <1>3, RxDone DEF RxTermReq
<1> QED BY <1>1, <1>2, <1>3

LEMMA RxTermAckOK ==
    ASSUME NEW d, NEW p \in Layer, NEW app, Good(d, <<>>, app)
    PROVE  RxGood(RxTermAck(p, d), app)
<1>1. CASE d[p] \in {"CLOSING", "STOPPING", "ACKRCVD"}
  <2>1. p = "lcp" => d.ipcp \notin Up /\ d.lcp \notin Down
    BY <1>1 DEF Good, OpenOK, Down
  <2>2. \A v \in {"CLOSED", "STOPPED", "REQSENT"} : Good([d EXCEPT ![p] = v], <<>>, app)
    BY <2>1, GoodSet DEF PppState, Up
  <2>3. \E v \in {"CLOSED", "STOPPED", "REQSENT"} :
            RxTermAck(p, d) = Done([d EXCEPT ![p] = v])
    BY <1>1 DEF RxTermAck
  <2> QED BY <2>2, <2>3, RxDone
<1>2. CASE d[p] = "OPENED"
  <2> DEFINE c == IpcpLowerDown(d)
  <2>1. Good(c, <<>>, app)
    BY GoodDown DEF Good
  <2>2. RxTermAck(p, d) = Output(TxConfReq(p, NextId(c)), <<>>)
    BY <1>2 DEF RxTermAck
  <2> HIDE DEF c
  <2>3. Good(NextId(c), <<>>, app)
    BY <2>1, NextIdOK, GoodAlike DEF Good
  <2> QED BY <2>2, <2>3, GoodTx, RxDone
<1>3. CASE d[p] \notin {"CLOSING", "STOPPING", "ACKRCVD", "OPENED"}
  BY <1>3, RxDone DEF RxTermAck
<1> QED BY <1>1, <1>2, <1>3

LEMMA RxCodeRejOK ==
    ASSUME NEW d, NEW p \in Layer, NEW app, Good(d, <<>>, app)
    PROVE  RxGood(RxCodeRej(p, d), app)
<1>1. CASE d[p] = "ACKRCVD"
  <2>1. p = "lcp" => d.ipcp \notin Up /\ d.lcp \notin Down
    BY <1>1 DEF Good, OpenOK, Down
  <2>2. Good([d EXCEPT ![p] = "REQSENT"], <<>>, app)
    BY <2>1, GoodSet DEF PppState, Up
  <2> QED BY <1>1, <2>2, RxDone DEF RxCodeRej
<1>2. CASE d[p] # "ACKRCVD"
  BY <1>2, RxDone DEF RxCodeRej
<1> QED BY <1>1, <1>2

\* PAP over an open link: nobody has a request of LCP under way.
LEMMA RxPapOK ==
    ASSUME NEW d, NEW code, NEW app, Good(d, <<>>, app), d.lcp = "OPENED"
    PROVE  RxGood(NutPapInput(d, code), app)
<1>1. app # LcpReqsent /\ d \in Dcb
  BY DEF Good, RxOK, Up
<1>2. CASE d.auth = "AUTHREQ"
  <2> DEFINE e(v) == [d EXCEPT !.auth = v]
  <2>1. ASSUME NEW v \in PapState
        PROVE  /\ e(v) \in Dcb /\ e(v).auth = v
               /\ e(v).lcp = d.lcp /\ e(v).ipcp = d.ipcp /\ e(v).acked = d.acked
               /\ (Unheard(e(v)) => Unheard(d))
    BY <1>1, SetAuth
  <2>2. \/ NutPapInput(d, code) = LowerUp("ipcp", e("OPEN"))
        \/ NutPapInput(d, code) = Done(IpcpLowerDown(e("BADAUTH")))
        \/ NutPapInput(d, code) = Done(d)
    BY <1>2 DEF NutPapInput, PapRxAuthAck, PapRxAuthNak, IpcpLowerUp
  <2>3. "OPEN" \in PapState /\ "BADAUTH" \in PapState
    BY DEF PapState
  <2> HIDE DEF e
  <2>4. d.ipcp \notin Up
    BY <1>2 DEF Good, OpenOK
  <2>5. Good(e("OPEN"), <<>>, app)
    <3> DEFINE c == e("OPEN")
    <3>1. /\ c \in Dcb /\ c.lcp = d.lcp /\ c.ipcp = d.ipcp /\ (Unheard(c) => Unheard(d))
          /\ c.auth = "OPEN"
      BY <2>1, <2>3
    <3> HIDE DEF c
    <3>2. Good(c, <<>>, app)
      BY <1>1, <2>4, <3>1, RxApart DEF Good, OpenOK, WaitOK, RxOK
    <3> QED BY <3>2 DEF c
  <2>6. RxOK(e("BADAUTH"), <<>>, app)
    BY <1>1, RxApart DEF RxOK
  <2>7. Good(IpcpLowerDown(e("BADAUTH")), <<>>, app)
    BY <2>1, <2>3, <2>6, GoodDown
  <2> QED BY <2>2, <2>5, <2>7, RxLowerUp, RxDone DEF Layer
<1>3. CASE d.auth # "AUTHREQ"
  <2>1. NutPapInput(d, code) = Done(d)
    BY <1>3 DEF NutPapInput, PapRxAuthAck, PapRxAuthNak
  <2> QED BY <2>1, RxDone
<1> QED BY <1>2, <1>3

LEMMA RxLcpOK ==
    ASSUME NEW d, NEW code, NEW good \in BOOLEAN, NEW mem \in BOOLEAN, NEW app,
           Good(d, <<>>, app),
           code \in {"CONFACK", "CONFNAK"} /\ good => app # LcpReqsent
    PROVE  RxGood(NutLcpInput(d, code, good, mem), app)
<1>1. CASE d.lcp \in {"INITIAL", "STARTING"}
  BY <1>1, RxDone DEF NutLcpInput
<1>2. CASE d.lcp \notin {"INITIAL", "STARTING"}
  <2>1. Found("lcp", d) /\ "lcp" \in Layer
    BY <1>2 DEF Found, Layer
  <2>2. CASE code = "CONFREQ"
    BY <1>2, <2>1, <2>2, RxConfReqOK DEF NutLcpInput, LcpRxConfReq
  <2>3. CASE code = "CONFACK"
    BY <1>2, <2>1, <2>3, RxLcpConfAckOK DEF NutLcpInput
  <2>4. CASE code = "CONFNAK"
    BY <1>2, <2>4, RxLcpConfNakRejOK DEF NutLcpInput
  <2>5. CASE code = "TERMREQ"
    BY <1>2, <2>1, <2>5, RxTermReqOK DEF NutLcpInput, LcpRxTermReq
  <2>6. CASE code = "TERMACK"
    BY <1>2, <2>1, <2>6, RxTermAckOK DEF NutLcpInput, LcpRxTermAck
  <2>7. CASE code \notin {"CONFREQ", "CONFACK", "CONFNAK", "TERMREQ", "TERMACK"}
    BY <1>2, <2>1, <2>7, RxCodeRejOK DEF NutLcpInput, LcpRxCodeRej
  <2> QED BY <2>2, <2>3, <2>4, <2>5, <2>6, <2>7
<1> QED BY <1>1, <1>2

LEMMA RxIpcpOK ==
    ASSUME NEW d, NEW code, NEW good \in BOOLEAN, NEW app, Good(d, <<>>, app),
           d.lcp = "OPENED", d.auth = "OPEN"
    PROVE  RxGood(NutIpcpInput(d, code, good), app)
<1>1. CASE d.ipcp \in {"INITIAL", "STARTING"}
  BY <1>1, RxDone DEF NutIpcpInput
<1>2. CASE d.ipcp \notin {"INITIAL", "STARTING"}
  <2>1. Found("ipcp", d) /\ "ipcp" \in Layer
    BY <1>2 DEF Found, Layer
  <2>2. CASE code = "CONFREQ"
    BY <1>2, <2>1, <2>2, RxConfReqOK DEF NutIpcpInput, IpcpRxConfReq
  <2>3. CASE code = "CONFACK"
    BY <1>2, <2>1, <2>3, RxIpcpConfAckOK DEF NutIpcpInput
  <2>4. CASE code = "CONFNAK"
    BY <1>2, <2>1, <2>4, RxIpcpConfNakRejOK DEF NutIpcpInput
  <2>5. CASE code = "TERMREQ"
    BY <1>2, <2>1, <2>5, RxTermReqOK DEF NutIpcpInput, IpcpRxTermReq
  <2>6. CASE code = "TERMACK"
    BY <1>2, <2>1, <2>6, RxTermAckOK DEF NutIpcpInput, IpcpRxTermAck
  <2>7. CASE code \notin {"CONFREQ", "CONFACK", "CONFNAK", "TERMREQ", "TERMACK"}
    BY <1>2, <2>1, <2>7, RxCodeRejOK DEF NutIpcpInput, IpcpRxCodeRej
  <2> QED BY <2>2, <2>3, <2>4, <2>5, <2>6, <2>7
<1> QED BY <1>1, <1>2

-----------------------------------------------------------------------------
(* The receiver after an output.                                           *)

LEMMA HeadTail ==
    ASSUME NEW a, NEW b
    PROVE  /\ Head(<<a>>) = a /\ Tail(<<a>>) = <<>>
           /\ Head(<<a, b>>) = a /\ Tail(<<a, b>>) = <<b>>
  OBVIOUS

LEMMA GoodLess ==
    ASSUME NEW d, NEW p \in Layer, NEW rx \in RxLayer(p), NEW t \in {<<>>} \cup RxOne(p),
           NEW app, Good(d, rx, app)
    PROVE  Good(d, t, app)
<1>1. t \notin RxAcked /\ (p # "lcp" => t \notin RxLayer("lcp"))
  BY RxApart DEF Layer, RxLayer
<1> QED BY <1>1, RxApart DEF Good, RxOK, Layer

LEMMA AnsweredOK ==
    ASSUME NEW d, NEW p \in Layer, NEW good \in BOOLEAN, NEW mem \in BOOLEAN, NEW app,
           Good(d, <<>>, app), p = "lcp" => d.ipcp \notin Up /\ (app = LcpReqsent => ~d.acked)
    PROVE  Good(Answered(p, d, good, mem), <<>>, app)
<1>1. d \in Dcb /\ <<>> \notin RxAcked /\ <<>> \notin RxLayer("lcp")
  BY RxApart DEF Good
<1>2. CASE good /\ d[p] = "ACKRCVD" /\ p = "lcp"
  <2>1. app # LcpReqsent
    BY <1>2 DEF Good, RxOK, Up
  <2> QED BY <1>1, <1>2, <2>1, GoodLcpUp DEF Answered
<1>3. CASE good /\ d[p] = "ACKRCVD" /\ p = "ipcp"
  <2> DEFINE e == [d EXCEPT !["ipcp"] = "OPENED"]
  <2>1. /\ e \in Dcb /\ e.lcp = d.lcp /\ e.auth = d.auth /\ e.acked = d.acked
    <3>1. "OPENED" \in PppState
      BY DEF PppState
    <3> QED BY <1>1, <3>1, SetLayer DEF Layer
  <2>2. Answered(p, d, good, mem) = PostStateChange(e)
    BY <1>3 DEF Answered
  <2> HIDE DEF e
  <2>3. d.lcp = "OPENED" /\ d.auth = "OPEN"
    BY <1>3 DEF Good, OpenOK, Up
  <2>4. OpenOK(e) /\ RxOK(e, <<>>, app)
    BY <1>1, <2>1, <2>3 DEF OpenOK, Good, RxOK
  <2> QED BY <2>1, <2>2, <2>4, GoodPost
<1>4. CASE d[p] # "ACKRCVD"
  <2>1. \A v \in {"ACKSENT", "REQSENT"} : Good([d EXCEPT ![p] = v], <<>>, app)
    BY <1>1, GoodSet DEF PppState, Up
  <2>2. \E v \in {"ACKSENT", "REQSENT"} : Answered(p, d, good, mem) = [d EXCEPT ![p] = v]
    BY <1>4 DEF Answered
  <2> QED BY <2>1, <2>2
<1>5. CASE ~good /\ d[p] = "ACKRCVD"
  BY <1>5 DEF Answered
<1> QED BY <1>2, <1>3, <1>4, <1>5 DEF Layer

LEMMA ResumedIs ==
    ASSUME NEW p, NEW mem
    PROVE  /\ Resumed(<<p, "reqsent">>, mem) = Done([dcb EXCEPT ![p] = "REQSENT"])
           /\ Resumed(<<p, "closing">>, mem) =
                 Done(PostStateChange([dcb EXCEPT !.ipcp = "CLOSING"]))
           /\ Resumed(<<p, "acked">>, mem) = Done([dcb EXCEPT !.acked = TRUE])
           /\ Resumed(<<p, "acknowledged">>, mem) = Done(Answered(p, dcb, TRUE, mem))
           /\ Resumed(<<p, "refused">>, mem) = Done(Answered(p, dcb, FALSE, mem))
           /\ Resumed(<<p, "resent">>, mem) = AfterResend(p, dcb, tries, mem)
  BY DEF Resumed

LEMMA DoneIs == ASSUME NEW d PROVE Done(d).dcb = d /\ Done(d).rest = <<>>
  BY DEF Done

\* What comes next, and what after it.
LEMMA RxItems ==
    ASSUME NEW p \in Layer, NEW rx \in RxLayer(p)
    PROVE  \/ Head(rx) = <<p, "reqsent">> /\ Tail(rx) \in {<<>>} \cup RxOne(p)
           \/ Head(rx) = <<p, "acknowledged">> /\ Tail(rx) = <<>>
           \/ Head(rx) = <<p, "refused">> /\ Tail(rx) = <<>>
<1>1. CASE rx = <<<<p, "reqsent">>>>
  BY <1>1, HeadTail
<1>2. CASE rx = <<<<p, "acknowledged">>>>
  BY <1>2, HeadTail
<1>3. CASE rx = <<<<p, "refused">>>>
  BY <1>3, HeadTail
<1>4. CASE rx = <<<<p, "reqsent">>, <<p, "acknowledged">>>>
  BY <1>4, HeadTail DEF RxOne
<1>5. CASE rx = <<<<p, "reqsent">>, <<p, "refused">>>>
  BY <1>5, HeadTail DEF RxOne
<1> QED BY <1>1, <1>2, <1>3, <1>4, <1>5 DEF RxLayer, RxReqsent, RxOne, RxTwo

LEMMA RxContinue ==
    ASSUME NEW rx \in RxRest, rx # <<>>, NEW app, NEW mem \in BOOLEAN, Good(dcb, rx, app),
           NEW h, h = Head(rx), NEW t, t = Tail(rx), NEW r, r = Resumed(h, mem)
    PROVE  /\ r.rest = <<>>
           /\ t \in RxRest
           /\ Good(r.dcb, t, app)
<1>1. ASSUME NEW p \in Layer, rx \in RxLayer(p)
      PROVE  r.rest = <<>> /\ t \in RxRest /\ Good(r.dcb, t, app)
  <2>1. \/ h = <<p, "reqsent">> /\ t \in {<<>>} \cup RxOne(p)
        \/ h = <<p, "acknowledged">> /\ t = <<>>
        \/ h = <<p, "refused">> /\ t = <<>>
    BY <1>1, RxItems
  <2>2. t \in RxRest
    BY <2>1 DEF RxRest, RxLayer, Layer
  <2>3. Good(dcb, t, app)
    BY <1>1, <2>1, GoodLess
  <2>4. p = "lcp" => dcb.ipcp \notin Up /\ (app = LcpReqsent => ~dcb.acked)
    BY <1>1 DEF Good, RxOK
  <2>5. t \notin RxAcked
    BY <2>1, RxApart DEF RxLayer, Layer
  <2>6. CASE h = <<p, "reqsent">>
    <3>1. r = Done([dcb EXCEPT ![p] = "REQSENT"])
      BY <2>6, ResumedIs
    <3>2. Good([dcb EXCEPT ![p] = "REQSENT"], t, app)
      BY <2>3, <2>4, <2>5, GoodSet DEF PppState, Up
    <3> QED BY <2>2, <3>1, <3>2, DoneIs
  <2>7. CASE h = <<p, "acknowledged">> /\ t = <<>>
    <3>1. r = Done(Answered(p, dcb, TRUE, mem))
      BY <2>7, ResumedIs
    <3>2. Good(Answered(p, dcb, TRUE, mem), t, app)
      BY <2>3, <2>4, <2>7, AnsweredOK
    <3> QED BY <2>2, <3>1, <3>2, DoneIs
  <2>8. CASE h = <<p, "refused">> /\ t = <<>>
    <3>1. r = Done(Answered(p, dcb, FALSE, mem))
      BY <2>8, ResumedIs
    <3>2. Good(Answered(p, dcb, FALSE, mem), t, app)
      BY <2>3, <2>4, <2>8, AnsweredOK
    <3> QED BY <2>2, <3>1, <3>2, DoneIs
  <2> QED BY <2>1, <2>6, <2>7, <2>8
<1>2. CASE rx = RxReqAck
  <2>1. h = <<"ipcp", "reqsent">> /\ t = RxAck
    BY <1>2, HeadTail DEF RxReqAck, RxAck
  <2>2. r = Done([dcb EXCEPT !["ipcp"] = "REQSENT"])
    BY <2>1, ResumedIs
  <2>3. Good(dcb, RxAck, app)
    BY <1>2, RxApart DEF Good, RxOK, RxAcked
  <2>4. Good([dcb EXCEPT !["ipcp"] = "REQSENT"], RxAck, app)
    BY <2>3, GoodSet DEF PppState, Up, Layer
  <2>5. RxAck \in RxRest
    BY DEF RxRest, RxAcked
  <2> QED BY <2>1, <2>2, <2>4, <2>5, DoneIs
<1>3. CASE rx = RxAck
  <2> DEFINE e == [dcb EXCEPT !.acked = TRUE]
  <2>1. h = <<"ipcp", "acked">> /\ t = <<>>
    BY <1>3, HeadTail DEF RxAck
  <2>2. r = Done(e)
    <3>1. Resumed(<<"ipcp", "acked">>, mem) = Done(e)
      BY ResumedIs
    <3> QED BY <2>1, <3>1
  <2>3. /\ e \in Dcb /\ e.acked
        /\ e.lcp = dcb.lcp /\ e.ipcp = dcb.ipcp /\ e.auth = dcb.auth
        /\ (Unheard(e) => Unheard(dcb))
    BY SetAcked DEF Good
  <2> HIDE DEF e
  <2>4. Good(e, <<>>, app)
    BY <1>3, <2>3, RxApart DEF Good, OpenOK, WaitOK, RxOK, RxAcked
  <2>5. <<>> \in RxRest
    BY DEF RxRest
  <2> QED BY <2>1, <2>2, <2>4, <2>5, DoneIs
<1> QED BY <1>1, <1>2, <1>3 DEF RxRest, RxAcked, Layer

-----------------------------------------------------------------------------
(* NutPppSm.                                                               *)

SmGood(r, n, rx, app) ==
    /\ r.rest \in SmRest
    /\ r.rest # <<>> => n < MaxRetries
    /\ Good(r.dcb, rx, app)

SmPart == {"lcp", "auth", "ipcp"}

LEMMA SmDone ==
    ASSUME NEW d, NEW n, NEW rx, NEW app, Good(d, rx, app)
    PROVE  SmGood(Done(d), n, rx, app)
  BY DEF SmGood, Done, SmRest

LEMMA ExhaustedOK ==
    ASSUME NEW d, NEW p \in SmPart, NEW rx, NEW app, Good(d, rx, app), Timed(p, d)
    PROVE  Good(Exhausted(p, d), rx, app)
<1>1. d.auth \in PapState
  BY DEF Good, Dcb, PapState
<1>2. CASE p = "auth"
  <2>1. d.auth = "AUTHREQ"
    BY <1>1, <1>2 DEF Timed, Requesting, Terminating, PapState
  <2>2. /\ d.ipcp \notin Up
        /\ ~(app = LcpReqsent /\ (rx \in RxAcked \/ d.acked))
    BY <2>1 DEF Good, OpenOK, RxOK
  <2>3. Good([d EXCEPT !["lcp"] = "STOPPED"], rx, app)
    BY <2>2, GoodSet DEF Layer, PppState, Up
  <2> QED BY <1>2, <2>1, <2>3 DEF Exhausted
<1>3. CASE p # "auth"
  <2>1. p \in Layer
    BY <1>3 DEF SmPart, Layer
  <2>2. p = "lcp" => d.lcp \notin Down /\ d.lcp # "OPENED"
    BY <1>3 DEF Timed, Requesting, Terminating, Down
  <2>3. p = "lcp" => d.ipcp \notin Up
    BY <2>2 DEF Good, OpenOK
  <2>4. \A v \in {"CLOSED", "STOPPED"} : Good([d EXCEPT ![p] = v], rx, app)
    BY <2>1, <2>2, <2>3, GoodSet DEF PppState, Up
  <2>5. \E v \in {"CLOSED", "STOPPED"} : Exhausted(p, d) = [d EXCEPT ![p] = v]
    BY <1>3 DEF Exhausted
  <2> QED BY <2>4, <2>5
<1> QED BY <1>2, <1>3

LEMMA ResentOK ==
    ASSUME NEW d, NEW p \in SmPart, NEW mem \in BOOLEAN, NEW rx, NEW app,
           Good(d, rx, app), Timed(p, d)
    PROVE  Good(Resent(p, d, mem), rx, app)
<1>1. d.auth \in PapState
  BY DEF Good, Dcb, PapState
<1>2. CASE p = "auth"
  <2>1. d.auth = "AUTHREQ"
    BY <1>1, <1>2 DEF Timed, Requesting, Terminating, PapState
  <2>2. Resent(p, d, mem) = PapTxAuthReq(d, mem)
    BY <1>2, <2>1 DEF Resent, Terminating
  <2> QED BY <2>1, <2>2, GoodPap
<1>3. CASE p # "auth"
  <2>1. p \in Layer
    BY <1>3 DEF SmPart, Layer
  <2>2. Resent(p, d, mem) = d \/ Resent(p, d, mem) = TxConfReq(p, d)
    BY <1>3 DEF Resent
  <2> QED BY <2>1, <2>2, GoodTx
<1> QED BY <1>2, <1>3

LEMMA TimeoutOK ==
    ASSUME NEW d, NEW p \in SmPart, NEW n \in 0 .. MaxRetries, NEW mem \in BOOLEAN,
           NEW rx, NEW app, Good(d, rx, app)
    PROVE  SmGood(Timeout(p, d, n, mem), n, rx, app)
<1>1. CASE ~Timed(p, d)
  BY <1>1, SmDone DEF Timeout
<1>2. CASE Timed(p, d) /\ n >= MaxRetries
  <2>1. Timeout(p, d, n, mem) = Done(Exhausted(p, d))
    BY <1>2, RetriesAssumption DEF Timeout
  <2> QED BY <1>2, <2>1, ExhaustedOK, SmDone
<1>3. CASE Timed(p, d) /\ n = 0
  <2>1. Timeout(p, d, n, mem) = Done([d EXCEPT !.retries = 1])
    BY <1>3, RetriesAssumption DEF Timeout
  <2>2. 1 \in 0 .. MaxRetries
    BY RetriesAssumption
  <2>3. Good([d EXCEPT !.retries = 1], rx, app)
    BY <2>2, SetRetries, GoodAlike DEF Good
  <2> QED BY <2>1, <2>3, SmDone
<1>4. CASE Timed(p, d) /\ 0 < n /\ n < MaxRetries
  <2>1. Timeout(p, d, n, mem) = Output(Resent(p, d, mem), <<<<p, "resent">>>>)
    BY <1>4, RetriesAssumption DEF Timeout
  <2>2. Good(Resent(p, d, mem), rx, app)
    BY <1>4, ResentOK
  <2>3. <<<<p, "resent">>>> \in SmRest
    BY DEF SmRest, SmPart
  <2> QED BY <1>4, <2>1, <2>2, <2>3 DEF SmGood, Output
<1> QED BY <1>1, <1>2, <1>3, <1>4, RetriesAssumption

LEMMA SmRound ==
    ASSUME NEW d, NEW n \in 0 .. MaxRetries, NEW mem \in BOOLEAN, NEW rx, NEW app,
           Good(d, rx, app)
    PROVE  /\ SmGood(SmIpcp(d, n, mem), n, rx, app)
           /\ SmGood(SmAuth(d, n, mem), n, rx, app)
           /\ SmGood(SmLcp(d, n, mem), n, rx, app)
<1>1. ASSUME NEW c, Good(c, rx, app)
      PROVE  SmGood(SmIpcp(c, n, mem), n, rx, app)
  BY <1>1, TimeoutOK DEF SmIpcp, SmPart
<1>2. ASSUME NEW c, Good(c, rx, app)
      PROVE  SmGood(SmAuth(c, n, mem), n, rx, app)
  <2> DEFINE r == Timeout("auth", c, n, mem)
  <2>1. SmGood(r, n, rx, app)
    BY <1>2, TimeoutOK DEF SmPart
  <2>2. SmAuth(c, n, mem) = IF r.rest # <<>> THEN r ELSE SmIpcp(r.dcb, n, mem)
    BY DEF SmAuth
  <2> HIDE DEF r
  <2>3. SmGood(SmIpcp(r.dcb, n, mem), n, rx, app)
    BY <1>1, <2>1 DEF SmGood
  <2> QED BY <2>1, <2>2, <2>3
<1>3. SmGood(SmLcp(d, n, mem), n, rx, app)
  <2> DEFINE r == Timeout("lcp", d, n, mem)
  <2>1. SmGood(r, n, rx, app)
    BY TimeoutOK DEF SmPart
  <2>2. SmLcp(d, n, mem) = IF r.rest # <<>> THEN r ELSE SmAuth(r.dcb, n, mem)
    BY DEF SmLcp
  <2> HIDE DEF r
  <2>3. SmGood(SmAuth(r.dcb, n, mem), n, rx, app)
    BY <1>2, <2>1 DEF SmGood
  <2> QED BY <2>1, <2>2, <2>3
<1> QED BY <1>1, <1>2, <1>3

LEMMA AfterResendOK ==
    ASSUME NEW d, NEW p \in SmPart, NEW n \in 0 .. MaxRetries, n < MaxRetries,
           NEW mem \in BOOLEAN, NEW rx, NEW app, Good(d, rx, app)
    PROVE  SmGood(AfterResend(p, d, n, mem), n, rx, app)
<1> DEFINE c == [d EXCEPT !.retries = n + 1]
<1>1. n + 1 \in 0 .. MaxRetries
  BY RetriesAssumption
<1>2. Good(c, rx, app)
  BY <1>1, SetRetries, GoodAlike DEF Good
<1>3. \/ AfterResend(p, d, n, mem) = SmAuth(c, n, mem)
      \/ AfterResend(p, d, n, mem) = SmIpcp(c, n, mem)
      \/ AfterResend(p, d, n, mem) = Done(c)
  BY DEF AfterResend, SmPart
<1> HIDE DEF c
<1> QED BY <1>2, <1>3, SmRound, SmDone

-----------------------------------------------------------------------------
(* The application.                                                        *)

AppGood(r, rx) == r.rest \in AppRest /\ Good(r.dcb, rx, r.rest)

LEMMA AppDone ==
    ASSUME NEW d, NEW rx, Good(d, rx, <<>>)
    PROVE  AppGood(Done(d), rx) /\ AppGood(Output(d, <<>>), rx)
  BY DEF AppGood, Done, Output, AppRest

LEMMA NoDcbOK ==
    ASSUME NEW rx
    PROVE  Good(NoDcb, rx, <<>>) /\ NoDcb.lcp = "INITIAL" /\ NoDcb.ipcp = "INITIAL"
<1>1. /\ NoDcb \in Dcb
      /\ NoDcb.lcp = "INITIAL" /\ NoDcb.ipcp = "INITIAL" /\ NoDcb.auth = "INITIAL"
      /\ ~Unheard(NoDcb)
  <2>1. 0 \in 0 .. MaxRetries
    BY RetriesAssumption
  <2> QED BY <2>1 DEF NoDcb, Dcb, PppState, Unheard
<1> QED BY <1>1, RxApart DEF Good, OpenOK, WaitOK, RxOK, Up

LEMMA FreshOK ==
    ASSUME NEW b \in BOOLEAN, NEW rx, NEW d, d = [NoDcb EXCEPT !.icb = b]
    PROVE  Good(d, rx, <<>>) /\ d.lcp = "INITIAL" /\ d.ipcp = "INITIAL"
<1>1. Alike(NoDcb, d)
  BY NoDcbOK, SetIcb DEF Good
<1> QED BY <1>1, NoDcbOK, GoodAlike DEF Alike

LEMMA AppOpen ==
    ASSUME NEW d, NEW rx, Good(d, rx, <<>>), d.lcp = "INITIAL", d.ipcp = "INITIAL"
    PROVE  AppGood(IpcpOpen(d), rx)
<1> DEFINE e == [d EXCEPT !["ipcp"] = "STARTING"]
<1>1. Good(e, rx, <<>>) /\ e.lcp = "INITIAL"
  <2>1. /\ "STARTING" \in PppState /\ "STARTING" \notin Up
        /\ "ipcp" \in Layer /\ "ipcp" # "lcp" /\ d \in Dcb
    BY DEF PppState, Up, Layer, Good
  <2>2. Good(e, rx, <<>>)
    BY <2>1, GoodSet
  <2>3. e.lcp = d.lcp
    BY <2>1, SetLayer
  <2> QED BY <2>2, <2>3
<1>2. IpcpOpen(d) = OpenEvent("lcp", e)
  BY DEF IpcpOpen, LcpOpen
<1> HIDE DEF e
<1>3. OpenEvent("lcp", e) = Done([e EXCEPT !["lcp"] = "STARTING"])
  BY <1>1 DEF OpenEvent
<1>4. e.ipcp \notin Up
  BY <1>1 DEF Good, OpenOK
<1>5. Good([e EXCEPT !["lcp"] = "STARTING"], rx, <<>>)
  BY <1>1, <1>4, RxApart, GoodSet DEF PppState, Up, Layer
<1> QED BY <1>2, <1>3, <1>5, AppDone

LEMMA AppLcpOpen ==
    ASSUME NEW d, NEW rx, Good(d, rx, <<>>)
    PROVE  AppGood(LcpOpen(d), rx)
<1>1. CASE d.lcp = "CLOSED"
  <2> DEFINE e == TxConfReq("lcp", NextId(d))
  <2>1. LcpOpen(d) = Output(e, LcpReqsent)
    BY <1>1 DEF LcpOpen, OpenEvent, Request, LcpReqsent
  <2>2. Alike(d, NextId(d))
    BY NextIdOK DEF Good
  <2>3. /\ e \in Dcb /\ ~e.acked
        /\ e.lcp = d.lcp /\ e.ipcp = d.ipcp /\ e.auth = d.auth /\ (Unheard(e) => Unheard(d))
    BY <2>2, TxConfReqOK DEF Alike, Layer
  <2> HIDE DEF e
  <2>4. Good(e, rx, LcpReqsent)
    BY <1>1, <2>3, RxApart DEF Good, OpenOK, WaitOK, RxOK, Up, Down
  <2> QED BY <2>1, <2>4 DEF AppGood, Output, AppRest
<1>2. CASE d.lcp \in {"INITIAL", "CLOSING"}
  <2>1. d.ipcp \notin Up
    BY <1>2 DEF Good, OpenOK
  <2>2. \A v \in {"STARTING", "STOPPING"} : Good([d EXCEPT !["lcp"] = v], rx, <<>>)
    BY <2>1, RxApart, GoodSet DEF PppState, Up, Layer
  <2>3. \E v \in {"STARTING", "STOPPING"} : LcpOpen(d) = Done([d EXCEPT !["lcp"] = v])
    BY <1>2 DEF LcpOpen, OpenEvent
  <2> QED BY <2>2, <2>3, AppDone
<1>3. CASE d.lcp \notin {"CLOSED", "INITIAL", "CLOSING"}
  BY <1>3, AppDone DEF LcpOpen, OpenEvent
<1> QED BY <1>1, <1>2, <1>3

LEMMA CloseIdleOK ==
    ASSUME NEW d, NEW p \in Layer, NEW rx, Good(d, rx, <<>>)
    PROVE  Good(CloseIdle(p, d), rx, <<>>)
<1>1. CASE d[p] \in {"STARTING", "STOPPED", "STOPPING"}
  <2>1. p = "lcp" => d.ipcp \notin Up
    BY <1>1 DEF Good, OpenOK
  <2>2. \A v \in {"INITIAL", "CLOSED", "CLOSING"} : Good([d EXCEPT ![p] = v], rx, <<>>)
    BY <2>1, RxApart, GoodSet DEF PppState, Up
  <2>3. \E v \in {"INITIAL", "CLOSED", "CLOSING"} : CloseIdle(p, d) = [d EXCEPT ![p] = v]
    BY <1>1 DEF CloseIdle
  <2> QED BY <2>2, <2>3
<1>2. CASE d[p] \notin {"STARTING", "STOPPED", "STOPPING"}
  BY <1>2 DEF CloseIdle
<1> QED BY <1>1, <1>2

LEMMA AppIpcpClose ==
    ASSUME NEW d, NEW rx, Good(d, rx, <<>>)
    PROVE  AppGood(IpcpClose(d), rx)
<1>1. Good(d, rx, Closing)
  BY RxApart DEF Good, RxOK
<1>2. \/ IpcpClose(d) = Output(d, Closing)
      \/ IpcpClose(d) = Done(CloseIdle("ipcp", d))
  BY DEF IpcpClose, Closing
<1>3. AppGood(Output(d, Closing), rx)
  BY <1>1 DEF AppGood, Output, AppRest
<1> QED BY <1>2, <1>3, CloseIdleOK, AppDone DEF Layer

LEMMA AppLcpClose ==
    ASSUME NEW d, NEW rx, Good(d, rx, <<>>)
    PROVE  AppGood(LcpClose(d), rx)
<1> DEFINE e == [d EXCEPT !["lcp"] = "CLOSING"]
<1>1. e \in Dcb /\ e.ipcp = d.ipcp /\ e.auth = d.auth /\ e.acked = d.acked
  <2>1. "CLOSING" \in PppState /\ "lcp" \in Layer /\ "ipcp" # "lcp" /\ d \in Dcb
    BY DEF PppState, Layer, Good
  <2> QED BY <2>1, SetLayer
<1>2. \/ LcpClose(d) = Output(IpcpLowerDown(e), <<>>)
      \/ LcpClose(d) = Done(CloseIdle("lcp", d))
  BY DEF LcpClose
<1> HIDE DEF e
<1>3. e.ipcp \notin Up \/ rx \notin RxLayer("lcp")
  BY <1>1 DEF Good, RxOK
<1>4. RxOK(e, rx, <<>>)
  BY <1>1, <1>3, RxApart DEF Good, RxOK
<1>5. Good(IpcpLowerDown(e), rx, <<>>)
  BY <1>1, <1>4, GoodDown
<1> QED BY <1>2, <1>5, CloseIdleOK, AppDone DEF Layer

-----------------------------------------------------------------------------
(* The thread that configures the interface.                               *)

\* A step of that thread changes only what concerns its wait.
LEMMA GoodConf ==
    ASSUME NEW d, NEW e \in Dcb, NEW rx, NEW app, Good(d, rx, app),
           e.lcp = d.lcp, e.ipcp = d.ipcp, e.auth = d.auth, e.acked = d.acked, WaitOK(e)
    PROVE  Good(e, rx, app)
  BY DEF Good, OpenOK, RxOK

LEMMA ConfigOK ==
    ASSUME NEW d, NEW rx, NEW app, Good(d, rx, app)
    PROVE  /\ Good([d EXCEPT !.state_chg = FALSE, !.conf = "cleared",
                             !.early = d.ipcp = "OPENED"], rx, app)
           /\ d.conf = "cleared" =>
                 Good([d EXCEPT !.icb = TRUE, !.conf = "attached"], rx, app)
           /\ d.conf = "attached" => Good(Waiting(d), rx, app)
           /\ Good(Returned(d), rx, app)
<1>1. d \in Dcb /\ WaitOK(d)
  BY DEF Good
<1>2. ASSUME NEW e, e = [d EXCEPT !.state_chg = FALSE, !.conf = "cleared",
                                  !.early = d.ipcp = "OPENED"]
      PROVE  Good(e, rx, app)
  <2>1. /\ e \in Dcb /\ e.early = (d.ipcp = "OPENED")
        /\ e.lcp = d.lcp /\ e.ipcp = d.ipcp /\ e.auth = d.auth /\ e.acked = d.acked
    BY <1>1, <1>2 DEF Dcb
  <2>2. WaitOK(e)
    BY <2>1 DEF WaitOK, Unheard
  <2> QED BY <2>1, <2>2, GoodConf
<1>3. ASSUME NEW e, e = [d EXCEPT !.icb = TRUE, !.conf = "attached"], d.conf = "cleared"
      PROVE  Good(e, rx, app)
  <2>1. /\ e \in Dcb /\ e.early = d.early /\ e.state_chg = d.state_chg
        /\ e.conf = "attached"
        /\ e.lcp = d.lcp /\ e.ipcp = d.ipcp /\ e.auth = d.auth /\ e.acked = d.acked
    BY <1>1, <1>3 DEF Dcb
  <2>2. WaitOK(e)
    BY <1>1, <1>3, <2>1 DEF WaitOK, Unheard
  <2> QED BY <2>1, <2>2, GoodConf
<1>4. ASSUME d.conf = "attached", d.state_chg
      PROVE  Good(Waiting(d), rx, app)
  <2> DEFINE e == [d EXCEPT !.state_chg = FALSE, !.conf = "woken"]
  <2>1. /\ e \in Dcb /\ e.conf = "woken"
        /\ e.lcp = d.lcp /\ e.ipcp = d.ipcp /\ e.auth = d.auth /\ e.acked = d.acked
    BY <1>1 DEF Dcb
  <2>2. Waiting(d) = e
    BY <1>4 DEF Waiting
  <2> HIDE DEF e
  <2>3. WaitOK(e)
    BY <2>1 DEF WaitOK, Unheard
  <2> QED BY <2>1, <2>2, <2>3, GoodConf
<1>5. ASSUME d.conf = "attached", ~d.state_chg
      PROVE  Good(Waiting(d), rx, app)
  <2> DEFINE e == [d EXCEPT !.conf = "wait"]
  <2>1. /\ e \in Dcb /\ e.early = d.early
        /\ e.lcp = d.lcp /\ e.ipcp = d.ipcp /\ e.auth = d.auth /\ e.acked = d.acked
    BY <1>1 DEF Dcb
  <2>2. Waiting(d) = e
    BY <1>5 DEF Waiting
  <2> HIDE DEF e
  <2>3. WaitOK(e)
    BY <1>1, <1>5, <2>1 DEF WaitOK, Unheard
  <2> QED BY <2>1, <2>2, <2>3, GoodConf
<1>6. ASSUME NEW e, e = Returned(d)
      PROVE  Good(e, rx, app)
  <2>1. /\ e \in Dcb /\ e.conf = "idle"
        /\ e.lcp = d.lcp /\ e.ipcp = d.ipcp /\ e.auth = d.auth /\ e.acked = d.acked
    BY <1>1, <1>6 DEF Returned, Dcb
  <2>2. WaitOK(e)
    BY <2>1 DEF WaitOK, Unheard
  <2> QED BY <2>1, <2>2, GoodConf
<1>7. d.conf = "attached" => Good(Waiting(d), rx, app)
  BY <1>4, <1>5
<1> QED BY <1>2, <1>3, <1>6, <1>7

-----------------------------------------------------------------------------
(* The invariant.                                                          *)

LEMMA Joined ==
    ASSUME NEW s \in RxRest \cup AppRest \cup SmRest
    PROVE  s \o <<>> = s
<1>1. <<>> \o <<>> = <<>>
  OBVIOUS
<1>2. ASSUME NEW x PROVE <<x>> \o <<>> = <<x>>
  <2>1. <<x>> \in Seq({x})
    OBVIOUS
  <2> QED BY <2>1, ConcatEmptySeq
<1>3. ASSUME NEW x, NEW y PROVE <<x, y>> \o <<>> = <<x, y>>
  <2>1. <<x, y>> \in Seq({x, y})
    OBVIOUS
  <2> QED BY <2>1, ConcatEmptySeq
<1>4. ASSUME NEW p, s \in {RxReqsent(p)} \cup RxOne(p)
      PROVE  s \o <<>> = s
  BY <1>2, <1>4 DEF RxReqsent, RxOne
<1>5. ASSUME NEW p, s \in RxTwo(p)
      PROVE  s \o <<>> = s
  BY <1>3, <1>5 DEF RxTwo
<1>6. CASE s \in RxAcked
  BY <1>2, <1>3, <1>6 DEF RxAcked, RxAck, RxReqAck
<1>7. CASE s \in AppRest \cup SmRest
  BY <1>1, <1>2, <1>7 DEF AppRest, LcpReqsent, Closing, SmRest
<1> QED BY <1>1, <1>4, <1>5, <1>6, <1>7 DEF RxRest, RxLayer

LEMMA JoinedFront ==
    ASSUME NEW s \in RxRest
    PROVE  <<>> \o s = s
<1>1. <<>> \o <<>> = <<>>
  OBVIOUS
<1>2. ASSUME NEW x PROVE <<>> \o <<x>> = <<x>>
  <2>1. <<x>> \in Seq({x})
    OBVIOUS
  <2> QED BY <2>1, ConcatEmptySeq
<1>3. ASSUME NEW x, NEW y PROVE <<>> \o <<x, y>> = <<x, y>>
  <2>1. <<x, y>> \in Seq({x, y})
    OBVIOUS
  <2> QED BY <2>1, ConcatEmptySeq
<1>4. ASSUME NEW p, s \in {RxReqsent(p)} \cup RxOne(p)
      PROVE  <<>> \o s = s
  BY <1>2, <1>4 DEF RxReqsent, RxOne
<1>5. ASSUME NEW p, s \in RxTwo(p)
      PROVE  <<>> \o s = s
  BY <1>3, <1>5 DEF RxTwo
<1>6. CASE s \in RxAcked
  BY <1>2, <1>3, <1>6 DEF RxAcked, RxAck, RxReqAck
<1> QED BY <1>1, <1>4, <1>5, <1>6 DEF RxRest, RxLayer

LEMMA RunIs ==
    ASSUME NEW t \in PppThread, NEW r, RestOK, Run(t, r),
           r.rest \in RxRest \cup AppRest \cup SmRest
    PROVE  /\ \A rx, app : Good(r.dcb, rx, app) => Good(dcb', rx, app)
           /\ rest' = [u \in PppThread |-> rest'[u]]
           /\ \A u \in PppThread \ {t} : rest'[u] = rest[u]
           /\ rest[t] = <<>> => rest'[t] = r.rest
           /\ rest[t] # <<>> => rest'[t] = r.rest \o Tail(rest[t])
<1>1. rest' = [rest EXCEPT ![t] = r.rest \o
                   IF rest[t] = <<>> THEN <<>> ELSE Tail(rest[t])]
      /\ dcb' = Since(r.dcb)
  BY DEF Run
<1>2. /\ rest' = [u \in PppThread |-> rest'[u]]
      /\ \A u \in PppThread \ {t} : rest'[u] = rest[u]
      /\ rest'[t] = r.rest \o IF rest[t] = <<>> THEN <<>> ELSE Tail(rest[t])
  BY <1>1 DEF RestOK
<1>3. r.rest \o <<>> = r.rest
  BY Joined
<1>4. \A rx, app : Good(r.dcb, rx, app) => Good(dcb', rx, app)
  BY <1>1, GoodSince
<1> QED BY <1>2, <1>3, <1>4

Flags == open \in BOOLEAN /\ up \in BOOLEAN /\ silent \in BOOLEAN

\* A step of one thread, by the results that it may have.
LEMMA RxStep ==
    ASSUME IInv, Flags', UNCHANGED tries, rest["AhdlcRx"] = <<>>,
           NEW r, Run("AhdlcRx", r), RxGood(r, rest["app"])
    PROVE  IInv'
<1>1. /\ \A rx, app : Good(r.dcb, rx, app) => Good(dcb', rx, app)
      /\ rest' = [u \in PppThread |-> rest'[u]]
      /\ \A u \in PppThread \ {"AhdlcRx"} : rest'[u] = rest[u]
      /\ rest'["AhdlcRx"] = r.rest
  BY RunIs DEF IInv, RxGood, PppThread
<1>2. rest'["app"] = rest["app"] /\ rest'["NutPppSm"] = rest["NutPppSm"]
  BY <1>1 DEF PppThread
<1> QED BY <1>1, <1>2 DEF IInv, RestOK, Flags, RxGood

LEMMA AppStep ==
    ASSUME IInv, Flags', UNCHANGED tries, rest["app"] = <<>>,
           NEW r, Run("app", r), AppGood(r, rest["AhdlcRx"])
    PROVE  IInv'
<1>1. /\ \A rx, app : Good(r.dcb, rx, app) => Good(dcb', rx, app)
      /\ rest' = [u \in PppThread |-> rest'[u]]
      /\ \A u \in PppThread \ {"app"} : rest'[u] = rest[u]
      /\ rest'["app"] = r.rest
  BY RunIs DEF IInv, AppGood, PppThread
<1>2. rest'["AhdlcRx"] = rest["AhdlcRx"] /\ rest'["NutPppSm"] = rest["NutPppSm"]
  BY <1>1 DEF PppThread
<1> QED BY <1>1, <1>2 DEF IInv, RestOK, Flags, AppGood

LEMMA SmStep ==
    ASSUME IInv, Flags', tries' \in 0 .. MaxRetries,
           NEW r, Run("NutPppSm", r), SmGood(r, tries', rest["AhdlcRx"], rest["app"])
    PROVE  IInv'
<1>1. /\ \A rx, app : Good(r.dcb, rx, app) => Good(dcb', rx, app)
      /\ rest' = [u \in PppThread |-> rest'[u]]
      /\ \A u \in PppThread \ {"NutPppSm"} : rest'[u] = rest[u]
      /\ rest["NutPppSm"] = <<>> => rest'["NutPppSm"] = r.rest
      /\ rest["NutPppSm"] # <<>> =>
            rest'["NutPppSm"] = r.rest \o Tail(rest["NutPppSm"])
  BY RunIs DEF IInv, SmGood, PppThread
<1>2. rest'["AhdlcRx"] = rest["AhdlcRx"] /\ rest'["app"] = rest["app"]
  BY <1>1 DEF PppThread
<1>3. rest'["NutPppSm"] = r.rest
  <2>1. rest["NutPppSm"] # <<>> => Tail(rest["NutPppSm"]) = <<>>
    BY HeadTail DEF IInv, RestOK, SmRest
  <2> QED BY <1>1, <2>1, Joined DEF SmGood
<1> QED BY <1>1, <1>2, <1>3 DEF IInv, RestOK, Flags, SmGood

LEMMA InitOK == Init => IInv
<1> SUFFICES ASSUME Init PROVE IInv
  OBVIOUS
<1>1. /\ rest = [t \in PppThread |-> rest[t]]
      /\ rest["AhdlcRx"] = <<>> /\ rest["app"] = <<>> /\ rest["NutPppSm"] = <<>>
  BY DEF Init, PppThread
<1>2. 0 \in 0 .. MaxRetries
  BY RetriesAssumption
<1>3. Good(dcb, <<>>, <<>>)
  BY NoDcbOK DEF Init
<1> QED BY <1>1, <1>2, <1>3 DEF Init, IInv, RestOK, RxRest, AppRest, SmRest

LEMMA ContinueOK ==
    ASSUME IInv, NEW t \in PppThread, Continue(t)
    PROVE  IInv'
<1> USE DEF Continue
<1>1. Flags' /\ UNCHANGED tries /\ tries \in 0 .. MaxRetries
  BY DEF IInv, Flags
<1>2. PICK mem \in BOOLEAN : Run(t, Resumed(Head(rest[t]), mem))
  OBVIOUS
<1>3. /\ rest["AhdlcRx"] \in RxRest /\ rest["app"] \in AppRest
      /\ rest["NutPppSm"] \in SmRest
      /\ rest["NutPppSm"] # <<>> => tries < MaxRetries
      /\ Good(dcb, rest["AhdlcRx"], rest["app"])
  BY DEF IInv, RestOK
<1> DEFINE h == Head(rest[t])
           r == Resumed(h, mem)
<1>4. CASE t = "AhdlcRx"
  <2> DEFINE rx == rest["AhdlcRx"]
             tl == Tail(rx)
  <2>1. r.rest = <<>> /\ tl \in RxRest /\ Good(r.dcb, tl, rest["app"])
    BY <1>3, <1>4, RxContinue
  <2> HIDE DEF r
  <2>2. r.rest \in RxRest \cup AppRest \cup SmRest
    BY <2>1 DEF RxRest
  <2>3. Run("AhdlcRx", r)
    BY <1>2, <1>4 DEF r
  <2>4. /\ \A x, y : Good(r.dcb, x, y) => Good(dcb', x, y)
        /\ rest' = [u \in PppThread |-> rest'[u]]
        /\ \A u \in PppThread \ {"AhdlcRx"} : rest'[u] = rest[u]
        /\ rest'["AhdlcRx"] = r.rest \o tl
    BY <1>4, <2>2, <2>3, RunIs DEF IInv, PppThread
  <2>5. rest'["AhdlcRx"] = tl
    BY <2>1, <2>4, JoinedFront
  <2>6. rest'["app"] = rest["app"] /\ rest'["NutPppSm"] = rest["NutPppSm"]
    BY <2>4 DEF PppThread
  <2> HIDE DEF tl
  <2> QED BY <1>1, <1>3, <2>1, <2>4, <2>5, <2>6 DEF IInv, RestOK, Flags
<1>5. CASE t = "app"
  <2>1. \/ h = <<"lcp", "reqsent">> /\ rest["app"] = LcpReqsent
        \/ h = <<"ipcp", "closing">> /\ rest["app"] = Closing
    BY <1>3, <1>5, HeadTail DEF AppRest, LcpReqsent, Closing
  <2>2. Tail(rest["app"]) = <<>>
    BY <2>1, HeadTail DEF LcpReqsent, Closing
  <2>3. r.rest = <<>> /\ Good(r.dcb, rest["AhdlcRx"], <<>>)
    <3>1. CASE h = <<"lcp", "reqsent">> /\ rest["app"] = LcpReqsent
      <4>1. r = Done([dcb EXCEPT !["lcp"] = "REQSENT"])
        BY <3>1, ResumedIs
      <4>2. dcb.ipcp \notin Up
        BY <1>3, <3>1 DEF Good, RxOK, OpenOK, Up
      <4>3. Good(dcb, rest["AhdlcRx"], <<>>)
        BY <1>3, RxApart DEF Good, RxOK
      <4>4. Good([dcb EXCEPT !["lcp"] = "REQSENT"], rest["AhdlcRx"], <<>>)
        BY <4>2, <4>3, RxApart, GoodSet DEF PppState, Up, Layer
      <4> QED BY <4>1, <4>4, DoneIs
    <3>2. CASE h = <<"ipcp", "closing">> /\ rest["app"] = Closing
      <4> DEFINE e == [dcb EXCEPT !["ipcp"] = "CLOSING"]
      <4>1. r = Done(PostStateChange(e))
        <5>1. Resumed(<<"ipcp", "closing">>, mem) = Done(PostStateChange(e))
          BY ResumedIs
        <5> QED BY <3>2, <5>1
      <4>2. Good(dcb, rest["AhdlcRx"], <<>>)
        BY <1>3, RxApart DEF Good, RxOK
      <4>3. Good(e, rest["AhdlcRx"], <<>>)
        BY <4>2, GoodSet DEF PppState, Up, Layer
      <4> HIDE DEF e
      <4>4. Good(PostStateChange(e), rest["AhdlcRx"], <<>>)
        BY <4>3, GoodPost DEF Good
      <4> QED BY <4>1, <4>4, DoneIs
    <3> QED BY <2>1, <3>1, <3>2
  <2> HIDE DEF r
  <2>4. r.rest \in RxRest \cup AppRest \cup SmRest
    BY <2>3 DEF RxRest
  <2>5. Run("app", r)
    BY <1>2, <1>5 DEF r
  <2>6. /\ \A x, y : Good(r.dcb, x, y) => Good(dcb', x, y)
        /\ rest' = [u \in PppThread |-> rest'[u]]
        /\ \A u \in PppThread \ {"app"} : rest'[u] = rest[u]
        /\ rest'["app"] = r.rest \o <<>>
    BY <1>5, <2>2, <2>4, <2>5, RunIs DEF IInv, PppThread
  <2>7. rest'["app"] = <<>>
    BY <2>3, <2>4, <2>6, Joined
  <2>8. rest'["AhdlcRx"] = rest["AhdlcRx"] /\ rest'["NutPppSm"] = rest["NutPppSm"]
    BY <2>6 DEF PppThread
  <2> QED BY <1>1, <1>3, <2>3, <2>6, <2>7, <2>8 DEF IInv, RestOK, Flags, AppRest
<1>6. CASE t = "NutPppSm"
  <2>1. PICK p \in SmPart : h = <<p, "resent">>
    BY <1>3, <1>6, HeadTail DEF SmRest, SmPart
  <2>2. r = AfterResend(p, dcb, tries, mem)
    BY <2>1, ResumedIs
  <2>3. SmGood(AfterResend(p, dcb, tries, mem), tries, rest["AhdlcRx"], rest["app"])
    BY <1>1, <1>3, <1>6, AfterResendOK
  <2>4. Run("NutPppSm", r)
    BY <1>2, <1>6
  <2> HIDE DEF r
  <2> QED BY <1>1, <2>2, <2>3, <2>4, SmStep
<1> QED BY <1>4, <1>5, <1>6 DEF PppThread

LEMMA NextOK == IInv /\ [Next]_vars => IInv'
<1> SUFFICES ASSUME IInv, [Next]_vars PROVE IInv'
  OBVIOUS
<1> DEFINE rx == rest["AhdlcRx"]
           app == rest["app"]
<1>1. /\ Good(dcb, rx, app) /\ Flags /\ tries \in 0 .. MaxRetries
      /\ rx \in RxRest /\ app \in AppRest
  BY DEF IInv, RestOK, Flags
<1>2. dcb \in Dcb /\ dcb.icb \in BOOLEAN /\ dcb.retries \in 0 .. MaxRetries
  BY <1>1 DEF Good, Dcb
<1>3. ASSUME NEW t \in PppThread, Continue(t) PROVE IInv'
  BY <1>3, ContinueOK
<1>4. CASE NutPppSm
  <2>1. PICK mem \in BOOLEAN : Run("NutPppSm", SmLcp(dcb, dcb.retries, mem))
    BY <1>4 DEF NutPppSm
  <2>2. Flags' /\ tries' = dcb.retries
    BY <1>1, <1>4 DEF NutPppSm, Flags
  <2>3. SmGood(SmLcp(dcb, dcb.retries, mem), dcb.retries, rx, app)
    BY <1>1, <1>2, SmRound
  <2> QED BY <1>2, <2>1, <2>2, <2>3, SmStep
<1>5. CASE AhdlcRx
  <2> DEFINE r == IF up' THEN LcpLowerUp(dcb) ELSE Done(LcpLowerDown(dcb))
  <2>1. Run("AhdlcRx", r) /\ rx = <<>> /\ UNCHANGED tries
    BY <1>5 DEF AhdlcRx
  <2>2. Flags'
    BY <1>1, <1>2, <1>5 DEF AhdlcRx, Flags
  <2>3. RxGood(LcpLowerUp(dcb), app) /\ RxGood(Done(LcpLowerDown(dcb)), app)
    BY <1>1, <2>1, RxLowerUp, RxLcpLowerDown DEF LcpLowerUp, Layer
  <2>4. RxGood(r, app)
    BY <2>3
  <2> HIDE DEF r
  <2> QED BY <2>1, <2>2, <2>4, RxStep
<1>6. CASE NutPppInput
  <2>1. rx = <<>> /\ Flags' /\ UNCHANGED tries
    BY <1>1, <1>6 DEF NutPppInput, Flags
  <2>2. PICK code \in Code, good \in BOOLEAN, mem \in BOOLEAN :
          \/ /\ code \in {"CONFACK", "CONFNAK"} /\ good => Answerable("lcp")
             /\ Run("AhdlcRx", NutLcpInput(dcb, code, good, mem))
          \/ /\ dcb.lcp = "OPENED"
             /\ Run("AhdlcRx", NutPapInput(dcb, code))
          \/ /\ dcb.lcp = "OPENED" /\ dcb.auth = "OPEN"
             /\ Run("AhdlcRx", NutIpcpInput(dcb, code, good))
    BY <1>6 DEF NutPppInput
  <2>3. Good(dcb, <<>>, app)
    BY <1>1, <2>1
  <2>4. CASE /\ code \in {"CONFACK", "CONFNAK"} /\ good => Answerable("lcp")
             /\ Run("AhdlcRx", NutLcpInput(dcb, code, good, mem))
    <3>1. code \in {"CONFACK", "CONFNAK"} /\ good => app # LcpReqsent
      BY <2>4 DEF Answerable, LcpReqsent
    <3>2. RxGood(NutLcpInput(dcb, code, good, mem), app)
      BY <2>3, <3>1, RxLcpOK
    <3> QED BY <2>1, <2>4, <3>2, RxStep
  <2>5. CASE /\ dcb.lcp = "OPENED"
             /\ Run("AhdlcRx", NutPapInput(dcb, code))
    <3>1. RxGood(NutPapInput(dcb, code), app)
      BY <2>3, <2>5, RxPapOK
    <3> QED BY <2>1, <2>5, <3>1, RxStep
  <2>6. CASE /\ dcb.lcp = "OPENED" /\ dcb.auth = "OPEN"
             /\ Run("AhdlcRx", NutIpcpInput(dcb, code, good))
    <3>1. RxGood(NutIpcpInput(dcb, code, good), app)
      BY <2>3, <2>6, RxIpcpOK
    <3> QED BY <2>1, <2>6, <3>1, RxStep
  <2> QED BY <2>2, <2>4, <2>5, <2>6
<1>7. CASE PeerFallsSilent
  BY <1>7 DEF PeerFallsSilent, IInv, RestOK
<1>8. CASE NutPppOpen
  <2> DEFINE d == [NoDcb EXCEPT !.icb = dcb.icb]
  <2>1. /\ app = <<>> /\ Flags' /\ UNCHANGED tries
        /\ Run("app", IF open' THEN IpcpOpen(d) ELSE Done(d))
    BY <1>1, <1>8 DEF NutPppOpen, Flags
  <2>2. Good(d, rx, <<>>) /\ d.lcp = "INITIAL" /\ d.ipcp = "INITIAL"
    BY <1>2, FreshOK
  <2> HIDE DEF d
  <2>3. AppGood(IF open' THEN IpcpOpen(d) ELSE Done(d), rx)
    BY <2>2, AppOpen, AppDone
  <2> QED BY <2>1, <2>3, AppStep
<1>9. CASE NutPppClose
  <2>1. app = <<>> /\ Flags' /\ UNCHANGED tries /\ Run("app", IpcpClose(dcb))
    BY <1>1, <1>9 DEF NutPppClose, Flags
  <2>2. AppGood(IpcpClose(dcb), rx)
    BY <1>1, <2>1, AppIpcpClose
  <2> QED BY <2>1, <2>2, AppStep
<1>10. CASE NutPppIOCtl
  <2> DEFINE d == [dcb EXCEPT !.icb = FALSE]
  <2>1. /\ app = <<>> /\ Flags' /\ UNCHANGED tries
        /\ Run("app", LcpOpen(dcb)) \/ Run("app", LcpClose(dcb)) \/ Run("app", Done(d))
    BY <1>1, <1>10 DEF NutPppIOCtl, Flags
  <2>2. Good(dcb, rx, <<>>)
    BY <1>1, <2>1
  <2>3. Good(d, rx, <<>>)
    BY <2>2, SetIcb, GoodAlike DEF Good
  <2> HIDE DEF d
  <2>4. AppGood(LcpOpen(dcb), rx) /\ AppGood(LcpClose(dcb), rx) /\ AppGood(Done(d), rx)
    BY <2>2, <2>3, AppLcpOpen, AppLcpClose, AppDone
  <2> QED BY <2>1, <2>4, AppStep
<1>11. CASE NutNetIfConfig
  <2>1. UNCHANGED <<open, up, rest, tries, silent>>
    BY <1>11 DEF NutNetIfConfig, Configure
  <2>2. \/ dcb' = [dcb EXCEPT !.state_chg = FALSE, !.conf = "cleared",
                              !.early = dcb.ipcp = "OPENED"]
        \/ dcb.conf = "cleared" /\ dcb' = [dcb EXCEPT !.icb = TRUE, !.conf = "attached"]
        \/ dcb.conf = "attached" /\ dcb' = Waiting(dcb)
        \/ dcb' = Returned(dcb)
    BY <1>11 DEF NutNetIfConfig, Configure
  <2>3. /\ Good([dcb EXCEPT !.state_chg = FALSE, !.conf = "cleared",
                            !.early = dcb.ipcp = "OPENED"], rx, app)
        /\ dcb.conf = "cleared" =>
              Good([dcb EXCEPT !.icb = TRUE, !.conf = "attached"], rx, app)
        /\ dcb.conf = "attached" => Good(Waiting(dcb), rx, app)
        /\ Good(Returned(dcb), rx, app)
    BY <1>1, ConfigOK
  <2>4. Good(dcb', rx, app)
    BY <2>2, <2>3
  <2> QED BY <2>1, <2>4 DEF IInv, RestOK
<1>12. CASE UNCHANGED vars
  BY <1>12 DEF vars, IInv, RestOK
<1> QED BY <1>3, <1>4, <1>5, <1>6, <1>7, <1>8, <1>9, <1>10, <1>11, <1>12 DEF Next

-----------------------------------------------------------------------------
\* The device, what the threads have left to do to it after their outputs and the local
\* variable of NutPppSm agree: the inductive invariant of the automatons.
THEOREM PppInvariant == Spec => []IInv
  BY InitOK, NextOK, PTL DEF Spec

\* The types hold in every state; the counter stays within the number of retries
\* although a round of NutPppSm and the answers of the peer share it.
THEOREM PppTypes == Spec => []TypeOK
<1>1. IInv => TypeOK
  BY DEF IInv, TypeOK, Good
<1> QED BY <1>1, PppInvariant, PTL

\* The network layer is up only over a link that is open and authenticated, whatever
\* packets the peer sends and wherever the threads wait for an output.
THEOREM NetworkOverOpenLink == Spec => []OpenMeansOpen
<1>1. IInv => OpenMeansOpen
  BY DEF IInv, OpenMeansOpen, Good, OpenOK, Up
<1> QED BY <1>1, PppInvariant, PTL

\* A thread that waits in NutNetIfConfig while the network layer is up found it up before
\* its broadcast, uninterrupted since: no event between broadcast and wait, or in the wait,
\* is lost to it.
THEOREM ConfigurationIsTold == Spec => []NobodyWaitsInVain
<1>1. IInv => NobodyWaitsInVain
  BY DEF IInv, NobodyWaitsInVain, Good, WaitOK, Unheard, Dcb
<1> QED BY <1>1, PppInvariant, PTL
=============================================================================
