---------------------------- MODULE NutTcpProofs ----------------------------
(***************************************************************************)
(* The safety properties of a TCP connection hold for any window, any      *)
(* number of bytes, any capacity of the network and any bounds.            *)
(***************************************************************************)
EXTENDS NutTcp, WellFoundedInduction, FiniteSetTheorems, TLAPS

-----------------------------------------------------------------------------
(* Queues with ascending sequence numbers.                                 *)

Ascending(q) == \A i, j \in DOMAIN q : i < j => q[i].seq < q[j].seq

\* A set of naturals that is not empty has a least element.
LEMMA LeastOf ==
    ASSUME NEW I \in SUBSET Nat, I # {}
    PROVE  \E m \in I : \A j \in I : m <= j
<1>1. PICK m \in I : \A j \in I : ~(<<j, m>> \in OpToRel(<, Nat))
  BY NatLessThanWellFounded, WFMin, Zenon
<1>2. ASSUME NEW j \in I PROVE m <= j
  <2>1. <<j, m>> \in Nat \X Nat
    OBVIOUS
  <2>2. <<j, m>> \in OpToRel(<, Nat) <=> j < m
    BY <2>1 DEF OpToRel
  <2>3. ~(j < m)
    BY <1>1, <2>2, Zenon
  <2> QED BY <2>3
<1> QED BY <1>2

LEMMA SegmentFields ==
    ASSUME NEW g \in Segment
    PROVE  /\ g.flags \subseteq {"SYN", "FIN", "ACK", "RST"}
           /\ g.seq \in Nat /\ g.ack \in Nat /\ g.data \in BOOLEAN
           /\ g.win \in 0 .. WinSize
  BY DEF Segment

LEMMA QueueFields ==
    ASSUME NEW q \in Seq(Segment), NEW i \in DOMAIN q
    PROVE  i \in 1 .. Len(q) /\ q[i] \in Segment /\ q[i].seq \in Nat
<1>1. i \in 1 .. Len(q) /\ q[i] \in Segment
  OBVIOUS
<1> QED BY <1>1, SegmentFields

\* Earlier splits an ascending queue at n.
LEMMA EarlierIs ==
    ASSUME NEW q \in Seq(Segment), Ascending(q), NEW n \in Nat
    PROVE  /\ Earlier(q, n) \in 0 .. Len(q)
           /\ \A i \in DOMAIN q : q[i].seq < n <=> i <= Earlier(q, n)
<1> DEFINE I == {j \in 1 .. Len(q) + 1 : j = Len(q) + 1 \/ ~(q[j].seq < n)}
<1>1. PICK m \in I : \A j \in I : m <= j
  <2>1. Len(q) \in Nat
    OBVIOUS
  <2>2. I \in SUBSET Nat
    BY <2>1
  <2>3. Len(q) + 1 \in I
    BY <2>1
  <2> QED BY <2>2, <2>3, LeastOf
<1>2. m - 1 \in 0 .. Len(q)
  BY <1>1
<1>3. ASSUME NEW i \in DOMAIN q PROVE q[i].seq < n <=> i <= m - 1
  <2>0. i \in 1 .. Len(q) /\ q[i].seq \in Nat
    BY QueueFields
  <2>1. CASE i < m
    BY <2>0, <2>1, <1>1
  <2>2. CASE i = m
    BY <2>0, <2>2, <1>1
  <2>3. CASE i > m
    <3>1. m \in DOMAIN q /\ ~(q[m].seq < n)
      BY <2>0, <2>3, <1>1
    <3>2. q[m].seq < q[i].seq
      BY <2>3, <3>1, <2>0, <1>1 DEF Ascending
    <3>3. q[m].seq \in Nat
      BY <3>1, QueueFields
    <3> QED BY <2>0, <2>3, <3>1, <3>2, <3>3
  <2> QED BY <2>0, <2>1, <2>2, <2>3
<1>4. \E k \in 0 .. Len(q) : \A i \in DOMAIN q : q[i].seq < n <=> i <= k
  BY <1>2, <1>3
<1> QED BY <1>4 DEF Earlier

\* What is left of an ascending queue from n on.
LEMMA LaterIs ==
    ASSUME NEW q \in Seq(Segment), Ascending(q), NEW n \in Nat
    PROVE  /\ Later(q, n) \in Seq(Segment)
           /\ Ascending(Later(q, n))
           /\ Len(Later(q, n)) = Len(q) - Earlier(q, n)
           /\ \A i \in 1 .. Len(Later(q, n)) : Later(q, n)[i] = q[Earlier(q, n) + i]
           /\ \A i \in DOMAIN Later(q, n) :
                 /\ Later(q, n)[i].seq >= n
                 /\ \E j \in DOMAIN q : Later(q, n)[i] = q[j]
<1> DEFINE k == Earlier(q, n)
           t == Later(q, n)
<1>1. k \in 0 .. Len(q) /\ \A i \in DOMAIN q : q[i].seq < n <=> i <= k
  BY EarlierIs
<1> HIDE DEF k
<1>2. t = SubSeq(q, k + 1, Len(q))
  BY DEF Later, k
<1>3. t \in Seq(Segment) /\ Len(t) = Len(q) - k
  BY <1>1, <1>2
<1>4. \A i \in 1 .. Len(t) : t[i] = q[k + i]
  BY <1>1, <1>2, <1>3
<1> HIDE DEF t
<1>5. Ascending(t)
  <2> SUFFICES ASSUME NEW i \in DOMAIN t, NEW j \in DOMAIN t, i < j
               PROVE  t[i].seq < t[j].seq
    BY DEF Ascending
  <2>1. i \in 1 .. Len(t) /\ j \in 1 .. Len(t)
    BY <1>3
  <2>2. k + i \in DOMAIN q /\ k + j \in DOMAIN q /\ k + i < k + j
    BY <1>1, <1>3, <2>1
  <2> QED BY <2>1, <2>2, <1>4 DEF Ascending
<1>6. ASSUME NEW i \in DOMAIN t PROVE t[i].seq >= n /\ \E j \in DOMAIN q : t[i] = q[j]
  <2>1. k + i \in DOMAIN q /\ t[i] = q[k + i] /\ ~(k + i <= k)
    BY <1>1, <1>3, <1>4
  <2>2. q[k + i].seq \in Nat
    BY <2>1, QueueFields
  <2>3. ~(q[k + i].seq < n)
    BY <1>1, <2>1
  <2> QED BY <2>1, <2>2, <2>3
<1> QED BY <1>3, <1>4, <1>5, <1>6 DEF k, t

\* The first segments that follow each other.
LEMMA AdjoiningIs ==
    ASSUME NEW q \in Seq(Segment), NEW n \in Nat
    PROVE  /\ Adjoining(q, n) \in 0 .. Len(q)
           /\ \A i \in 1 .. Adjoining(q, n) : q[i].seq = n + i - 1
           /\ Adjoining(q, n) < Len(q) => q[Adjoining(q, n) + 1].seq # n + Adjoining(q, n)
<1> DEFINE I == {j \in 1 .. Len(q) + 1 : j = Len(q) + 1 \/ q[j].seq # n + j - 1}
<1>1. PICK m \in I : \A j \in I : m <= j
  <2>1. Len(q) \in Nat
    OBVIOUS
  <2>2. I \in SUBSET Nat
    BY <2>1
  <2>3. Len(q) + 1 \in I
    BY <2>1
  <2> QED BY <2>2, <2>3, LeastOf
<1>2. /\ m - 1 \in 0 .. Len(q)
      /\ \A i \in 1 .. m - 1 : q[i].seq = n + i - 1
      /\ m - 1 < Len(q) => q[(m - 1) + 1].seq # n + (m - 1)
  BY <1>1
<1>3. \E k \in 0 .. Len(q) : /\ \A i \in 1 .. k : q[i].seq = n + i - 1
                             /\ k < Len(q) => q[k + 1].seq # n + k
  BY <1>2
<1> QED BY <1>3 DEF Adjoining

-----------------------------------------------------------------------------
(* Types.                                                                  *)

Names == {"state", "una", "nxt", "win", "wl1", "wl2", "ack", "force", "nbq", "rxIsn",
          "rxNxt", "rxWin", "rxBuf", "rxCnt", "adv", "app", "sm", "out", "read", "skew"}

Shaped(s) == DOMAIN s = Names
Record(s) == s = [x \in DOMAIN s |-> s[x]]

Fields(s) ==
    /\ s.state \in State /\ s.app \in AppPlace /\ s.sm \in Place \cup {NIL}
    /\ s.una \in Nat /\ s.nxt \in Nat /\ s.win \in 0 .. WinSize
    /\ s.wl1 \in Nat /\ s.wl2 \in Nat /\ s.ack \in BOOLEAN /\ s.force \in BOOLEAN
    /\ s.nbq \in Seq(Segment) /\ s.adv \in Seq(Segment) /\ s.out \in Seq(Segment)
    /\ s.rxIsn \in Nat /\ s.rxNxt \in Nat /\ s.rxWin \in 0 .. WinSize
    /\ s.rxBuf \in Seq(Nat) /\ s.rxCnt \in Nat /\ s.read \in Seq(Nat)
    /\ s.skew \in BOOLEAN

\* The queues are in order.
Ordered(s) ==
    /\ s.una <= s.nxt
    /\ Ascending(s.nbq) /\ Ascending(s.adv)
    /\ \A i \in DOMAIN s.nbq : s.nbq[i].seq < s.nxt

Typed(s) == Shaped(s) /\ Record(s) /\ Fields(s) /\ Ordered(s)

\* Sockets s and t differ in the fields F only.
Same(s, t, F) == \A x \in Names \ F : t[x] = s[x]

LEMMA TypedSocket ==
    ASSUME NEW s
    PROVE  Typed(s) <=> s \in Socket /\ Ordered(s)
  BY DEF Typed, Shaped, Record, Fields, Names, Socket

\* What kind of segment NutTcpOutput is asked for.
Kind == {"SYN", "FIN", "DATA", "nothing"}

LEMMA NewSocketTyped == Typed(NewSocket)
<1>1. NewSocket \in Socket
  BY TcpAssumption DEF NewSocket, Socket, State, AppPlace
<1>2. Ordered(NewSocket)
  BY DEF Ordered, NewSocket, Ascending
<1> QED BY <1>1, <1>2, TypedSocket

LEMMA WakeIs ==
    ASSUME NEW s, Typed(s)
    PROVE  /\ Typed(WakeRx(s)) /\ Same(s, WakeRx(s), {"app"})
           /\ Typed(WakeTx(s)) /\ Same(s, WakeTx(s), {"app"})
           /\ Typed(WakeOpen(s)) /\ Same(s, WakeOpen(s), {"app"})
           /\ WakeRx(s).app = IF s.app = "rx" THEN "rxw" ELSE s.app
           /\ WakeTx(s).app = IF s.app = "tx" THEN "txw" ELSE s.app
           /\ WakeOpen(s).app = IF s.app \in {"pc", "ac"} THEN "user" ELSE s.app
<1> DEFINE t(a) == [s EXCEPT !.app = a]
<1>1. ASSUME NEW a \in AppPlace
      PROVE  Typed(t(a)) /\ Same(s, t(a), {"app"}) /\ t(a).app = a
  <2>1. Shaped(t(a)) /\ Record(t(a))
    BY Zenon DEF Typed, Shaped, Record
  <2>2. Same(s, t(a), {"app"}) /\ t(a).app = a
    BY DEF Typed, Shaped, Names, Same
  <2>3. Fields(t(a)) /\ Ordered(t(a))
    BY <2>2 DEF Same, Fields, Ordered, Names, Typed
  <2> QED BY <2>1, <2>2, <2>3 DEF Typed
<1>2. Same(s, s, {"app"})
  BY DEF Same
<1>3. "rxw" \in AppPlace /\ "txw" \in AppPlace /\ "user" \in AppPlace
  BY DEF AppPlace
<1>4. /\ WakeRx(s) = IF s.app = "rx" THEN t("rxw") ELSE s
      /\ WakeTx(s) = IF s.app = "tx" THEN t("txw") ELSE s
      /\ WakeOpen(s) = IF s.app \in {"pc", "ac"} THEN t("user") ELSE s
  BY DEF WakeRx, WakeTx, WakeOpen
<1> HIDE DEF t
<1> QED BY <1>1, <1>2, <1>3, <1>4

\* The segment NutTcpOutput makes.
NewSegment(s, what) ==
    [flags |-> (IF s.ack THEN {"ACK"} ELSE {}) \cup ({what} \cap {"SYN", "FIN"}),
     seq |-> s.nxt, ack |-> IF s.ack THEN s.rxNxt ELSE 0,
     win |-> s.rxWin, data |-> what = "DATA"]

LEMMA NewSegmentIs ==
    ASSUME NEW s, Typed(s), NEW what \in Kind
    PROVE  /\ NewSegment(s, what) \in Segment
           /\ NewSegment(s, what).seq = s.nxt /\ NewSegment(s, what).win = s.rxWin
           /\ NewSegment(s, what).ack = IF s.ack THEN s.rxNxt ELSE 0
           /\ NewSegment(s, what).data <=> what = "DATA"
           /\ "RST" \notin NewSegment(s, what).flags
           /\ "ACK" \in NewSegment(s, what).flags <=> s.ack
           /\ "SYN" \in NewSegment(s, what).flags <=> what = "SYN"
           /\ "FIN" \in NewSegment(s, what).flags <=> what = "FIN"
  BY DEF NewSegment, Segment, Typed, Fields, Kind

\* An ascending queue stays so with a segment behind that has the next number.
LEMMA AppendAscending ==
    ASSUME NEW q \in Seq(Segment), NEW g \in Segment, NEW n \in Nat, g.seq = n,
           Ascending(q), \A i \in DOMAIN q : q[i].seq < n
    PROVE  /\ Append(q, g) \in Seq(Segment) /\ Ascending(Append(q, g))
           /\ \A i \in DOMAIN Append(q, g) : Append(q, g)[i].seq < n + 1
<1> DEFINE b == Append(q, g)
<1>1. b \in Seq(Segment) /\ Len(b) = Len(q) + 1 /\ b[Len(q) + 1] = g
      /\ \A i \in 1 .. Len(q) : b[i] = q[i]
  OBVIOUS
<1> HIDE DEF b
<1>2. DOMAIN b = 1 .. Len(q) + 1 /\ DOMAIN q = 1 .. Len(q) /\ Len(q) \in Nat
  BY <1>1
<1>3. \A i \in 1 .. Len(q) : b[i].seq < n /\ b[i].seq \in Nat
  BY <1>1, <1>2, QueueFields
<1>4. b[Len(q) + 1].seq = n
  BY <1>1
<1>5. \A i \in DOMAIN b : b[i].seq < n + 1
  BY <1>2, <1>3, <1>4
<1>6. Ascending(b)
  <2> SUFFICES ASSUME NEW i \in DOMAIN b, NEW j \in DOMAIN b, i < j
               PROVE  b[i].seq < b[j].seq
    BY DEF Ascending
  <2>1. CASE j = Len(q) + 1
    BY <2>1, <1>2, <1>3, <1>4
  <2>2. CASE j # Len(q) + 1
    <3>1. i \in DOMAIN q /\ j \in DOMAIN q /\ b[i] = q[i] /\ b[j] = q[j]
      BY <2>2, <1>1, <1>2
    <3> QED BY <3>1 DEF Ascending
  <2> QED BY <2>1, <2>2
<1> QED BY <1>1, <1>5, <1>6 DEF b

LEMMA OutputIs ==
    ASSUME NEW s, Typed(s), NEW what \in Kind
    PROVE  LET t == NutTcpOutput(s, what)
               o == NewSegment(s, what)
           IN  /\ Typed(t)
               /\ Same(s, t, {"ack", "force", "out", "nxt", "nbq"})
               /\ what = "nothing" /\ s.force = FALSE => t = s
               /\ what # "nothing" \/ s.force = TRUE =>
                     t.ack = FALSE /\ t.force = FALSE /\ t.out = Append(s.out, o)
               /\ what = "nothing" => t.nxt = s.nxt /\ t.nbq = s.nbq
               /\ what # "nothing" => t.nxt = s.nxt + 1 /\ t.nbq = Append(s.nbq, o)
<1> DEFINE t == NutTcpOutput(s, what)
           o == NewSegment(s, what)
           oo == Append(s.out, o)
           nn == IF what = "nothing" THEN s.nxt ELSE s.nxt + 1
           bb == IF what = "nothing" THEN s.nbq ELSE Append(s.nbq, o)
           u == [s EXCEPT !.ack = FALSE, !.force = FALSE, !.out = oo, !.nxt = nn, !.nbq = bb]
<1>1. CASE what = "nothing" /\ s.force = FALSE
  BY <1>1 DEF NutTcpOutput, Same
<1>2. CASE what # "nothing" \/ s.force = TRUE
  <2>1. t = u
    BY <1>2 DEF NutTcpOutput, NewSegment
  <2>2. /\ nn \in Nat /\ s.una <= nn
        /\ oo \in Seq(Segment) /\ bb \in Seq(Segment) /\ Ascending(bb)
        /\ \A i \in DOMAIN bb : bb[i].seq < nn
    <3>1. o \in Segment /\ o.seq = s.nxt
      BY NewSegmentIs
    <3> HIDE DEF o
    <3>2. s.nbq \in Seq(Segment) /\ s.out \in Seq(Segment) /\ s.nxt \in Nat /\ s.una \in Nat
          /\ s.una <= s.nxt /\ Ascending(s.nbq) /\ \A i \in DOMAIN s.nbq : s.nbq[i].seq < s.nxt
      BY DEF Typed, Fields, Ordered
    <3>3. oo \in Seq(Segment) /\ nn \in Nat /\ s.una <= nn
      BY <3>1, <3>2
    <3>4. CASE what = "nothing"
      BY <3>2, <3>3, <3>4
    <3>5. CASE what # "nothing"
      BY <3>1, <3>2, <3>3, <3>5, AppendAscending
    <3> QED BY <3>4, <3>5
  <2> HIDE DEF oo, nn, bb
  <2>3. Shaped(u) /\ Record(u)
    BY Zenon DEF Typed, Shaped, Record
  <2>4. /\ Same(s, u, {"ack", "force", "out", "nxt", "nbq"})
        /\ u.ack = FALSE /\ u.force = FALSE /\ u.out = oo /\ u.nxt = nn /\ u.nbq = bb
    BY DEF Typed, Shaped, Names, Same
  <2> HIDE DEF u
  <2>5. Fields(u) /\ Ordered(u)
    BY <2>2, <2>4 DEF Same, Fields, Ordered, Names, Typed
  <2> HIDE DEF t
  <2>6. Typed(t) /\ Same(s, t, {"ack", "force", "out", "nxt", "nbq"})
        /\ t.ack = FALSE /\ t.force = FALSE /\ t.out = oo /\ t.nxt = nn /\ t.nbq = bb
    BY <2>1, <2>3, <2>4, <2>5 DEF Typed
  <2> QED BY <2>6, <1>2 DEF t, oo, nn, bb
<1> QED BY <1>1, <1>2 DEF Typed, Fields

\* Segments NutTcpOutput may make of socket s.
Made(s, what) ==
    {o \in Segment :
        /\ o.seq = s.nxt /\ o.win = s.rxWin /\ o.ack \in {0, s.rxNxt}
        /\ "RST" \notin o.flags
        /\ o.data <=> what = "DATA"
        /\ "SYN" \in o.flags <=> what = "SYN"
        /\ "FIN" \in o.flags <=> what = "FIN"}

\* Socket t is s after an output, if there was one.
Emitted(s, t, what) ==
    \/ t.out = s.out /\ t.nxt = s.nxt /\ t.nbq = s.nbq /\ what = "nothing"
    \/ \E o \in Made(s, what) :
          /\ t.out = Append(s.out, o)
          /\ what = "nothing" => t.nxt = s.nxt /\ t.nbq = s.nbq
          /\ what # "nothing" => t.nxt = s.nxt + 1 /\ t.nbq = Append(s.nbq, o)

\* The segment that makes t of s carries an ACK.
Acks(s, t) == \E o \in Segment : /\ "ACK" \in o.flags
                                 /\ t.out = Append(s.out, o) /\ t.nbq = Append(s.nbq, o)

\* What NutTcpStateChange gives to NutTcpOutput.
Flagged(s, x, F) ==
    [s EXCEPT !.state = x, !.ack = @ \/ "ACK" \in F, !.force = @ \/ "FORCE" \in F]

LEMMA SetFlagsIs ==
    ASSUME NEW s, Typed(s), NEW x \in State, NEW F
    PROVE  LET t == Flagged(s, x, F)
           IN  /\ Typed(t) /\ Same(s, t, {"state", "ack", "force"})
               /\ t.state = x
               /\ "ACK" \in F => t.ack = TRUE
               /\ F = {} => t.ack = s.ack
<1> DEFINE t == [s EXCEPT !.state = x, !.ack = @ \/ "ACK" \in F, !.force = @ \/ "FORCE" \in F]
<1>1. Shaped(t) /\ Record(t)
  BY Zenon DEF Typed, Shaped, Record
<1>2. Same(s, t, {"state", "ack", "force"}) /\ t.state = x
  BY DEF Typed, Shaped, Names, Same
<1>3. "ACK" \in F => t.ack = TRUE
  BY DEF Typed, Shaped, Names
<1>4. t.ack \in BOOLEAN
  BY DEF Typed, Shaped, Names
<1>5. t.force \in BOOLEAN
  BY DEF Typed, Shaped, Names
<1>6. F = {} => t.ack = s.ack
  BY DEF Typed, Shaped, Names, Fields
<1>7. Fields(t) /\ Ordered(t)
  BY <1>2, <1>4, <1>5 DEF Same, Fields, Ordered, Names, Typed
<1>8. t = Flagged(s, x, F)
  BY DEF Flagged
<1> HIDE DEF t
<1> QED BY <1>1, <1>2, <1>3, <1>6, <1>7, <1>8 DEF Typed

LEMMA ForceIs ==
    ASSUME NEW s, Typed(s), NEW a \in BOOLEAN, NEW f \in BOOLEAN
    PROVE  LET t == [s EXCEPT !.ack = a, !.force = f]
           IN  Typed(t) /\ Same(s, t, {"ack", "force"}) /\ t.ack = a /\ t.force = f
<1> DEFINE t == [s EXCEPT !.ack = a, !.force = f]
<1>1. Shaped(t) /\ Record(t)
  BY Zenon DEF Typed, Shaped, Record
<1>2. Same(s, t, {"ack", "force"}) /\ t.ack = a /\ t.force = f
  BY DEF Typed, Shaped, Names, Same
<1>3. Fields(t) /\ Ordered(t)
  BY <1>2 DEF Same, Fields, Ordered, Names, Typed
<1> QED BY <1>1, <1>2, <1>3 DEF Typed

LEMMA Emits ==
    ASSUME NEW s, Typed(s), NEW what \in Kind
    PROVE  LET t == NutTcpOutput(s, what)
           IN  /\ Typed(t) /\ Same(s, t, {"ack", "force", "out", "nxt", "nbq"})
               /\ Emitted(s, t, what)
               /\ what = "nothing" /\ s.force = FALSE => t = s
               /\ what # "nothing" \/ s.force = TRUE =>
                     /\ t.out # s.out /\ t.out # <<>> /\ t.ack = FALSE /\ t.force = FALSE
                     /\ \E o \in Made(s, what) :
                           /\ "ACK" \in o.flags <=> s.ack = TRUE
                           /\ t.out = Append(s.out, o)
                           /\ what # "nothing" => t.nbq = Append(s.nbq, o)
<1> DEFINE t == NutTcpOutput(s, what)
           o == NewSegment(s, what)
<1>1. o \in Made(s, what) /\ ("ACK" \in o.flags <=> s.ack = TRUE)
  BY NewSegmentIs DEF Made
<1> HIDE DEF o
<1>2. s.out \in Seq(Segment) /\ o \in Segment
  BY <1>1 DEF Typed, Fields, Made
<1>3. Append(s.out, o) # s.out /\ Append(s.out, o) # <<>>
  BY <1>2
<1>4. CASE what = "nothing" /\ s.force = FALSE
  BY <1>4, OutputIs DEF Emitted
<1>5. CASE what # "nothing" \/ s.force = TRUE
  <2> HIDE DEF t
  <2>1. /\ Typed(t) /\ Same(s, t, {"ack", "force", "out", "nxt", "nbq"})
        /\ t.ack = FALSE /\ t.force = FALSE /\ t.out = Append(s.out, o)
        /\ what = "nothing" => t.nxt = s.nxt /\ t.nbq = s.nbq
        /\ what # "nothing" => t.nxt = s.nxt + 1 /\ t.nbq = Append(s.nbq, o)
    <3>1. Typed(t)
      BY OutputIs DEF t
    <3>2. Same(s, t, {"ack", "force", "out", "nxt", "nbq"})
      BY OutputIs DEF t
    <3>3. t.ack = FALSE /\ t.force = FALSE
      BY OutputIs, <1>5 DEF t
    <3>4. t.out = Append(s.out, o)
      BY OutputIs, <1>5 DEF t, o
    <3>5. what = "nothing" => t.nxt = s.nxt /\ t.nbq = s.nbq
      BY OutputIs DEF t
    <3>6. what # "nothing" => t.nxt = s.nxt + 1 /\ t.nbq = Append(s.nbq, o)
      BY OutputIs DEF t, o
    <3> QED BY <3>1, <3>2, <3>3, <3>4, <3>5, <3>6
  <2>2. Emitted(s, t, what)
    BY <2>1, <1>1 DEF Emitted
  <2> QED BY <2>1, <2>2, <1>1, <1>3, <1>5 DEF t
<1> QED BY <1>4, <1>5 DEF Typed, Fields

LEMMA EmitsAck ==
    ASSUME NEW s, Typed(s), s.ack = TRUE, NEW what \in Kind, what # "nothing"
    PROVE  LET t == NutTcpOutput(s, what)
           IN  t.out # s.out /\ Acks(s, t)
<1> DEFINE t == NutTcpOutput(s, what)
<1>1. t.out # s.out
  BY Emits
<1>2. PICK o \in Made(s, what) :
         /\ "ACK" \in o.flags <=> s.ack = TRUE
         /\ t.out = Append(s.out, o)
         /\ what # "nothing" => t.nbq = Append(s.nbq, o)
  BY Emits
<1> HIDE DEF t
<1>3. Acks(s, t)
  BY <1>2 DEF Made, Acks
<1> QED BY <1>1, <1>3 DEF t

LEMMA ForceAckIs ==
    ASSUME NEW s, Typed(s)
    PROVE  LET t == ForceAck(s)
           IN  /\ Typed(t) /\ Same(s, t, {"ack", "force", "out"})
               /\ Emitted(s, t, "nothing") /\ t.out # <<>>
<1> DEFINE u == [s EXCEPT !.ack = TRUE, !.force = TRUE]
           t == NutTcpOutput(u, "nothing")
<1>1. Typed(u) /\ Same(s, u, {"ack", "force"}) /\ u.force = TRUE
  BY ForceIs
<1>2. ForceAck(s) = t
  BY DEF ForceAck
<1> HIDE DEF u
<1>3. "nothing" \in Kind
  BY DEF Kind
<1>4. Typed(t) /\ Same(u, t, {"ack", "force", "out", "nxt", "nbq"})
      /\ Emitted(u, t, "nothing") /\ t.out # <<>>
  BY <1>1, <1>3, Emits
<1> HIDE DEF t
<1>5. t.nxt = u.nxt /\ t.nbq = u.nbq
  BY <1>4 DEF Emitted
<1>6. Same(s, t, {"ack", "force", "out"})
  BY <1>1, <1>4, <1>5 DEF Same, Names
<1>7. u.out = s.out /\ u.nxt = s.nxt /\ u.nbq = s.nbq /\ Made(u, "nothing") = Made(s, "nothing")
  BY <1>1 DEF Same, Names, Made
<1>8. Emitted(s, t, "nothing")
  BY <1>4, <1>7 DEF Emitted
<1> QED BY <1>2, <1>4, <1>6, <1>8

\* The legal changes of state.
Follows(x, y) ==
    \/ y = "LISTEN" /\ x \in {"CLOSED", "SYN_RECEIVED"}
    \/ y = "SYN_SENT" /\ x = "CLOSED"
    \/ y = "SYN_RECEIVED" /\ x \in {"LISTEN", "SYN_SENT"}
    \/ y = "ESTABLISHED" /\ x \in {"SYN_SENT", "SYN_RECEIVED"}
    \/ y = "CLOSE_WAIT" /\ x \in {"SYN_RECEIVED", "ESTABLISHED"}
    \/ y = "FIN_WAIT_1" /\ x \in {"SYN_RECEIVED", "ESTABLISHED"}
    \/ y \in {"FIN_WAIT_2", "CLOSING"} /\ x = "FIN_WAIT_1"
    \/ y = "TIME_WAIT" /\ x \in {"FIN_WAIT_1", "FIN_WAIT_2", "CLOSING"}
    \/ y = "LAST_ACK" /\ x = "CLOSE_WAIT"

\* A change to y from x sends a segment of this kind.
Sends(x, y, what) ==
    /\ what \in Kind \ {"DATA"}
    /\ what = "SYN" <=> y = "SYN_SENT" \/ y = "SYN_RECEIVED"
    /\ what = "FIN" <=> y \in {"FIN_WAIT_1", "LAST_ACK"} \/ (y = "CLOSE_WAIT" /\ x = "SYN_RECEIVED")

LEMMA ChangeIs ==
    ASSUME NEW x, NEW y, NEW f, NEW w
    PROVE  LET c == Change(x, y, f, w)
           IN  c.from = x /\ c.to = y /\ c.flags = f /\ c.what = w
  BY DEF Change

LEMMA ChangesAre ==
    /\ \A c \in Changes :
          /\ c.to \in State /\ Follows(c.from, c.to) /\ Sends(c.from, c.to, c.what)
          /\ c.to = "SYN_RECEIVED" => "ACK" \in c.flags
          /\ c.to = "SYN_SENT" => c.flags = {}
    /\ \A x, y : Follows(x, y) => \E c \in Changes : c.from = x /\ c.to = y
<1>1. ASSUME NEW c \in Changes
      PROVE  /\ c.to \in State /\ Follows(c.from, c.to) /\ Sends(c.from, c.to, c.what)
             /\ c.to = "SYN_RECEIVED" => "ACK" \in c.flags
             /\ c.to = "SYN_SENT" => c.flags = {}
  <2>1. c.to \in State /\ (c.to = "SYN_RECEIVED" => "ACK" \in c.flags)
        /\ (c.to = "SYN_SENT" => c.flags = {})
    BY ChangeIs DEF Changes, State, ClosedByUs
  <2>2. Follows(c.from, c.to)
    BY ChangeIs DEF Changes, Follows
  <2>3. Sends(c.from, c.to, c.what)
    BY ChangeIs DEF Changes, Sends, Kind
  <2> QED BY <2>1, <2>2, <2>3
<1>2. ASSUME NEW x, NEW y, Follows(x, y)
      PROVE  \E c \in Changes : c.from = x /\ c.to = y
  BY <1>2, ChangeIs DEF Changes, Follows
<1> QED BY <1>1, <1>2

\* NutTcpStateChange, whether the change is legal or not.
LEMMA StateChangeIs ==
    ASSUME NEW s, Typed(s), NEW x \in State
    PROVE  LET t == NutTcpStateChange(s, x)
           IN  /\ Typed(t)
               /\ Same(s, t, {"state", "ack", "force", "out", "nxt", "nbq"})
               /\ Follows(s.state, x) =>
                     /\ t.state = x
                     /\ \E what : Sends(s.state, x, what) /\ Emitted(s, t, what)
                     /\ x = "SYN_RECEIVED" => t.out # s.out /\ Acks(s, t)
               /\ ~Follows(s.state, x) =>
                     t.state = s.state /\ t.out = s.out /\ t.nxt = s.nxt /\ t.nbq = s.nbq
<1> DEFINE legal == {c \in Changes : c.from = s.state /\ c.to = x}
           t == NutTcpStateChange(s, x)
<1>0. s.state \in State /\ s.ack \in BOOLEAN /\ s.force \in BOOLEAN
  BY DEF Typed, Fields
<1>1. CASE legal = {}
  <2>1. ~Follows(s.state, x)
    BY <1>1, ChangesAre
  <2>2. CASE s.state = "FIN_WAIT_2"
    <3> DEFINE u == [s EXCEPT !.ack = TRUE, !.force = TRUE]
    <3>1. t = u
      BY <1>1, <2>2 DEF NutTcpStateChange
    <3>2. Typed(u) /\ Same(s, u, {"ack", "force"})
      BY ForceIs
    <3> HIDE DEF u, t
    <3>3. /\ Typed(t) /\ Same(s, t, {"state", "ack", "force", "out", "nxt", "nbq"})
          /\ t.state = s.state /\ t.out = s.out /\ t.nxt = s.nxt /\ t.nbq = s.nbq
      BY <3>1, <3>2 DEF Same, Names
    <3> QED BY <2>1, <3>3 DEF t
  <2>3. CASE s.state # "FIN_WAIT_2"
    <3>1. t = s
      BY <1>1, <2>3 DEF NutTcpStateChange
    <3> QED BY <2>1, <3>1 DEF Same
  <2> QED BY <2>2, <2>3
<1>2. CASE legal # {}
  <2> DEFINE c == CHOOSE y \in legal : TRUE
             u == Flagged(s, x, c.flags)
  <2>1. c \in legal
    BY <1>2
  <2>2. t = NutTcpOutput(u, c.what)
    BY <1>2 DEF NutTcpStateChange, Flagged
  <2> HIDE DEF c, t
  <2>3. /\ Follows(s.state, x) /\ Sends(s.state, x, c.what)
        /\ x = "SYN_RECEIVED" => "ACK" \in c.flags
    BY <2>1, ChangesAre
  <2>4. Typed(u) /\ Same(s, u, {"state", "ack", "force"}) /\ u.state = x
        /\ ("ACK" \in c.flags => u.ack = TRUE)
    BY SetFlagsIs
  <2> HIDE DEF u
  <2>5. c.what \in Kind
    BY <2>3 DEF Sends
  <2>6. /\ Typed(t) /\ Same(u, t, {"ack", "force", "out", "nxt", "nbq"})
        /\ Emitted(u, t, c.what)
    BY <2>2, <2>4, <2>5, Emits
  <2>7. x = "SYN_RECEIVED" => t.out # u.out /\ Acks(u, t)
    <3> SUFFICES ASSUME x = "SYN_RECEIVED" PROVE t.out # u.out /\ Acks(u, t)
      OBVIOUS
    <3>1. c.what = "SYN" /\ u.ack = TRUE
      BY <2>3, <2>4 DEF Sends
    <3> QED BY <2>2, <2>4, <2>5, <3>1, EmitsAck
  <2>8. Same(s, t, {"state", "ack", "force", "out", "nxt", "nbq"}) /\ t.state = x
    BY <2>4, <2>6 DEF Same, Names
  <2>9. u.out = s.out /\ u.nxt = s.nxt /\ u.nbq = s.nbq /\ Made(u, c.what) = Made(s, c.what)
    BY <2>4 DEF Same, Names, Made
  <2>10. Emitted(s, t, c.what) /\ (Acks(u, t) => Acks(s, t))
    BY <2>6, <2>9 DEF Emitted, Acks
  <2> QED BY <2>3, <2>6, <2>7, <2>8, <2>9, <2>10 DEF t
<1> QED BY <1>1, <1>2

-----------------------------------------------------------------------------
(* What a handler does to a socket, whatever the handler.                  *)

Member(q, o) == \E i \in DOMAIN q : q[i] = o

\* Socket t may send segment o, which has no data: it acknowledges and offers no more than
\* t has, and only a segment of the transmission queue uses a sequence number.
New(t, o) ==
    /\ o \in Segment
    /\ o.data = FALSE
    /\ "RST" \notin o.flags =>
          /\ o.ack <= t.rxNxt /\ o.ack + o.win <= t.rxNxt + t.rxWin
          /\ \/ o.seq < t.nxt
             \/ o.seq = t.nxt /\ o.flags \subseteq {"ACK"}
          /\ "SYN" \notin o.flags

\* The segments t sends and keeps are those of s and new ones.
Issues(s, t) ==
    \A o : Member(t.out, o) \/ Member(t.nbq, o)
           => Member(s.out, o) \/ Member(s.nbq, o) \/ New(t, o)

Grows(s, t) ==
    /\ s.rxNxt <= t.rxNxt /\ s.rxNxt + s.rxWin <= t.rxNxt + t.rxWin
    /\ s.nxt <= t.nxt

\* Socket t is socket s after some calls.
Goes(s, t) == Typed(t) /\ Issues(s, t) /\ Grows(s, t)

LEMMA Numbers ==
    ASSUME NEW s, Typed(s)
    PROVE  /\ s.una \in Nat /\ s.nxt \in Nat /\ s.una <= s.nxt
           /\ s.rxNxt \in Nat /\ s.rxWin \in Nat /\ s.rxIsn \in Nat /\ s.win \in Nat
  BY TcpAssumption DEF Typed, Fields, Ordered

LEMMA GoesTrans ==
    ASSUME NEW s, NEW t, NEW u, Typed(s), Goes(s, t), Goes(t, u)
    PROVE  Goes(s, u)
<1>0. Typed(t) /\ Typed(u)
  BY DEF Goes
<1>1. Grows(s, u)
  BY <1>0, Numbers DEF Goes, Grows
<1>2. ASSUME NEW o, New(t, o) PROVE New(u, o)
  <2>1. o \in Segment /\ o.data = FALSE
    BY <1>2 DEF New
  <2>2. ASSUME "RST" \notin o.flags
        PROVE  /\ o.ack <= u.rxNxt /\ o.ack + o.win <= u.rxNxt + u.rxWin
               /\ \/ o.seq < u.nxt
                  \/ o.seq = u.nxt /\ o.flags \subseteq {"ACK"}
               /\ "SYN" \notin o.flags
    <3>1. o.ack \in Nat /\ o.win \in Nat /\ o.seq \in Nat
      BY <2>1, TcpAssumption DEF Segment
    <3>2. /\ t.rxNxt \in Nat /\ t.rxWin \in Nat /\ t.nxt \in Nat
          /\ u.rxNxt \in Nat /\ u.rxWin \in Nat /\ u.nxt \in Nat
      BY <1>0, Numbers
    <3>3. /\ t.rxNxt <= u.rxNxt /\ t.rxNxt + t.rxWin <= u.rxNxt + u.rxWin /\ t.nxt <= u.nxt
      BY DEF Goes, Grows
    <3> QED BY <1>2, <2>2, <3>1, <3>2, <3>3 DEF New
  <2> QED BY <2>1, <2>2 DEF New
<1>3. Issues(s, u)
  <2> SUFFICES ASSUME NEW o, Member(u.out, o) \/ Member(u.nbq, o)
               PROVE  Member(s.out, o) \/ Member(s.nbq, o) \/ New(u, o)
    BY Zenon DEF Issues
  <2>1. Member(t.out, o) \/ Member(t.nbq, o) \/ New(u, o)
    BY Zenon DEF Goes, Issues
  <2>2. Member(s.out, o) \/ Member(s.nbq, o) \/ New(t, o) \/ New(u, o)
    BY <2>1, Zenon DEF Goes, Issues
  <2> QED BY <2>2, <1>2
<1> QED BY <1>0, <1>1, <1>3 DEF Goes

\* Nothing is sent.
LEMMA GoesQuietly ==
    ASSUME NEW s, NEW t, Typed(s), Typed(t), t.out = s.out,
           \A o : Member(t.nbq, o) => Member(s.nbq, o), Grows(s, t)
    PROVE  Goes(s, t)
  BY Zenon DEF Goes, Issues

LEMMA GrowsSame ==
    ASSUME NEW s, NEW t, Typed(s), t.rxNxt = s.rxNxt, t.rxWin = s.rxWin, t.nxt = s.nxt
    PROVE  Grows(s, t)
  BY Numbers DEF Grows

LEMMA AppendMember ==
    ASSUME NEW q \in Seq(Segment), NEW o \in Segment, NEW x, Member(Append(q, o), x)
    PROVE  Member(q, x) \/ x = o
  BY DEF Member

\* An acknowledgement or a FIN is sent.
LEMMA GoesEmitting ==
    ASSUME NEW s, NEW t, Typed(s), Typed(t), NEW what \in {"FIN", "nothing"},
           Emitted(s, t, what), t.rxNxt = s.rxNxt, t.rxWin = s.rxWin
    PROVE  Goes(s, t)
<1>1. s.nbq \in Seq(Segment) /\ s.out \in Seq(Segment)
  BY DEF Typed, Fields
<1>2. CASE t.out = s.out /\ t.nxt = s.nxt /\ t.nbq = s.nbq
  BY <1>2, GrowsSame, GoesQuietly
<1>3. ASSUME NEW o \in Made(s, what),
             t.out = Append(s.out, o),
             what = "nothing" => t.nxt = s.nxt /\ t.nbq = s.nbq,
             what # "nothing" => t.nxt = s.nxt + 1 /\ t.nbq = Append(s.nbq, o)
      PROVE  Goes(s, t)
  <2>1. s.nxt \in Nat /\ s.rxNxt \in Nat /\ s.rxWin \in Nat
    BY Numbers
  <2>2. Grows(s, t)
    BY <1>3, <2>1 DEF Grows
  <2>3. New(t, o)
    <3>1. o \in Segment /\ o.seq = s.nxt /\ o.win = s.rxWin /\ o.ack \in {0, s.rxNxt}
          /\ "RST" \notin o.flags /\ o.data = FALSE /\ "SYN" \notin o.flags
          /\ (what = "nothing" => o.flags \subseteq {"ACK"})
      <4>1. o \in Segment /\ o.seq = s.nxt /\ o.win = s.rxWin /\ o.ack \in {0, s.rxNxt}
            /\ "RST" \notin o.flags /\ "SYN" \notin o.flags
        BY DEF Made
      <4>2. o.data \in BOOLEAN /\ o.flags \subseteq {"SYN", "FIN", "ACK", "RST"}
        BY <4>1, SegmentFields
      <4>3. o.data = FALSE
        BY <4>2 DEF Made
      <4>4. what = "nothing" => "FIN" \notin o.flags
        BY DEF Made
      <4> QED BY <4>1, <4>2, <4>3, <4>4
    <3>2. o.seq < t.nxt \/ (o.seq = t.nxt /\ what = "nothing")
      BY <1>3, <2>1, <3>1
    <3>3. o.ack <= t.rxNxt /\ o.ack + o.win <= t.rxNxt + t.rxWin
      BY <2>1, <3>1
    <3> QED BY <3>1, <3>2, <3>3 DEF New
  <2>4. ASSUME NEW x, Member(t.out, x) \/ Member(t.nbq, x)
        PROVE  Member(s.out, x) \/ Member(s.nbq, x) \/ x = o
    <3>1. o \in Segment
      BY <2>3 DEF New
    <3>2. t.nbq = s.nbq \/ t.nbq = Append(s.nbq, o)
      BY <1>3
    <3> QED BY <1>1, <1>3, <2>4, <3>1, <3>2, AppendMember
  <2>5. Issues(s, t)
    BY <2>3, <2>4, Zenon DEF Issues
  <2> QED BY <2>2, <2>5 DEF Goes
<1> QED BY <1>2, <1>3 DEF Emitted

\* One field that is neither a queue nor a number of the sender.
LEMMA GoesSame ==
    ASSUME NEW s, NEW t, NEW F, Typed(s), Typed(t), Same(s, t, F),
           F \cap {"out", "nbq", "nxt", "rxNxt", "rxWin"} = {}
    PROVE  Goes(s, t)
<1>1. t.out = s.out /\ t.nbq = s.nbq /\ t.nxt = s.nxt /\ t.rxNxt = s.rxNxt /\ t.rxWin = s.rxWin
  BY DEF Same, Names
<1> QED BY <1>1, GrowsSame, GoesQuietly

-----------------------------------------------------------------------------
(* The helpers of the handlers, one by one.                                *)

LEMMA WakeGoes ==
    ASSUME NEW s, Typed(s)
    PROVE  Goes(s, WakeRx(s)) /\ Goes(s, WakeTx(s)) /\ Goes(s, WakeOpen(s))
<1>1. {"app"} \cap {"out", "nbq", "nxt", "rxNxt", "rxWin"} = {}
  OBVIOUS
<1> QED BY <1>1, WakeIs, GoesSame

LEMMA SetSmIs ==
    ASSUME NEW s, Typed(s), NEW m \in Place \cup {NIL}
    PROVE  LET t == [s EXCEPT !.sm = m]
           IN  Goes(s, t) /\ Same(s, t, {"sm"}) /\ t.sm = m
<1> DEFINE t == [s EXCEPT !.sm = m]
<1>1. Shaped(t) /\ Record(t)
  BY Zenon DEF Typed, Shaped, Record
<1>2. Same(s, t, {"sm"}) /\ t.sm = m
  BY DEF Typed, Shaped, Names, Same
<1> HIDE DEF t
<1>3. Fields(t) /\ Ordered(t)
  BY <1>2 DEF Same, Fields, Ordered, Names, Typed
<1>4. Typed(t)
  BY <1>1, <1>3 DEF Typed
<1>5. {"sm"} \cap {"out", "nbq", "nxt", "rxNxt", "rxWin"} = {}
  OBVIOUS
<1>6. Goes(s, t)
  BY <1>2, <1>4, <1>5, GoesSame
<1> QED BY <1>2, <1>6 DEF t

LEMMA DoneIs ==
    ASSUME NEW s, Typed(s)
    PROVE  Goes(s, Done(s)) /\ Same(s, Done(s), {"sm"}) /\ Done(s).sm = NIL
  BY SetSmIs DEF Done

LEMMA ThenIs ==
    ASSUME NEW s, Typed(s), NEW f \in SUBSET {"FIN"},
           NEW at \in {"absorb", "post", "finish", "closewait", "opened", "synacked", "finwait"}
    PROVE  LET t == Then(s, at, f)
           IN  /\ Goes(s, t) /\ Same(s, t, {"sm"})
               /\ t.sm # NIL /\ t.sm.at = at /\ t.sm.flags = f
<1> DEFINE m == [at |-> at, flags |-> f]
<1>1. m \in Place /\ m.at = at /\ m.flags = f
  BY DEF Place
<1> HIDE DEF m
<1>3. m # NIL
  BY <1>1, TcpAssumption
<1>2. Then(s, at, f) = [s EXCEPT !.sm = m]
  BY DEF Then, m
<1> QED BY <1>1, <1>2, <1>3, SetSmIs

LEMMA DiscardIs ==
    ASSUME NEW s, Typed(s)
    PROVE  LET t == NutTcpDiscardBuffers(s)
           IN  /\ Goes(s, t) /\ Same(s, t, {"rxBuf", "nbq", "adv"})
               /\ t.rxBuf = <<>> /\ t.nbq = <<>> /\ t.adv = <<>>
<1> DEFINE t == [s EXCEPT !.rxBuf = <<>>, !.nbq = <<>>, !.adv = <<>>]
<1>1. Shaped(t) /\ Record(t)
  BY Zenon DEF Typed, Shaped, Record
<1>2. Same(s, t, {"rxBuf", "nbq", "adv"}) /\ t.rxBuf = <<>> /\ t.nbq = <<>> /\ t.adv = <<>>
  BY DEF Typed, Shaped, Names, Same
<1> HIDE DEF t
<1>0. <<>> \in Seq(Segment) /\ <<>> \in Seq(Nat)
  OBVIOUS
<1>3. Fields(t)
  BY <1>0, <1>2 DEF Same, Fields, Names, Typed
<1>4. Ordered(t)
  BY <1>2 DEF Same, Ordered, Names, Typed, Ascending
<1>5. t.out = s.out /\ t.nxt = s.nxt /\ t.rxNxt = s.rxNxt /\ t.rxWin = s.rxWin
  BY <1>2 DEF Same, Names
<1>6. \A o : ~Member(t.nbq, o)
  BY <1>2 DEF Member
<1>7. Goes(s, t)
  BY <1>1, <1>3, <1>4, <1>5, <1>6, GrowsSame, GoesQuietly DEF Typed
<1> QED BY <1>2, <1>7 DEF t, NutTcpDiscardBuffers

LEMMA SetStateIs ==
    ASSUME NEW s, Typed(s), NEW x \in State
    PROVE  LET t == [s EXCEPT !.state = x]
           IN  Goes(s, t) /\ Same(s, t, {"state"}) /\ t.state = x
<1> DEFINE t == [s EXCEPT !.state = x]
<1>1. Shaped(t) /\ Record(t)
  BY Zenon DEF Typed, Shaped, Record
<1>2. Same(s, t, {"state"}) /\ t.state = x
  BY DEF Typed, Shaped, Names, Same
<1> HIDE DEF t
<1>3. Fields(t) /\ Ordered(t)
  BY <1>2 DEF Same, Fields, Ordered, Names, Typed
<1>4. {"state"} \cap {"out", "nbq", "nxt", "rxNxt", "rxWin"} = {}
  OBVIOUS
<1>5. Goes(s, t)
  BY <1>1, <1>2, <1>3, <1>4, GoesSame DEF Typed
<1> QED BY <1>2, <1>5 DEF t

\* Everybody who waits has been woken.
Woken(a) == CASE a = "rx" -> "rxw" [] a = "tx" -> "txw" [] a \in {"pc", "ac"} -> "user"
              [] OTHER -> a

LEMMA AbortIs ==
    ASSUME NEW s, Typed(s)
    PROVE  LET t == NutTcpAbortSocket(s)
           IN  /\ Goes(s, t) /\ Same(s, t, {"state", "app", "rxBuf", "nbq", "adv"})
               /\ t.rxBuf = <<>> /\ t.nbq = <<>> /\ t.adv = <<>>
               /\ t.state = IF s.state \in ClosedByUs THEN "TIME_WAIT" ELSE "CLOSED"
               /\ t.app = Woken(s.app)
<1> DEFINE x == IF s.state \in ClosedByUs THEN "TIME_WAIT" ELSE "CLOSED"
           u == [s EXCEPT !.state = x]
           d == NutTcpDiscardBuffers(u)
           o == WakeOpen(d)
           w == WakeTx(o)
           t == WakeRx(w)
<1>0. NutTcpAbortSocket(s) = t
  BY DEF NutTcpAbortSocket
<1>1. x \in State
  BY DEF State, ClosedByUs
<1> HIDE DEF x
<1>2. Goes(s, u) /\ Same(s, u, {"state"}) /\ u.state = x /\ Typed(u)
  BY <1>1, SetStateIs DEF Goes
<1> HIDE DEF u
<1>3. /\ Goes(u, d) /\ Same(u, d, {"rxBuf", "nbq", "adv"}) /\ Typed(d)
      /\ d.rxBuf = <<>> /\ d.nbq = <<>> /\ d.adv = <<>>
  BY <1>2, DiscardIs DEF Goes
<1> HIDE DEF d
<1>4. /\ Goes(d, o) /\ Same(d, o, {"app"}) /\ Typed(o)
      /\ o.app = IF d.app \in {"pc", "ac"} THEN "user" ELSE d.app
  BY <1>3, WakeIs, WakeGoes
<1> HIDE DEF o
<1>5. /\ Goes(o, w) /\ Same(o, w, {"app"}) /\ Typed(w)
      /\ w.app = IF o.app = "tx" THEN "txw" ELSE o.app
  BY <1>4, WakeIs, WakeGoes
<1> HIDE DEF w
<1>6. /\ Goes(w, t) /\ Same(w, t, {"app"})
      /\ t.app = IF w.app = "rx" THEN "rxw" ELSE w.app
  BY <1>5, WakeIs, WakeGoes
<1> HIDE DEF t
<1>7. Goes(s, t)
  <2>1. Goes(s, d)
    BY <1>2, <1>3, GoesTrans
  <2>2. Goes(s, o)
    BY <2>1, <1>4, GoesTrans
  <2>3. Goes(s, w)
    BY <2>2, <1>5, GoesTrans
  <2> QED BY <2>3, <1>6, GoesTrans
<1>8. /\ Same(s, t, {"state", "app", "rxBuf", "nbq", "adv"})
      /\ t.rxBuf = <<>> /\ t.nbq = <<>> /\ t.adv = <<>> /\ t.state = x
  BY <1>2, <1>3, <1>4, <1>5, <1>6 DEF Same, Names
<1>9. t.app = Woken(s.app)
  <2>1. d.app = s.app
    BY <1>2, <1>3 DEF Same, Names
  <2> QED BY <2>1, <1>4, <1>5, <1>6 DEF Woken
<1> QED BY <1>0, <1>7, <1>8, <1>9 DEF x

LEMMA ProcessAckIs ==
    ASSUME NEW s, Typed(s), NEW g \in Segment
    PROVE  LET t == NutTcpProcessAck(s, g)
           IN  /\ Goes(s, t)
               /\ Same(s, t, {"ack", "force", "win", "wl1", "wl2", "una", "nbq"})
               /\ \/ t.una = s.una /\ t.win = s.win
                  \/ t.una = g.ack /\ t.win = g.win /\ s.una <= g.ack
<1> DEFINE t == NutTcpProcessAck(s, g)
           F == {"ack", "force", "win", "wl1", "wl2", "una", "nbq"}
<1>0. /\ g.ack \in Nat /\ g.seq \in Nat /\ g.win \in 0 .. WinSize
      /\ s.una \in Nat /\ s.nxt \in Nat /\ s.wl1 \in Nat /\ s.wl2 \in Nat /\ s.una <= s.nxt
  BY SegmentFields DEF Typed, Fields, Ordered
<1>1. CASE g.ack > s.nxt
  <2> DEFINE u == [s EXCEPT !.ack = TRUE, !.force = TRUE]
  <2>1. t = u
    BY <1>0, <1>1 DEF NutTcpProcessAck
  <2>2. Typed(u) /\ Same(s, u, {"ack", "force"})
    BY ForceIs
  <2> HIDE DEF u, t
  <2>3. Goes(s, u)
    <3>1. {"ack", "force"} \cap {"out", "nbq", "nxt", "rxNxt", "rxWin"} = {}
      OBVIOUS
    <3> QED BY <2>2, <3>1, GoesSame
  <2>4. Same(s, u, F) /\ u.una = s.una /\ u.win = s.win
    BY <2>2 DEF Same, Names
  <2> QED BY <2>1, <2>3, <2>4 DEF t
<1>2. CASE g.ack < s.una \/ (g.ack = s.una /\ ~(g.seq > s.wl1 \/ (g.seq = s.wl1 /\ s.wl2 <= g.ack)))
  <2>1. t = s
    BY <1>0, <1>2 DEF NutTcpProcessAck
  <2> HIDE DEF t
  <2>2. Same(s, s, F)
    BY DEF Same
  <2>3. Goes(s, s)
    BY GrowsSame, GoesQuietly
  <2> QED BY <2>1, <2>2, <2>3 DEF t
<1>3. CASE g.ack = s.una /\ (g.seq > s.wl1 \/ (g.seq = s.wl1 /\ s.wl2 <= g.ack))
  <2> DEFINE u == [s EXCEPT !.win = g.win, !.wl1 = g.seq, !.wl2 = g.ack]
  <2>1. t = u
    BY <1>0, <1>3 DEF NutTcpProcessAck
  <2>2. Shaped(u) /\ Record(u)
    BY Zenon DEF Typed, Shaped, Record
  <2>3. Same(s, u, {"win", "wl1", "wl2"}) /\ u.win = g.win /\ u.wl1 = g.seq /\ u.wl2 = g.ack
    BY DEF Typed, Shaped, Names, Same
  <2> HIDE DEF u, t
  <2>4. Fields(u) /\ Ordered(u)
    BY <1>0, <2>3 DEF Same, Fields, Ordered, Names, Typed
  <2>5. {"win", "wl1", "wl2"} \cap {"out", "nbq", "nxt", "rxNxt", "rxWin"} = {}
    OBVIOUS
  <2>6. Goes(s, u)
    BY <2>2, <2>3, <2>4, <2>5, GoesSame DEF Typed
  <2>7. Same(s, u, F) /\ u.una = g.ack
    BY <1>3, <2>3 DEF Same, Names
  <2> QED BY <2>1, <2>3, <2>6, <2>7, <1>0, <1>3 DEF t
<1>4. CASE s.una < g.ack /\ g.ack <= s.nxt
  <2> DEFINE b == Later(s.nbq, g.ack)
             u == [s EXCEPT !.una = g.ack, !.win = g.win, !.nbq = b]
  <2>1. t = u
    BY <1>0, <1>4 DEF NutTcpProcessAck
  <2>2. s.nbq \in Seq(Segment) /\ Ascending(s.nbq) /\ \A i \in DOMAIN s.nbq : s.nbq[i].seq < s.nxt
    BY DEF Typed, Fields, Ordered
  <2>3. b \in Seq(Segment) /\ Ascending(b)
        /\ \A i \in DOMAIN b : \E j \in DOMAIN s.nbq : b[i] = s.nbq[j]
    BY <1>0, <2>2, LaterIs
  <2> HIDE DEF b
  <2>4. Shaped(u) /\ Record(u)
    BY Zenon DEF Typed, Shaped, Record
  <2>5. Same(s, u, {"una", "win", "nbq"}) /\ u.una = g.ack /\ u.win = g.win /\ u.nbq = b
    BY DEF Typed, Shaped, Names, Same
  <2> HIDE DEF u, t
  <2>6. Fields(u)
    BY <1>0, <2>3, <2>5 DEF Same, Fields, Names, Typed
  <2>7. Ordered(u)
    <3>1. u.una <= u.nxt /\ u.nxt = s.nxt /\ u.adv = s.adv
      BY <1>4, <2>5 DEF Same, Names
    <3>2. \A i \in DOMAIN u.nbq : u.nbq[i].seq < u.nxt
      BY <2>2, <2>3, <2>5, <3>1
    <3> QED BY <2>3, <2>5, <3>1, <3>2 DEF Ordered, Typed
  <2>8. u.out = s.out /\ u.nxt = s.nxt /\ u.rxNxt = s.rxNxt /\ u.rxWin = s.rxWin
    BY <2>5 DEF Same, Names
  <2>9. \A o : Member(u.nbq, o) => Member(s.nbq, o)
    BY <2>3, <2>5 DEF Member
  <2>10. Typed(u)
    BY <2>4, <2>6, <2>7 DEF Typed
  <2>11. Goes(s, u)
    BY <2>8, <2>9, <2>10, GrowsSame, GoesQuietly
  <2>12. Same(s, u, F)
    BY <2>5 DEF Same, Names
  <2> QED BY <2>1, <2>5, <2>11, <2>12, <1>0, <1>4 DEF t
<1> QED BY <1>0, <1>1, <1>2, <1>3, <1>4

LEMMA ProcessSynIs ==
    ASSUME NEW s, Typed(s), NEW g \in Segment
    PROVE  LET t == NutTcpProcessSyn(s, g)
           IN  /\ Typed(t) /\ Same(s, t, {"rxIsn", "rxNxt", "wl1", "win"})
               /\ t.rxIsn = g.seq /\ t.rxNxt = g.seq + 1 /\ t.win = g.win
<1> DEFINE n == g.seq + 1
           u == [s EXCEPT !.rxIsn = g.seq, !.rxNxt = n, !.wl1 = g.seq, !.win = g.win]
<1>0. g.seq \in Nat /\ n \in Nat /\ g.win \in 0 .. WinSize
  BY SegmentFields
<1>1. NutTcpProcessSyn(s, g) = u
  BY DEF NutTcpProcessSyn
<1> HIDE DEF n
<1>2. Shaped(u) /\ Record(u)
  BY Zenon DEF Typed, Shaped, Record
<1>3. /\ Same(s, u, {"rxIsn", "rxNxt", "wl1", "win"})
      /\ u.rxIsn = g.seq /\ u.rxNxt = n /\ u.wl1 = g.seq /\ u.win = g.win
  BY DEF Typed, Shaped, Names, Same
<1> HIDE DEF u
<1>4. Fields(u) /\ Ordered(u)
  BY <1>0, <1>3 DEF Same, Fields, Ordered, Names, Typed
<1> QED BY <1>1, <1>2, <1>3, <1>4 DEF Typed, n

LEMMA DestroyIs ==
    ASSUME NEW s, Typed(s)
    PROVE  LET t == NutTcpDestroySocket(s)
           IN  /\ Typed(t) /\ Issues(s, t)
               /\ Same(NewSocket, t, {"state", "app", "read", "rxIsn", "sm", "skew"})
               /\ Same(s, t, Names \ {"app", "read", "rxIsn", "sm", "skew"})
               /\ t.state = "GONE"
<1> DEFINE t == NutTcpDestroySocket(s)
<1>1. Shaped(t) /\ Record(t)
  BY NewSocketTyped, Zenon DEF Typed, Shaped, Record, NutTcpDestroySocket
<1>2. /\ Same(NewSocket, t, {"state", "app", "read", "rxIsn", "sm", "skew"})
      /\ t.state = "GONE"
  BY NewSocketTyped DEF Typed, Shaped, Names, Same, NutTcpDestroySocket
<1>3. /\ t.app = s.app /\ t.read = s.read /\ t.rxIsn = s.rxIsn /\ t.sm = s.sm
      /\ t.skew = s.skew
  BY NewSocketTyped DEF Typed, Shaped, Names, NutTcpDestroySocket
<1> HIDE DEF t
<1>4. Same(s, t, Names \ {"app", "read", "rxIsn", "sm", "skew"})
  BY <1>3 DEF Same, Names
<1>5. "GONE" \in State
  BY DEF State
<1>6. Fields(t)
  BY <1>2, <1>3, <1>5, NewSocketTyped DEF Same, Fields, Names, Typed
<1>7. Ordered(t)
  BY <1>2, NewSocketTyped DEF Same, Ordered, Names, Typed
<1>8. t.out = <<>> /\ t.nbq = <<>>
  BY <1>2 DEF Same, Names, NewSocket
<1>9. Issues(s, t)
  BY <1>8 DEF Issues, Member
<1> QED BY <1>1, <1>2, <1>4, <1>6, <1>7, <1>9 DEF t, Typed

\* Bytes go into the input buffer.
LEMMA BufferedIs ==
    ASSUME NEW s, Typed(s), NEW bytes \in Seq(Nat), NEW last \in BOOLEAN
    PROVE  LET u == Buffered(s, bytes, last)
           IN  /\ Typed(u) /\ Same(s, u, {"rxBuf", "rxCnt", "rxNxt", "rxWin", "ack", "force"})
               /\ u.rxBuf = s.rxBuf \o bytes /\ u.rxNxt = s.rxNxt + Len(bytes)
               /\ u.rxWin = IF Len(bytes) >= s.rxWin THEN 0 ELSE s.rxWin - Len(bytes)
               /\ s.rxNxt <= u.rxNxt /\ s.rxNxt + s.rxWin <= u.rxNxt + u.rxWin
<1> DEFINE bb == s.rxBuf \o bytes
           nn == s.rxNxt + Len(bytes)
           cc == s.rxCnt + Len(bytes)
           ww == IF Len(bytes) >= s.rxWin THEN 0 ELSE s.rxWin - Len(bytes)
           ff == s.force \/ last
           u == [s EXCEPT !.rxBuf = bb, !.rxCnt = cc, !.rxNxt = nn, !.rxWin = ww,
                          !.ack = TRUE, !.force = ff]
<1>0. Buffered(s, bytes, last) = u
  BY DEF Buffered
<1>1. /\ bb \in Seq(Nat) /\ nn \in Nat /\ cc \in Nat /\ ww \in 0 .. WinSize
      /\ s.rxNxt <= nn /\ s.rxNxt + s.rxWin <= nn + ww
  <2>1. /\ s.rxBuf \in Seq(Nat) /\ s.rxNxt \in Nat /\ s.rxCnt \in Nat
        /\ s.rxWin \in 0 .. WinSize /\ Len(bytes) \in Nat /\ WinSize \in Nat
    BY TcpAssumption DEF Typed, Fields
  <2>2. bb \in Seq(Nat)
    BY <2>1
  <2> QED BY SMTT(30), <2>1, <2>2
<1>2. ff \in BOOLEAN
  BY DEF Typed, Fields
<1> HIDE DEF bb, nn, cc, ww, ff
<1>3. Shaped(u) /\ Record(u)
  BY Zenon DEF Typed, Shaped, Record
<1>4. /\ Same(s, u, {"rxBuf", "rxCnt", "rxNxt", "rxWin", "ack", "force"})
      /\ u.rxBuf = bb /\ u.rxCnt = cc /\ u.rxNxt = nn /\ u.rxWin = ww
  BY DEF Typed, Shaped, Names, Same
<1>4a. u.ack \in BOOLEAN /\ u.force \in BOOLEAN
  <2>1. u.ack \in BOOLEAN
    BY DEF Typed, Shaped, Names
  <2>2. u.force = ff
    BY Zenon DEF Typed, Shaped, Names
  <2> QED BY <2>1, <2>2, <1>2
<1> HIDE DEF u
<1>5. Fields(u) /\ Ordered(u)
  BY <1>1, <1>4, <1>4a DEF Same, Fields, Ordered, Names, Typed
<1>6. Typed(u)
  BY <1>3, <1>5 DEF Typed
<1>7. s.rxNxt <= u.rxNxt /\ s.rxNxt + s.rxWin <= u.rxNxt + u.rxWin
  BY <1>1, <1>4
<1> QED BY <1>0, <1>4, <1>6, <1>7 DEF bb, nn, ww

\* Then what is forced goes out.
LEMMA TakenIs ==
    ASSUME NEW s, Typed(s), NEW bytes \in Seq(Nat), NEW last \in BOOLEAN
    PROVE  LET t == NutTcpOutput(Buffered(s, bytes, last), "nothing")
           IN  /\ Goes(s, t)
               /\ Same(s, t, {"rxBuf", "rxCnt", "rxNxt", "rxWin", "ack", "force", "out"})
               /\ t.rxBuf = s.rxBuf \o bytes /\ t.rxNxt = s.rxNxt + Len(bytes)
               /\ t.rxWin = IF Len(bytes) >= s.rxWin THEN 0 ELSE s.rxWin - Len(bytes)
<1> DEFINE u == Buffered(s, bytes, last)
           t == NutTcpOutput(u, "nothing")
<1>1. /\ Typed(u) /\ Same(s, u, {"rxBuf", "rxCnt", "rxNxt", "rxWin", "ack", "force"})
      /\ u.rxBuf = s.rxBuf \o bytes /\ u.rxNxt = s.rxNxt + Len(bytes)
      /\ u.rxWin = IF Len(bytes) >= s.rxWin THEN 0 ELSE s.rxWin - Len(bytes)
      /\ s.rxNxt <= u.rxNxt /\ s.rxNxt + s.rxWin <= u.rxNxt + u.rxWin
  BY BufferedIs
<1> HIDE DEF u
<1>2. "nothing" \in Kind
  BY DEF Kind
<1>3. Goes(s, u)
  <2>1. u.out = s.out /\ u.nbq = s.nbq /\ u.nxt = s.nxt
    BY <1>1 DEF Same, Names
  <2>2. Grows(s, u)
    BY <2>1, <1>1, Numbers DEF Grows
  <2> QED BY <1>1, <2>1, <2>2, GoesQuietly
<1>4. /\ Typed(t) /\ Same(u, t, {"ack", "force", "out", "nxt", "nbq"})
      /\ Emitted(u, t, "nothing")
  BY <1>1, <1>2, Emits
<1> HIDE DEF t
<1>5. t.nxt = u.nxt /\ t.nbq = u.nbq /\ t.rxNxt = u.rxNxt /\ t.rxWin = u.rxWin /\ t.rxBuf = u.rxBuf
  BY <1>4 DEF Emitted, Same, Names
<1>6. Goes(u, t)
  BY <1>1, <1>4, <1>5, GoesEmitting
<1>7. Goes(s, t)
  BY <1>3, <1>6, GoesTrans
<1>8. Same(s, t, {"rxBuf", "rxCnt", "rxNxt", "rxWin", "ack", "force", "out"})
  BY <1>1, <1>4, <1>5 DEF Same, Names
<1> QED BY <1>1, <1>5, <1>7, <1>8 DEF t, u

LEMMA ForceAckGoes ==
    ASSUME NEW s, Typed(s)
    PROVE  Goes(s, ForceAck(s)) /\ Same(s, ForceAck(s), {"ack", "force", "out"})
<1> DEFINE t == ForceAck(s)
<1>1. Typed(t) /\ Same(s, t, {"ack", "force", "out"}) /\ Emitted(s, t, "nothing")
  BY ForceAckIs
<1> HIDE DEF t
<1>2. t.rxNxt = s.rxNxt /\ t.rxWin = s.rxWin
  BY <1>1 DEF Same, Names
<1> QED BY <1>1, <1>2, GoesEmitting DEF t

\* All changes of state that do not send a SYN.
LEMMA StateChangeGoes ==
    ASSUME NEW s, Typed(s), NEW x \in State \ {"SYN_SENT", "SYN_RECEIVED"}
    PROVE  LET t == NutTcpStateChange(s, x)
           IN  /\ Goes(s, t) /\ Same(s, t, {"state", "ack", "force", "out", "nxt", "nbq"})
               /\ t.state = IF Follows(s.state, x) THEN x ELSE s.state
               /\ ~Follows(s.state, x) => t.nbq = s.nbq
<1> DEFINE t == NutTcpStateChange(s, x)
<1>1. Typed(t) /\ Same(s, t, {"state", "ack", "force", "out", "nxt", "nbq"})
  BY StateChangeIs
<1>2a. Follows(s.state, x) => t.state = x
  BY StateChangeIs
<1>2b. Follows(s.state, x) => \E what : Sends(s.state, x, what) /\ Emitted(s, t, what)
  BY StateChangeIs
<1>2c. ~Follows(s.state, x) =>
          t.state = s.state /\ t.out = s.out /\ t.nxt = s.nxt /\ t.nbq = s.nbq
  BY StateChangeIs
<1> HIDE DEF t
<1>2. t.rxNxt = s.rxNxt /\ t.rxWin = s.rxWin
  BY <1>1 DEF Same, Names
<1>3. CASE Follows(s.state, x)
  <2>1. PICK what : Sends(s.state, x, what) /\ Emitted(s, t, what)
    BY <1>2b, <1>3
  <2>2. what \in {"FIN", "nothing"}
    BY <2>1 DEF Sends, Kind
  <2> QED BY <1>1, <1>2a, <1>2, <1>3, <2>1, <2>2, GoesEmitting DEF t
<1>4. CASE ~Follows(s.state, x)
  <2>1. Grows(s, t)
    BY <1>2c, <1>2, <1>4, GrowsSame
  <2> QED BY <1>1, <1>2c, <1>4, <2>1, GoesQuietly DEF t
<1> QED BY <1>3, <1>4

LEMMA RejectedIs ==
    ASSUME NEW s, Typed(s), NEW g \in Segment
    PROVE  Goes(s, Rejected(s, g)) /\ Same(s, Rejected(s, g), {"out"})
<1> DEFINE oo == s.out \o NutTcpReject(g)
           u == [s EXCEPT !.out = oo]
<1>0. Rejected(s, g) = u
  BY DEF Rejected
<1>1. NutTcpReject(g) = <<>> \/ \E r \in Segment : /\ NutTcpReject(g) = <<r>>
                                                 /\ "RST" \in r.flags /\ r.data = FALSE
  <2> DEFINE r1 == [flags |-> {"RST"}, seq |-> 0, ack |-> 0, win |-> 0, data |-> FALSE]
             n == IF "SYN" \in g.flags THEN g.seq + 1 ELSE g.seq
             r2 == [r1 EXCEPT !.flags = {"RST", "ACK"}, !.ack = n]
  <2>0. n \in Nat
    BY SegmentFields
  <2> HIDE DEF n
  <2>1. r1 \in Segment /\ "RST" \in r1.flags /\ r1.data = FALSE
    BY TcpAssumption DEF Segment
  <2> HIDE DEF r1
  <2>2. r2 \in Segment /\ r2.flags = {"RST", "ACK"} /\ r2.data = r1.data
    BY <2>0, <2>1 DEF Segment
  <2>3. CASE "RST" \in g.flags
    BY <2>3 DEF NutTcpReject
  <2>4. CASE "RST" \notin g.flags /\ "ACK" \in g.flags
    <3>1. NutTcpReject(g) = <<r1>>
      BY <2>4 DEF NutTcpReject, r1
    <3> QED BY <2>1, <3>1
  <2>5. CASE "RST" \notin g.flags /\ "ACK" \notin g.flags
    <3>1. NutTcpReject(g) = <<r2>>
      BY <2>5 DEF NutTcpReject, n, r1
    <3> HIDE DEF r2
    <3>2. "RST" \in r2.flags /\ r2.data = FALSE
      BY <2>1, <2>2
    <3> QED BY <2>2, <3>1, <3>2
  <2> QED BY <2>3, <2>4, <2>5
<1>2. CASE NutTcpReject(g) = <<>>
  <2>1. s.out \in Seq(Segment)
    BY DEF Typed, Fields
  <2>2. oo = s.out
    BY <1>2, <2>1
  <2> HIDE DEF oo
  <2>3. Shaped(u) /\ Record(u)
    BY Zenon DEF Typed, Shaped, Record
  <2>4. Same(s, u, {"out"}) /\ u.out = s.out
    BY <2>2 DEF Typed, Shaped, Names, Same
  <2> HIDE DEF u
  <2>5. Fields(u) /\ Ordered(u)
    BY <2>4 DEF Same, Fields, Ordered, Names, Typed
  <2>6. u.nbq = s.nbq /\ Grows(s, u)
    BY <2>4, GrowsSame DEF Same, Names
  <2> QED BY <1>0, <2>3, <2>4, <2>5, <2>6, GoesQuietly DEF Typed
<1>3. ASSUME NEW r \in Segment, NutTcpReject(g) = <<r>>, "RST" \in r.flags, r.data = FALSE
      PROVE  Goes(s, u) /\ Same(s, u, {"out"})
  <2>1. s.out \in Seq(Segment)
    BY DEF Typed, Fields
  <2>2. oo = Append(s.out, r) /\ oo \in Seq(Segment)
    BY <1>3, <2>1
  <2> HIDE DEF oo
  <2>3. Shaped(u) /\ Record(u)
    BY Zenon DEF Typed, Shaped, Record
  <2>4. Same(s, u, {"out"}) /\ u.out = oo
    BY DEF Typed, Shaped, Names, Same
  <2> HIDE DEF u
  <2>5. Fields(u) /\ Ordered(u)
    BY <2>2, <2>4 DEF Same, Fields, Ordered, Names, Typed
  <2>6. u.nbq = s.nbq /\ Grows(s, u)
    BY <2>4, GrowsSame DEF Same, Names
  <2>7. New(u, r)
    BY <1>3 DEF New
  <2>8. \A x : Member(u.out, x) => Member(s.out, x) \/ x = r
    BY <2>1, <2>2, <2>4, AppendMember
  <2>9. Issues(s, u)
    BY <2>6, <2>7, <2>8, Zenon DEF Issues
  <2> QED BY <2>3, <2>4, <2>5, <2>6, <2>9 DEF Goes, Typed
<1> QED BY <1>0, <1>1, <1>2, <1>3

-----------------------------------------------------------------------------
(* What the application reads.                                             *)

\* The bytes read and those to be read are in order, and reach as far as so_rx_nxt.
Tidy(s) ==
    s.skew = FALSE =>
       /\ \A i \in DOMAIN s.read : s.read[i] = s.rxIsn + i
       /\ s.app # "closed" =>
             \A i \in DOMAIN s.rxBuf : s.rxBuf[i] = s.rxIsn + Len(s.read) + i
       /\ s.state \in {"SYN_RECEIVED", "ESTABLISHED"} =>
             s.rxNxt = s.rxIsn + Len(s.read) + Len(s.rxBuf) + 1
       /\ s.state = "CLOSE_WAIT" =>
             s.rxNxt = s.rxIsn + Len(s.read) + Len(s.rxBuf) + 2

\* In these states bytes may be taken.
Taking(s) == s.state \in {"SYN_RECEIVED", "ESTABLISHED"} \/ s.app = "closed"

StreamFields == {"skew", "read", "rxIsn", "rxBuf", "rxNxt"}

LEMMA TidySame ==
    ASSUME NEW s, NEW t, NEW F, Tidy(s), Same(s, t, F), F \cap StreamFields = {},
           t.app # "closed" => s.app # "closed",
           \/ t.state \notin {"SYN_RECEIVED", "ESTABLISHED", "CLOSE_WAIT"}
           \/ t.state = s.state
           \/ t.state \in {"SYN_RECEIVED", "ESTABLISHED"}
              /\ s.state \in {"SYN_RECEIVED", "ESTABLISHED"}
    PROVE  Tidy(t)
<1>1. /\ t.skew = s.skew /\ t.read = s.read /\ t.rxIsn = s.rxIsn
      /\ t.rxBuf = s.rxBuf /\ t.rxNxt = s.rxNxt
  BY DEF Same, Names, StreamFields
<1> QED BY <1>1 DEF Tidy

\* The bytes from so_rx_nxt on.
Following(s, bytes) == \A i \in DOMAIN bytes : bytes[i] = s.rxNxt + i - 1

\* Bytes that follow so_rx_nxt are taken.
LEMMA TidyTaken ==
    ASSUME NEW s, NEW t, NEW bytes \in Seq(Nat), Typed(s), Tidy(s), Taking(s),
           Same(s, t, {"rxBuf", "rxCnt", "rxNxt", "rxWin", "ack", "force", "out"}),
           t.rxBuf = s.rxBuf \o bytes, t.rxNxt = s.rxNxt + Len(bytes),
           s.skew = FALSE => Following(s, bytes)
    PROVE  Tidy(t) /\ Taking(t)
<1>1. /\ t.skew = s.skew /\ t.read = s.read /\ t.rxIsn = s.rxIsn
      /\ t.state = s.state /\ t.app = s.app
  BY DEF Same, Names
<1>2. /\ s.read \in Seq(Nat) /\ s.rxBuf \in Seq(Nat) /\ s.rxIsn \in Nat /\ s.rxNxt \in Nat
      /\ Len(s.read) \in Nat /\ Len(s.rxBuf) \in Nat /\ Len(bytes) \in Nat
  <2>1. /\ s.read \in Seq(Nat) /\ s.rxBuf \in Seq(Nat)
        /\ s.rxIsn \in Nat /\ s.rxNxt \in Nat
    BY DEF Typed, Fields
  <2> QED BY <2>1
<1>3. /\ Len(t.rxBuf) = Len(s.rxBuf) + Len(bytes)
      /\ DOMAIN t.rxBuf = 1 .. Len(s.rxBuf) + Len(bytes)
      /\ \A i \in 1 .. Len(s.rxBuf) : t.rxBuf[i] = s.rxBuf[i]
      /\ \A i \in 1 .. Len(bytes) : t.rxBuf[Len(s.rxBuf) + i] = bytes[i]
  BY <1>2
<1>4. ASSUME s.skew = FALSE, s.app # "closed", NEW i \in DOMAIN t.rxBuf
      PROVE  t.rxBuf[i] = s.rxIsn + Len(s.read) + i
  <2>1. CASE i <= Len(s.rxBuf)
    <3>1. i \in DOMAIN s.rxBuf
      BY <1>2, <1>3, <2>1
    <3> QED BY <1>3, <1>4, <3>1, <1>2 DEF Tidy
  <2>2. CASE i > Len(s.rxBuf)
    <3> DEFINE j == i - Len(s.rxBuf)
    <3>1. j \in 1 .. Len(bytes) /\ i = Len(s.rxBuf) + j
      <4> DEFINE l == Len(s.rxBuf)
                 m == Len(bytes)
      <4>1. l \in Nat /\ m \in Nat /\ i \in 1 .. l + m /\ i > l
        BY <1>2, <1>3, <2>2, Zenon
      <4> HIDE DEF l, m
      <4>2. i - l \in 1 .. m /\ i = l + (i - l)
        BY <4>1
      <4> QED BY <4>2 DEF l, m
    <3> HIDE DEF j
    <3>2. t.rxBuf[i] = bytes[j]
      BY <1>3, <3>1
    <3>3. bytes[j] = s.rxNxt + j - 1
      BY <1>4, <3>1 DEF Following
    <3>4. s.rxNxt = s.rxIsn + Len(s.read) + Len(s.rxBuf) + 1
      BY <1>4 DEF Tidy, Taking
    <3>5. /\ j \in Nat /\ Len(s.read) \in Nat /\ Len(s.rxBuf) \in Nat /\ s.rxIsn \in Nat
          /\ s.rxNxt \in Nat
      BY <1>2, <3>1
    <3> DEFINE a == s.rxIsn
               b == Len(s.read)
               c == Len(s.rxBuf)
               n == s.rxNxt
               x == bytes[j]
    <3>6. /\ x = n + j - 1 /\ n = a + b + c + 1
          /\ j \in Nat /\ a \in Nat /\ b \in Nat /\ c \in Nat
      BY <3>3, <3>4, <3>5
    <3> HIDE DEF a, b, c, n, x
    <3>7. x = a + b + (c + j)
      BY <3>6
    <3> QED BY <3>1, <3>2, <3>7 DEF a, b, c, x
  <2> QED BY <2>1, <2>2, <1>2, <1>3
<1>5. ASSUME s.skew = FALSE, s.state \in {"SYN_RECEIVED", "ESTABLISHED"}
      PROVE  t.rxNxt = s.rxIsn + Len(s.read) + Len(t.rxBuf) + 1
  <2> DEFINE a == s.rxIsn
             b == Len(s.read)
             c == Len(s.rxBuf)
             m == Len(bytes)
             n == s.rxNxt
  <2>1. /\ n = a + b + c + 1 /\ a \in Nat /\ b \in Nat /\ c \in Nat /\ m \in Nat
    BY <1>5, <1>2 DEF Tidy
  <2>2. t.rxNxt = n + m /\ Len(t.rxBuf) = c + m
    BY <1>3
  <2> HIDE DEF a, b, c, m, n
  <2>3. n + m = a + b + (c + m) + 1
    BY <2>1
  <2>4. t.rxNxt = a + b + Len(t.rxBuf) + 1
    BY <2>2, <2>3, Zenon
  <2> QED BY <2>4 DEF a, b
<1>6. s.state = "CLOSE_WAIT" => s.app = "closed"
  BY DEF Taking
<1>7. Taking(t)
  BY <1>1 DEF Taking
<1>8. ASSUME s.skew = FALSE, s.state = "CLOSE_WAIT"
      PROVE  t.rxNxt = s.rxIsn + Len(s.read) + Len(t.rxBuf) + 2
  <2> DEFINE a == s.rxIsn
             b == Len(s.read)
             c == Len(s.rxBuf)
             m == Len(bytes)
             n == s.rxNxt
  <2>1. /\ n = a + b + c + 2 /\ a \in Nat /\ b \in Nat /\ c \in Nat /\ m \in Nat
    BY <1>8, <1>2 DEF Tidy
  <2>2. t.rxNxt = n + m /\ Len(t.rxBuf) = c + m
    BY <1>3
  <2> HIDE DEF a, b, c, m, n
  <2>3. n + m = a + b + (c + m) + 2
    BY <2>1
  <2>4. t.rxNxt = a + b + Len(t.rxBuf) + 2
    BY <2>2, <2>3, Zenon
  <2> QED BY <2>4 DEF a, b
<1> QED BY <1>1, <1>4, <1>5, <1>7, <1>8 DEF Tidy

-----------------------------------------------------------------------------
(* The end of a handler.                                                   *)

\* Where a handler that looks at the flags at last leaves the socket.
Ends(s, t) ==
    \/ t.sm = NIL /\ t.state = s.state
    \/ /\ t.sm # NIL /\ t.sm.at = "closewait" /\ t.state = "CLOSE_WAIT"
       /\ s.state \in {"SYN_RECEIVED", "ESTABLISHED"}

EndFields == {"rxNxt", "state", "ack", "force", "out", "nxt", "nbq", "sm"}

LEMMA MoveOnIs ==
    ASSUME NEW s, Typed(s)
    PROVE  LET t == [s EXCEPT !.rxNxt = @ + 1]
           IN  Goes(s, t) /\ Same(s, t, {"rxNxt"}) /\ t.rxNxt = s.rxNxt + 1
<1> DEFINE n == s.rxNxt + 1
           t == [s EXCEPT !.rxNxt = n]
<1>0. n \in Nat
  BY Numbers
<1>1. [s EXCEPT !.rxNxt = @ + 1] = t
  BY DEF Typed, Shaped, Names
<1> HIDE DEF n
<1>2. Shaped(t) /\ Record(t)
  BY Zenon DEF Typed, Shaped, Record
<1>3. Same(s, t, {"rxNxt"}) /\ t.rxNxt = n
  BY DEF Typed, Shaped, Names, Same
<1> HIDE DEF t
<1>4. Fields(t) /\ Ordered(t)
  BY <1>0, <1>3 DEF Same, Fields, Ordered, Names, Typed
<1>5. t.out = s.out /\ t.nbq = s.nbq /\ t.nxt = s.nxt /\ t.rxWin = s.rxWin
  BY <1>3 DEF Same, Names
<1>6. Grows(s, t)
  BY <1>3, <1>5, Numbers DEF Grows, n
<1>7. Goes(s, t)
  BY <1>2, <1>4, <1>5, <1>6, GoesQuietly DEF Typed
<1> QED BY <1>1, <1>3, <1>7 DEF n

LEMMA EnterCloseWaitIs ==
    ASSUME NEW s, Typed(s), s.state # "CLOSE_WAIT"
    PROVE  LET t == EnterCloseWait(s)
           IN  /\ Goes(s, t) /\ Same(s, t, EndFields) /\ Ends(s, t)
               /\ t.rxNxt = s.rxNxt + 1 /\ t.state \notin {"SYN_RECEIVED", "ESTABLISHED"}
               /\ t.state = s.state => t.nbq = s.nbq
               /\ Tidy(s) => Tidy(t)
<1> DEFINE u == [s EXCEPT !.rxNxt = @ + 1]
           v == NutTcpStateChange(u, "CLOSE_WAIT")
           t == IF v.state = "CLOSE_WAIT" THEN Then(v, "closewait", {"FIN"}) ELSE Done(v)
<1>0. EnterCloseWait(s) = t
  BY DEF EnterCloseWait
<1>1. Goes(s, u) /\ Same(s, u, {"rxNxt"}) /\ u.rxNxt = s.rxNxt + 1 /\ Typed(u)
  BY MoveOnIs DEF Goes
<1> HIDE DEF u
<1>2. /\ Goes(u, v) /\ Same(u, v, {"state", "ack", "force", "out", "nxt", "nbq"})
      /\ v.state = IF Follows(u.state, "CLOSE_WAIT") THEN "CLOSE_WAIT" ELSE u.state
      /\ ~Follows(u.state, "CLOSE_WAIT") => v.nbq = u.nbq
  <2>1. "CLOSE_WAIT" \in State \ {"SYN_SENT", "SYN_RECEIVED"}
    BY DEF State
  <2> QED BY <1>1, <2>1, StateChangeGoes
<1>3. u.state = s.state /\ Typed(v) /\ u.nbq = s.nbq
  BY <1>1, <1>2 DEF Same, Names, Goes
<1> HIDE DEF v
<1>4. /\ Goes(v, t) /\ Same(v, t, {"sm"})
      /\ v.state = "CLOSE_WAIT" => t.sm # NIL /\ t.sm.at = "closewait"
      /\ v.state # "CLOSE_WAIT" => t.sm = NIL
  <2>1. Goes(v, Done(v)) /\ Same(v, Done(v), {"sm"}) /\ Done(v).sm = NIL
    BY <1>3, DoneIs
  <2>2. LET w == Then(v, "closewait", {"FIN"})
        IN  Goes(v, w) /\ Same(v, w, {"sm"}) /\ w.sm # NIL /\ w.sm.at = "closewait"
    BY <1>3, ThenIs
  <2> QED BY <2>1, <2>2
<1> HIDE DEF t
<1>5. Goes(s, t)
  BY <1>1, <1>2, <1>3, <1>4, GoesTrans
<1>6. Same(s, t, EndFields) /\ t.state = v.state /\ t.rxNxt = s.rxNxt + 1
  BY <1>1, <1>2, <1>4 DEF Same, Names, EndFields
<1>7. Ends(s, t)
  BY <1>2, <1>3, <1>4, <1>6 DEF Ends, Follows
<1>9. t.state \notin {"SYN_RECEIVED", "ESTABLISHED"}
  BY <1>2, <1>3, <1>6 DEF Follows
<1>10. t.state = s.state => t.nbq = s.nbq
  <2>1. t.nbq = v.nbq
    BY <1>4 DEF Same, Names
  <2> QED BY <1>2, <1>3, <1>6, <2>1
<1>8. ASSUME Tidy(s) PROVE Tidy(t)
  <2>1. /\ t.skew = s.skew /\ t.read = s.read /\ t.rxIsn = s.rxIsn /\ t.rxBuf = s.rxBuf
        /\ t.app = s.app
    BY <1>6 DEF Same, Names, EndFields
  <2>2. \/ t.state = "CLOSE_WAIT" /\ s.state \in {"SYN_RECEIVED", "ESTABLISHED"}
        \/ t.state \notin {"SYN_RECEIVED", "ESTABLISHED", "CLOSE_WAIT"}
    BY <1>2, <1>3, <1>6 DEF Follows
  <2>3. Len(s.read) \in Nat /\ Len(s.rxBuf) \in Nat /\ s.rxIsn \in Nat /\ s.rxNxt \in Nat
    BY DEF Typed, Fields
  <2> QED BY SMTT(30), <1>6, <1>8, <2>1, <2>2, <2>3 DEF Tidy
<1> QED BY <1>0, <1>5, <1>6, <1>7, <1>8, <1>9, <1>10

LEMMA CheckFinIs ==
    ASSUME NEW s, Typed(s), s.state # "CLOSE_WAIT", NEW f \in SUBSET {"FIN"}
    PROVE  LET t == CheckFin(s, f)
           IN  /\ Goes(s, t) /\ Same(s, t, EndFields) /\ Ends(s, t)
               /\ t.rxNxt = IF f = {} THEN s.rxNxt ELSE s.rxNxt + 1
               /\ f # {} => t.state \notin {"SYN_RECEIVED", "ESTABLISHED"}
               /\ Tidy(s) => Tidy(t)
<1>1. CASE f # {}
  BY <1>1, EnterCloseWaitIs DEF CheckFin
<1>2. CASE f = {}
  <2> DEFINE t == Done(s)
  <2>1. CheckFin(s, f) = t
    BY <1>2 DEF CheckFin
  <2>2. Goes(s, t) /\ Same(s, t, {"sm"}) /\ t.sm = NIL
    BY DoneIs
  <2> HIDE DEF t
  <2>3. Same(s, t, EndFields) /\ Ends(s, t) /\ t.state = s.state /\ t.app = s.app
        /\ t.rxNxt = s.rxNxt
    BY <2>2 DEF Same, Names, EndFields, Ends
  <2>4. Tidy(s) => Tidy(t)
    <3>1. {"sm"} \cap StreamFields = {}
      BY DEF StreamFields
    <3> QED BY <2>2, <2>3, <3>1, TidySame
  <2> QED BY <1>2, <2>1, <2>2, <2>3, <2>4
<1> QED BY <1>1, <1>2

-----------------------------------------------------------------------------
(* NutTcpStateEstablished and the loop at its end.                         *)

\* The segments that are absorbed follow so_rx_nxt; those that stay do not.
LEMMA InSequenceIs ==
    ASSUME NEW s, Typed(s)
    PROVE  LET take == InSequence(s)
               n    == s.rxNxt + Len(take)
               rest == Later(s.adv, n)
           IN  /\ take \in Seq(Segment)
               /\ \A i \in DOMAIN take : take[i].seq = s.rxNxt + i - 1 /\ Member(s.adv, take[i])
               /\ rest \in Seq(Segment) /\ Ascending(rest)
               /\ \A i \in DOMAIN rest : rest[i].seq > n /\ Member(s.adv, rest[i])
               /\ Len(take) + Len(rest) <= Len(s.adv)
<1> DEFINE q    == s.adv
           m    == s.rxNxt
           live == Later(q, m)
           k    == Adjoining(live, m)
           take == SubSeq(live, 1, k)
           E    == Earlier(q, m)
           n    == m + k
           rest == Later(q, n)
           D    == Earlier(q, n)
<1>0. InSequence(s) = take
  BY DEF InSequence
<1>1. q \in Seq(Segment) /\ Ascending(q) /\ m \in Nat
  BY DEF Typed, Fields, Ordered
<1> HIDE DEF q, m
<1>2. E \in 0 .. Len(q) /\ \A i \in DOMAIN q : q[i].seq < m <=> i <= E
  BY <1>1, EarlierIs
<1>3. /\ live \in Seq(Segment) /\ Ascending(live) /\ Len(live) = Len(q) - E
      /\ \A i \in 1 .. Len(live) : live[i] = q[E + i]
      /\ \A i \in DOMAIN live : live[i].seq >= m /\ \E j \in DOMAIN q : live[i] = q[j]
  BY <1>1, LaterIs
<1> HIDE DEF live, E
<1>4. /\ k \in 0 .. Len(live)
      /\ \A i \in 1 .. k : live[i].seq = m + i - 1
      /\ k < Len(live) => live[k + 1].seq # m + k
  BY <1>1, <1>3, AdjoiningIs
<1> HIDE DEF k
<1>5. /\ take \in Seq(Segment) /\ Len(take) = k
      /\ \A i \in 1 .. k : take[i] = live[i]
  BY <1>3, <1>4
<1> HIDE DEF take
<1>6. n \in Nat /\ s.rxNxt + Len(take) = n
  BY <1>1, <1>4, <1>5 DEF m
<1> HIDE DEF n
<1>7. D \in 0 .. Len(q) /\ \A i \in DOMAIN q : q[i].seq < n <=> i <= D
  BY <1>1, <1>6, EarlierIs
<1>8. /\ rest \in Seq(Segment) /\ Ascending(rest) /\ Len(rest) = Len(q) - D
      /\ \A i \in DOMAIN rest : rest[i].seq >= n /\ \E j \in DOMAIN q : rest[i] = q[j]
  BY <1>1, <1>6, LaterIs
<1> HIDE DEF rest, D
<1>9. ASSUME NEW i \in DOMAIN take
      PROVE  take[i].seq = m + i - 1 /\ Member(q, take[i])
  <2>1. i \in 1 .. k /\ i \in DOMAIN live
    BY <1>3, <1>4, <1>5
  <2> QED BY <2>1, <1>3, <1>4, <1>5 DEF Member
<1>10. \A j \in DOMAIN q : q[j].seq # n
  <2> SUFFICES ASSUME NEW j \in DOMAIN q, q[j].seq = n PROVE FALSE
    OBVIOUS
  <2>1. j \in 1 .. Len(q) /\ n = m + k /\ k \in Nat
    BY <1>1, <1>4 DEF n
  <2>2. E \in Nat /\ j > E
    BY <1>1, <1>2, <2>1
  <2> DEFINE i == j - E
  <2>3. i \in 1 .. Len(live) /\ live[i] = q[j]
    BY <1>2, <1>3, <2>1, <2>2
  <2> HIDE DEF i
  <2>4. i > k
    BY <1>1, <1>4, <2>1, <2>3
  <2>5. k + 1 \in DOMAIN live /\ i \in DOMAIN live /\ k < Len(live)
    BY <1>3, <1>4, <2>1, <2>3, <2>4
  <2>6. live[k + 1].seq \in Nat /\ live[k + 1].seq # m + k
    BY <1>3, <1>4, <2>5, QueueFields
  <2>7. live[k + 1].seq <= m + k
    <3>1. CASE i = k + 1
      BY <3>1, <2>1, <2>3, <2>6
    <3>2. CASE i # k + 1
      <4>1. k + 1 < i
        BY <2>1, <2>3, <2>4, <3>2
      <4>2. live[k + 1].seq < live[i].seq
        BY <1>3, <2>5, <4>1 DEF Ascending
      <4> QED BY <4>2, <2>1, <2>3, <2>6, <1>1
    <3> QED BY <3>1, <3>2
  <2>8. CASE k = 0
    BY <2>8, <2>5, <2>6, <2>7, <1>1, <1>3
  <2>9. CASE k # 0
    <3>1. k \in DOMAIN live /\ k < k + 1
      BY <2>9, <2>1, <2>5, <1>3, <1>4
    <3>2. live[k].seq < live[k + 1].seq
      BY <1>3, <2>5, <3>1 DEF Ascending
    <3>3. live[k].seq = m + k - 1
      BY <1>4, <2>1, <2>9
    <3> QED BY <3>2, <3>3, <2>6, <2>7, <2>1, <1>1
  <2> QED BY <2>8, <2>9
<1>11. ASSUME NEW i \in DOMAIN rest
       PROVE  rest[i].seq > n /\ Member(q, rest[i])
  <2>1. PICK j \in DOMAIN q : rest[i] = q[j]
    BY <1>8
  <2>2. q[j].seq \in Nat
    BY <1>1, QueueFields
  <2> QED BY <1>6, <1>8, <1>10, <2>1, <2>2 DEF Member
<1>12. E + k <= D
  <2>1. E \in Nat /\ k \in Nat /\ D \in Nat /\ n = m + k
    BY <1>1, <1>2, <1>3, <1>4, <1>7 DEF n
  <2>2. CASE k = 0
    <3>1. n = m
      BY <2>1, <2>2, <1>1
    <3>2. CASE E = 0
      BY <2>1, <2>2, <3>2
    <3>3. CASE E # 0
      <4>1. E \in DOMAIN q
        BY <1>1, <1>2, <2>1, <3>3
      <4> QED BY <4>1, <3>1, <1>2, <1>7, <2>1, <2>2
    <3> QED BY <3>2, <3>3
  <2>3. CASE k # 0
    <3>1. E + k \in DOMAIN q /\ k \in 1 .. Len(live)
      BY <1>1, <1>2, <1>3, <1>4, <2>1, <2>3
    <3>2. q[E + k].seq = m + k - 1
      BY <3>1, <1>3, <1>4
    <3>3. q[E + k].seq < n
      BY <3>2, <2>1, <1>1
    <3> QED BY <3>1, <3>3, <1>7
  <2> QED BY <2>2, <2>3
<1>13. Len(take) + Len(rest) <= Len(q)
  BY <1>1, <1>2, <1>3, <1>4, <1>5, <1>7, <1>8, <1>12
<1>14. /\ take = InSequence(s) /\ rest = Later(s.adv, s.rxNxt + Len(InSequence(s)))
  BY <1>0, <1>6 DEF rest, q
<1> HIDE DEF take
<1> QED BY <1>0, <1>5, <1>6, <1>8, <1>9, <1>11, <1>13, <1>14 DEF q, m

AbsorbFields == EndFields \cup {"rxBuf", "rxCnt", "rxWin", "adv", "app"}

\* Socket t has taken k bytes more than s into the input buffer.
Took(s, t, k) ==
    /\ k \in Nat
    /\ Len(t.rxBuf) = Len(s.rxBuf) + k
    /\ t.rxWin = IF k >= s.rxWin THEN 0 ELSE s.rxWin - k
    /\ k + Len(t.adv) <= Len(s.adv)
    /\ \A i \in DOMAIN t.adv : t.adv[i].seq > s.rxNxt + k /\ Member(s.adv, t.adv[i])
    /\ t.rxNxt \in {s.rxNxt + k, s.rxNxt + k + 1}
    /\ t.state \in {"SYN_RECEIVED", "ESTABLISHED"} => t.rxNxt = s.rxNxt + k

LEMMA SetAdvIs ==
    ASSUME NEW s, Typed(s), NEW q \in Seq(Segment), Ascending(q)
    PROVE  LET t == [s EXCEPT !.adv = q]
           IN  Goes(s, t) /\ Same(s, t, {"adv"}) /\ t.adv = q
<1> DEFINE t == [s EXCEPT !.adv = q]
<1>1. Shaped(t) /\ Record(t)
  BY Zenon DEF Typed, Shaped, Record
<1>2. Same(s, t, {"adv"}) /\ t.adv = q
  BY DEF Typed, Shaped, Names, Same
<1> HIDE DEF t
<1>3. Fields(t) /\ Ordered(t)
  BY <1>2 DEF Same, Fields, Ordered, Names, Typed
<1>4. {"adv"} \cap {"out", "nbq", "nxt", "rxNxt", "rxWin"} = {}
  OBVIOUS
<1>5. Goes(s, t)
  BY <1>1, <1>2, <1>3, <1>4, GoesSame DEF Typed
<1> QED BY <1>2, <1>5 DEF t

LEMMA ConcatLen ==
    ASSUME NEW p \in Seq(Nat), NEW q \in Seq(Nat)
    PROVE  Len(p \o q) = Len(p) + Len(q)
  OBVIOUS

LEMMA AbsorbIs ==
    ASSUME NEW s, Typed(s), s.state # "CLOSE_WAIT", NEW f \in SUBSET {"FIN"}
    PROVE  LET t == Absorb(s, f)
           IN  /\ Goes(s, t) /\ Same(s, t, AbsorbFields)
               /\ \/ /\ t.sm # NIL /\ t.sm.at = "post"
                     /\ t.state = s.state /\ t.app = s.app
                  \/ /\ Ends(s, t)
                     /\ t.app = IF s.app = "rx" THEN "rxw" ELSE s.app
               /\ \E k : Took(s, t, k)
               /\ Tidy(s) /\ Taking(s) => Tidy(t)
<1> DEFINE take  == InSequence(s)
           k     == Len(take)
           rest  == Later(s.adv, s.rxNxt + k)
           all   == f \cup UNION {Fin(take[i]) : i \in DOMAIN take}
           bytes == [i \in DOMAIN take |-> take[i].seq]
           got   == IF take = <<>> THEN s
                    ELSE NutTcpOutput(Buffered(s, bytes, rest = <<>>), "nothing")
           u     == [got EXCEPT !.adv = rest]
           p     == Then(u, "post", all)
           w     == WakeRx(u)
           c     == CheckFin(w, all)
           t     == IF rest = <<>> /\ take # <<>> THEN p ELSE c
<1>0. Absorb(s, f) = t
  BY DEF Absorb
<1>1. /\ take \in Seq(Segment)
      /\ \A i \in DOMAIN take : take[i].seq = s.rxNxt + i - 1 /\ Member(s.adv, take[i])
      /\ rest \in Seq(Segment) /\ Ascending(rest)
      /\ \A i \in DOMAIN rest : rest[i].seq > s.rxNxt + k /\ Member(s.adv, rest[i])
      /\ k + Len(rest) <= Len(s.adv)
  BY InSequenceIs
<1>2. all \in SUBSET {"FIN"}
  BY DEF Fin
<1> HIDE DEF take, rest, all
<1>3. k \in Nat /\ bytes \in Seq(Nat) /\ Len(bytes) = k /\ DOMAIN bytes = DOMAIN take
  <2>1. \A i \in 1 .. k : take[i].seq \in Nat
    BY <1>1, QueueFields
  <2> QED BY <1>1, <2>1
<1>4. Following(s, bytes)
  BY <1>1, <1>3 DEF Following
<1> HIDE DEF bytes
<1>5. /\ Goes(s, got)
      /\ Same(s, got, {"rxBuf", "rxCnt", "rxNxt", "rxWin", "ack", "force", "out"})
      /\ Len(got.rxBuf) = Len(s.rxBuf) + k
      /\ got.rxNxt = s.rxNxt + k
      /\ got.rxWin = IF k >= s.rxWin THEN 0 ELSE s.rxWin - k
      /\ Tidy(s) /\ Taking(s) => Tidy(got) /\ Taking(got)
  <2>0. s.rxNxt \in Nat /\ s.rxWin \in Nat
    BY Numbers
  <2>1. CASE take = <<>>
    <3>1. got = s /\ k = 0
      BY <2>1
    <3>2. Goes(s, s) /\ Same(s, s, {"rxBuf", "rxCnt", "rxNxt", "rxWin", "ack", "force", "out"})
      BY GrowsSame, GoesQuietly DEF Same
    <3>3. Len(s.rxBuf) \in Nat
      BY DEF Typed, Fields
    <3> HIDE DEF k, got
    <3> QED BY <2>0, <3>1, <3>2, <3>3
  <2>2. CASE take # <<>>
    <3>1. PICK l \in BOOLEAN : l <=> rest = <<>>
      OBVIOUS
    <3> DEFINE v == NutTcpOutput(Buffered(s, bytes, l), "nothing")
    <3>2. got = v
      BY <2>2, <3>1 DEF Buffered
    <3>3. /\ Goes(s, v)
          /\ Same(s, v, {"rxBuf", "rxCnt", "rxNxt", "rxWin", "ack", "force", "out"})
          /\ v.rxBuf = s.rxBuf \o bytes /\ v.rxNxt = s.rxNxt + Len(bytes)
          /\ v.rxWin = IF Len(bytes) >= s.rxWin THEN 0 ELSE s.rxWin - Len(bytes)
      BY <1>3, TakenIs
    <3> HIDE DEF v, got
    <3>4. Len(v.rxBuf) = Len(s.rxBuf) + k
      <4>1. s.rxBuf \in Seq(Nat)
        BY DEF Typed, Fields
      <4>2. Len(s.rxBuf \o bytes) = Len(s.rxBuf) + Len(bytes)
        BY <4>1, <1>3, ConcatLen
      <4> QED BY <3>3, <4>2, <1>3
    <3>5. Tidy(s) /\ Taking(s) => Tidy(v) /\ Taking(v)
      BY <1>3, <1>4, <3>3, TidyTaken
    <3> QED BY <1>3, <3>2, <3>3, <3>4, <3>5
  <2> QED BY <2>1, <2>2
<1> HIDE DEF got, k
<1>6. Goes(got, u) /\ Same(got, u, {"adv"}) /\ u.adv = rest /\ Typed(u)
  BY <1>1, <1>5, SetAdvIs DEF Goes
<1> HIDE DEF u
<1>7. Goes(s, u)
  BY <1>5, <1>6, GoesTrans
<1>8. /\ Same(s, u, {"rxBuf", "rxCnt", "rxNxt", "rxWin", "ack", "force", "out", "adv"})
      /\ Len(u.rxBuf) = Len(s.rxBuf) + k /\ u.rxNxt = s.rxNxt + k
      /\ u.rxWin = IF k >= s.rxWin THEN 0 ELSE s.rxWin - k
      /\ u.state = s.state /\ u.app = s.app
  BY <1>5, <1>6 DEF Same, Names
<1>9. Tidy(s) /\ Taking(s) => Tidy(u)
  <2>1. {"adv"} \cap StreamFields = {} /\ u.app = got.app /\ u.state = got.state
    BY <1>6 DEF StreamFields, Same, Names
  <2> QED BY <1>5, <1>6, <2>1, TidySame
<1>10. Took(s, u, k)
  BY <1>1, <1>3, <1>6, <1>8 DEF Took
<1>11. CASE rest = <<>> /\ take # <<>>
  <2>1. Goes(u, p) /\ Same(u, p, {"sm"}) /\ p.sm # NIL /\ p.sm.at = "post"
    BY <1>2, <1>6, ThenIs
  <2> HIDE DEF p
  <2>2. Same(s, p, AbsorbFields) /\ p.state = s.state /\ p.app = s.app
    BY <1>8, <2>1 DEF Same, Names, AbsorbFields, EndFields
  <2>3. Goes(s, p)
    BY <1>7, <2>1, GoesTrans
  <2>4. Tidy(u) => Tidy(p)
    <3>1. {"sm"} \cap StreamFields = {} /\ p.app = u.app /\ p.state = u.state
      BY <2>1 DEF StreamFields, Same, Names
    <3> QED BY <2>1, <3>1, TidySame
  <2>5. Took(s, p, k)
    <3>1. p.rxBuf = u.rxBuf /\ p.rxWin = u.rxWin /\ p.adv = u.adv /\ p.rxNxt = u.rxNxt
      BY <2>1 DEF Same, Names
    <3> QED BY <1>10, <3>1, <1>8 DEF Took
  <2>6. t = p
    BY <1>11
  <2> HIDE DEF t
  <2> QED BY <1>0, <1>9, <2>1, <2>2, <2>3, <2>4, <2>5, <2>6
<1>12. CASE ~(rest = <<>> /\ take # <<>>)
  <2>1. /\ Goes(u, w) /\ Same(u, w, {"app"}) /\ Typed(w)
        /\ w.app = IF u.app = "rx" THEN "rxw" ELSE u.app
    BY <1>6, WakeIs, WakeGoes
  <2> HIDE DEF w
  <2>2. w.state = s.state
    BY <1>8, <2>1 DEF Same, Names
  <2>3. /\ Goes(w, c) /\ Same(w, c, EndFields) /\ Ends(w, c) /\ (Tidy(w) => Tidy(c))
        /\ c.rxNxt = IF all = {} THEN w.rxNxt ELSE w.rxNxt + 1
        /\ all # {} => c.state \notin {"SYN_RECEIVED", "ESTABLISHED"}
    BY <1>2, <2>1, <2>2, CheckFinIs
  <2> HIDE DEF c
  <2>4. Same(s, c, AbsorbFields) /\ c.app = IF s.app = "rx" THEN "rxw" ELSE s.app
    BY <1>8, <2>1, <2>3 DEF Same, Names, AbsorbFields, EndFields
  <2>5. Goes(s, c)
    BY <1>7, <2>1, <2>3, GoesTrans
  <2>6. Tidy(u) => Tidy(w)
    <3>1. {"app"} \cap StreamFields = {} /\ w.state = u.state /\ (w.app # "closed" => u.app # "closed")
      BY <2>1 DEF StreamFields, Same, Names
    <3> QED BY <2>1, <3>1, TidySame
  <2>7. Took(s, c, k)
    <3>1. c.rxBuf = u.rxBuf /\ c.rxWin = u.rxWin /\ c.adv = u.adv /\ w.rxNxt = u.rxNxt
      BY <2>1, <2>3 DEF Same, Names, EndFields
    <3>2. u.rxNxt \in Nat
      BY <1>6, Numbers
    <3> QED BY <1>10, <3>1, <3>2, <1>8, <2>3 DEF Took
  <2>8. t = c
    BY <1>12
  <2>9. Ends(s, c)
    BY <2>2, <2>3 DEF Ends
  <2> HIDE DEF t
  <2> QED BY <1>0, <1>9, <2>3, <2>4, <2>5, <2>6, <2>7, <2>8, <2>9
<1> QED BY <1>11, <1>12

-----------------------------------------------------------------------------
(* The input buffer and the segments received in advance.                  *)

Edge(s) == s.rxNxt + s.rxWin

\* The segments received in advance are within the window.
Within(s) == \A i \in DOMAIN s.adv : s.rxNxt <= s.adv[i].seq /\ s.adv[i].seq < Edge(s)
Beyond(s) == \A i \in DOMAIN s.adv : s.rxNxt < s.adv[i].seq /\ s.adv[i].seq < Edge(s)

\* There is room for what has been offered.
Fits(s) ==
    /\ s.app # "closed" =>
          Len(s.rxBuf) + s.rxWin <= WinSize /\ Len(s.adv) <= s.rxWin
    /\ s.app = "closed" => Len(s.adv) <= WinSize

At(s, at) == s.sm # NIL /\ s.sm.at = at

Room(s) ==
    /\ Fits(s)
    /\ s.state = "ESTABLISHED" => IF At(s, "absorb") THEN Within(s) ELSE Beyond(s)

RoomFields == {"rxBuf", "rxWin", "adv", "rxNxt"}

LEMMA RoomSame ==
    ASSUME NEW s, NEW t, NEW F, Same(s, t, F), F \cap RoomFields = {},
           t.app = "closed" <=> s.app = "closed"
    PROVE  /\ Fits(s) => Fits(t)
           /\ Within(s) => Within(t)
           /\ Beyond(s) => Beyond(t)
<1>1. t.rxBuf = s.rxBuf /\ t.rxWin = s.rxWin /\ t.adv = s.adv /\ t.rxNxt = s.rxNxt
  BY DEF Same, Names, RoomFields
<1> QED BY <1>1 DEF Fits, Within, Beyond, Edge

\* The sequence numbers of a queue are in an interval.
Inside(q, a, b) == \A i \in DOMAIN q : a <= q[i].seq /\ q[i].seq < b

\* Ascending numbers in an interval are no more than the interval is long.
LEMMA AscendingBounded ==
    ASSUME NEW q \in Seq(Segment), Ascending(q), NEW a \in Nat, NEW b \in Nat, a <= b,
           Inside(q, a, b)
    PROVE  Len(q) <= b - a
<1> DEFINE I == {i \in 1 .. Len(q) : q[i].seq < a + i - 1}
<1>0. Len(q) \in Nat /\ DOMAIN q = 1 .. Len(q)
  OBVIOUS
<1>01. \A i : i \in I <=> i \in 1 .. Len(q) /\ q[i].seq < a + i - 1
  OBVIOUS
<1>02. I \in SUBSET Nat
  BY <1>0
<1> HIDE DEF I
<1>1. ASSUME I # {} PROVE FALSE
  <2>1. PICK m \in I : \A j \in I : m <= j
    BY <1>1, <1>02, LeastOf
  <2>2. m \in DOMAIN q /\ m \in 1 .. Len(q) /\ q[m].seq < a + m - 1
    BY <1>0, <1>01, <2>1
  <2>3. q[m].seq \in Nat /\ a <= q[m].seq
    BY <2>2, QueueFields DEF Inside
  <2>4. m # 1
    BY SMTT(30), <2>2, <2>3
  <2> DEFINE l == m - 1
             x == q[m].seq
             y == q[l].seq
  <2>5. l \in DOMAIN q /\ l \in 1 .. Len(q) /\ l < m /\ l \in Nat /\ m \in Nat /\ m = l + 1
    BY <1>0, <2>2, <2>4
  <2> HIDE DEF l
  <2>6. y < x /\ y \in Nat
    BY <2>2, <2>5, QueueFields DEF Ascending
  <2>7. x \in Nat /\ x < a + m - 1
    BY <2>2, <2>3
  <2> HIDE DEF x, y
  <2>8. y < a + l - 1
    BY SMTT(30), <2>5, <2>6, <2>7
  <2>9. l \in I
    BY <1>01, <2>5, <2>8 DEF y
  <2> QED BY <2>1, <2>5, <2>9
<1>2. CASE Len(q) = 0
  <2>1. 0 <= b - a
    OBVIOUS
  <2> QED BY <1>2, <2>1
<1>3. CASE Len(q) # 0
  <2> DEFINE n == Len(q)
             x == q[n].seq
  <2>1. n \in DOMAIN q /\ n \notin I
    BY <1>0, <1>1, <1>3
  <2>2. x \in Nat /\ n \in Nat /\ n \in 1 .. n
    BY <1>0, <1>3, <2>1, QueueFields
  <2>3. ~(x < a + n - 1) /\ x < b
    BY <1>0, <1>01, <2>1, <2>2 DEF Inside
  <2> HIDE DEF x, n
  <2>4. n <= b - a
    BY <2>2, <2>3
  <2> QED BY <2>4 DEF n
<1> QED BY <1>2, <1>3

\* With room for a segment in advance there is one for the missing segment, too.
LEMMA BeyondLess ==
    ASSUME NEW s, Typed(s), Beyond(s), s.rxWin > 0
    PROVE  Len(s.adv) < s.rxWin
<1> DEFINE a == s.rxNxt + 1
           b == s.rxNxt + s.rxWin
<1>1. s.adv \in Seq(Segment) /\ Ascending(s.adv) /\ s.rxNxt \in Nat /\ s.rxWin \in Nat
  BY Numbers DEF Typed, Fields, Ordered
<1>2. a \in Nat /\ b \in Nat /\ a <= b
  BY <1>1
<1>3. Inside(s.adv, a, b)
  <2> SUFFICES ASSUME NEW i \in DOMAIN s.adv PROVE a <= s.adv[i].seq /\ s.adv[i].seq < b
    BY DEF Inside
  <2>1. s.adv[i].seq \in Nat
    BY <1>1, QueueFields
  <2> QED BY <1>1, <2>1 DEF Beyond, Edge
<1>4. b - a = s.rxWin - 1
  BY <1>1
<1> HIDE DEF a, b
<1>5. Len(s.adv) <= b - a
  BY <1>1, <1>2, <1>3, AscendingBounded
<1>6. Len(s.adv) \in Nat
  BY <1>1
<1> QED BY <1>1, <1>4, <1>5, <1>6

LEMMA RoomTook ==
    ASSUME NEW s, NEW t, NEW k, Typed(s), Typed(t), Took(s, t, k), Fits(s),
           t.app = "closed" <=> s.app = "closed"
    PROVE  Fits(t)
<1>1. /\ Len(s.rxBuf) \in Nat /\ Len(s.adv) \in Nat /\ Len(t.adv) \in Nat
      /\ s.rxWin \in Nat /\ WinSize \in Nat /\ k \in Nat
  <2>1. s.rxBuf \in Seq(Nat) /\ s.adv \in Seq(Segment) /\ t.adv \in Seq(Segment)
    BY DEF Typed, Fields
  <2>2. Len(s.rxBuf) \in Nat /\ Len(s.adv) \in Nat /\ Len(t.adv) \in Nat
    BY <2>1
  <2> QED BY <2>2, Numbers, TcpAssumption DEF Took
<1>2. /\ Len(t.rxBuf) = Len(s.rxBuf) + k /\ k + Len(t.adv) <= Len(s.adv)
      /\ t.rxWin = IF k >= s.rxWin THEN 0 ELSE s.rxWin - k
  BY DEF Took
<1>3. CASE s.app = "closed"
  BY <1>1, <1>2, <1>3 DEF Fits
<1>4. CASE s.app # "closed"
  BY SMTT(30), <1>1, <1>2, <1>4 DEF Fits
<1> QED BY <1>3, <1>4

LEMMA BeyondTook ==
    ASSUME NEW s, NEW t, NEW k, Typed(s), Typed(t), Goes(s, t), Took(s, t, k), Within(s),
           t.state = "ESTABLISHED"
    PROVE  Beyond(t)
<1> SUFFICES ASSUME NEW i \in DOMAIN t.adv
             PROVE  t.rxNxt < t.adv[i].seq /\ t.adv[i].seq < Edge(t)
  BY DEF Beyond
<1>1. t.adv[i].seq > s.rxNxt + k /\ Member(s.adv, t.adv[i]) /\ t.rxNxt = s.rxNxt + k
  BY DEF Took
<1>2. t.adv[i].seq < Edge(s)
  BY <1>1 DEF Within, Member
<1>3. Edge(s) <= Edge(t)
  BY DEF Goes, Grows, Edge
<1>4. /\ t.adv[i].seq \in Nat /\ s.rxNxt \in Nat /\ s.rxWin \in Nat /\ k \in Nat
      /\ t.rxNxt \in Nat /\ t.rxWin \in Nat
  <2>1. t.adv \in Seq(Segment)
    BY DEF Typed, Fields
  <2> QED BY <2>1, QueueFields, Numbers DEF Took
<1> QED BY <1>1, <1>2, <1>3, <1>4 DEF Edge

-----------------------------------------------------------------------------
(* A segment received in advance.                                          *)

Behead(q, n) == SubSeq(q, 1, Earlier(q, n))

\* A segment whose number is new goes into its place in the queue.
LEMMA InsertedIs ==
    ASSUME NEW q \in Seq(Segment), Ascending(q), NEW g \in Segment,
           \A i \in DOMAIN q : q[i].seq # g.seq
    PROVE  LET b == Behead(q, g.seq) \o <<g>> \o Later(q, g.seq)
           IN  /\ b \in Seq(Segment) /\ Ascending(b)
               /\ \A i \in DOMAIN b : b[i] = g \/ Member(q, b[i])
<1> DEFINE n == g.seq
           k == Earlier(q, n)
           l == Behead(q, n)
           r == Later(q, n)
           c == l \o <<g>>
           b == c \o r
<1>0. n \in Nat /\ Len(q) \in Nat /\ DOMAIN q = 1 .. Len(q)
  BY SegmentFields
<1> HIDE DEF n
<1>1. k \in 0 .. Len(q) /\ \A i \in DOMAIN q : q[i].seq < n <=> i <= k
  BY <1>0, EarlierIs
<1>2. /\ r \in Seq(Segment) /\ Len(r) = Len(q) - k
      /\ \A i \in 1 .. Len(r) : r[i] = q[k + i]
  BY <1>0, LaterIs
<1> HIDE DEF k, r
<1>3. l = SubSeq(q, 1, k)
  BY DEF Behead, k
<1>4. l \in Seq(Segment) /\ Len(l) = k /\ \A i \in 1 .. k : l[i] = q[i]
  BY <1>1, <1>3
<1> HIDE DEF l
<1>5. /\ c \in Seq(Segment) /\ Len(c) = k + 1 /\ c[k + 1] = g
      /\ \A i \in 1 .. k : c[i] = q[i]
  <2>1. c = Append(l, g)
    BY <1>4
  <2> HIDE DEF c
  <2>2. c \in Seq(Segment) /\ Len(c) = k + 1 /\ c[k + 1] = g
    BY <1>1, <1>4, <2>1
  <2>3. \A i \in 1 .. k : c[i] = l[i]
    BY <1>1, <1>4, <2>1
  <2> QED BY <1>4, <2>2, <2>3
<1> HIDE DEF c
<1>6. b \in Seq(Segment) /\ Len(b) = Len(q) + 1
  <2>1. b \in Seq(Segment) /\ Len(b) = Len(c) + Len(r)
    BY SMTT(30), <1>2, <1>5
  <2> HIDE DEF b
  <2> QED BY <1>0, <1>1, <1>2, <1>5, <2>1
<1>7. /\ \A i \in 1 .. k : b[i] = q[i]
      /\ b[k + 1] = g
      /\ \A i \in k + 2 .. Len(q) + 1 : b[i] = q[i - 1]
  <2>1. \A i \in 1 .. k + 1 : b[i] = c[i]
    BY <1>0, <1>1, <1>2, <1>5
  <2>2. \A i \in 1 .. Len(r) : b[k + 1 + i] = r[i]
    BY <1>0, <1>1, <1>2, <1>5
  <2> HIDE DEF b
  <2>3. ASSUME NEW i \in k + 2 .. Len(q) + 1 PROVE b[i] = q[i - 1]
    <3> DEFINE j == i - (k + 1)
    <3>1. j \in 1 .. Len(r) /\ i = k + 1 + j /\ k + j = i - 1
      BY <1>0, <1>1, <1>2
    <3> HIDE DEF j
    <3>2. b[i] = r[j]
      BY <2>2, <3>1
    <3>3. r[j] = q[k + j]
      BY <1>2, <3>1
    <3> QED BY <3>1, <3>2, <3>3
  <2> QED BY <1>1, <1>5, <2>1, <2>3
<1> HIDE DEF b
<1>8. ASSUME NEW i \in DOMAIN b
      PROVE  \/ i \in 1 .. k /\ i \in DOMAIN q /\ b[i] = q[i] /\ b[i].seq < n
             \/ i = k + 1 /\ b[i] = g /\ b[i].seq = n
             \/ i \in k + 2 .. Len(q) + 1 /\ i - 1 \in DOMAIN q /\ b[i] = q[i - 1] /\ b[i].seq > n
  <2>1. i \in 1 .. Len(q) + 1
    BY <1>0, <1>6
  <2>2. CASE i \in 1 .. k
    BY <1>0, <1>1, <1>7, <2>2
  <2>3. CASE i = k + 1
    BY <1>7, <2>3 DEF n
  <2>4. CASE i \in k + 2 .. Len(q) + 1
    <3>1. i - 1 \in DOMAIN q /\ b[i] = q[i - 1] /\ ~(i - 1 <= k)
      BY <1>0, <1>1, <1>7, <2>4
    <3>2. q[i - 1].seq \in Nat
      BY <3>1, QueueFields
    <3>3. q[i - 1].seq # n
      BY <3>1 DEF n
    <3>4. ~(q[i - 1].seq < n)
      BY <1>1, <3>1
    <3>5. q[i - 1].seq > n
      BY <1>0, <3>2, <3>3, <3>4
    <3> QED BY <2>4, <3>1, <3>5
  <2> QED BY <1>0, <1>1, <2>1, <2>2, <2>3, <2>4
<1>9. Ascending(b)
  <2> SUFFICES ASSUME NEW i \in DOMAIN b, NEW j \in DOMAIN b, i < j
               PROVE  b[i].seq < b[j].seq
    BY DEF Ascending
  <2>0. i \in Nat /\ j \in Nat /\ k \in Nat /\ b[i].seq \in Nat /\ b[j].seq \in Nat
    BY <1>1, <1>6, QueueFields
  <2>1. CASE j \in 1 .. k
    <3>1. i \in 1 .. k /\ b[i] = q[i] /\ b[j] = q[j] /\ i \in DOMAIN q /\ j \in DOMAIN q
      BY <1>0, <1>1, <1>7, <2>0, <2>1, <1>6
    <3> QED BY <3>1 DEF Ascending
  <2>2. CASE i \in k + 2 .. Len(q) + 1
    <3>1. /\ b[i] = q[i - 1] /\ b[j] = q[j - 1] /\ i - 1 \in DOMAIN q /\ j - 1 \in DOMAIN q
          /\ i - 1 < j - 1
      BY <1>0, <1>1, <1>6, <1>7, <2>0, <2>2
    <3> QED BY <3>1 DEF Ascending
  <2>3. CASE i \notin k + 2 .. Len(q) + 1 /\ j \notin 1 .. k
    <3>1. i \in 1 .. k \/ i = k + 1
      BY <1>8, <2>3
    <3>2. j = k + 1 \/ j \in k + 2 .. Len(q) + 1
      BY <1>8, <2>3
    <3>3. \/ b[i].seq < n /\ b[j].seq >= n
          \/ b[i].seq = n /\ b[j].seq > n
      <4>1. i \in 1 .. k => b[i].seq < n
        BY <1>0, <1>1, <1>8, <2>0
      <4>2. i = k + 1 => b[i].seq = n
        BY <1>0, <1>1, <1>8, <2>0
      <4>3. j = k + 1 => b[j].seq = n
        BY <1>0, <1>1, <1>8, <2>0
      <4>4. j \in k + 2 .. Len(q) + 1 => b[j].seq > n
        BY <1>0, <1>1, <1>8, <2>0
      <4> QED BY <1>0, <2>0, <3>1, <3>2, <4>1, <4>2, <4>3, <4>4
    <3> QED BY <1>0, <2>0, <3>3
  <2> QED BY <2>1, <2>2, <2>3
<1>10. \A i \in DOMAIN b : b[i] = g \/ Member(q, b[i])
  BY <1>8 DEF Member
<1> QED BY <1>6, <1>9, <1>10 DEF b, c, l, r, n

LEMMA InAdvanceIs ==
    ASSUME NEW s, Typed(s), NEW g \in Segment, NEW keep \in BOOLEAN
    PROVE  LET t == InAdvance(s, g, keep)
           IN  /\ Goes(s, t) /\ Same(s, t, {"adv"})
               /\ \/ t.adv = s.adv
                  \/ /\ g.data = TRUE
                     /\ \A i \in DOMAIN t.adv : t.adv[i] = g \/ Member(s.adv, t.adv[i])
<1> DEFINE b == Behead(s.adv, g.seq) \o <<g>> \o Later(s.adv, g.seq)
           u == [s EXCEPT !.adv = b]
           t == InAdvance(s, g, keep)
<1>0. s.adv \in Seq(Segment) /\ Ascending(s.adv)
  BY DEF Typed, Fields, Ordered
<1>1. CASE g.data /\ keep /\ ~\E i \in DOMAIN s.adv : s.adv[i].seq = g.seq
  <2>1. t = u
    BY <1>1 DEF InAdvance, Behead
  <2>2. /\ b \in Seq(Segment) /\ Ascending(b)
        /\ \A i \in DOMAIN b : b[i] = g \/ Member(s.adv, b[i])
    BY <1>0, <1>1, InsertedIs
  <2> HIDE DEF b
  <2>3. Goes(s, u) /\ Same(s, u, {"adv"}) /\ u.adv = b
    BY <2>2, SetAdvIs
  <2>4. g.data = TRUE
    BY <1>1, SegmentFields
  <2> HIDE DEF u, t
  <2> QED BY <2>1, <2>2, <2>3, <2>4 DEF t
<1>2. CASE ~(g.data /\ keep /\ ~\E i \in DOMAIN s.adv : s.adv[i].seq = g.seq)
  <2>1. t = s
    BY <1>2 DEF InAdvance
  <2>2. Same(s, s, {"adv"})
    BY DEF Same
  <2>3. Goes(s, s)
    BY <2>2, GoesSame
  <2> HIDE DEF t
  <2> QED BY <2>1, <2>2, <2>3 DEF t
<1> QED BY <1>1, <1>2

-----------------------------------------------------------------------------
(* Where the application and NutTcpSm may be in which state.                *)

\* Where NutTcpSm is.
Stage(s) == IF s.sm = NIL THEN "idle" ELSE s.sm.at

Opening == {"LISTEN", "SYN_SENT", "SYN_RECEIVED"}

\* Node e with its socket in state x, its application at a and NutTcpSm at p.
ControlOf(e, x, a, p) ==
    /\ a = "closed" <=> x \in ClosedByUs \cup {"GONE"}
    /\ a = "start" => x = "CLOSED" /\ p = "idle"
    /\ p \in {"absorb", "post", "finish", "opened"} => x \in {"ESTABLISHED", "FIN_WAIT_1"}
    /\ p = "closewait" => x \in {"CLOSE_WAIT", "LAST_ACK", "CLOSED", "GONE"}
    /\ p = "synacked" => x \in {"SYN_RECEIVED", "FIN_WAIT_1", "CLOSED", "GONE"}
    /\ p = "finwait" => x \in {"FIN_WAIT_1", "FIN_WAIT_2"}
    /\ a \in {"rx", "tx"} => x = "ESTABLISHED" \/ p = "closewait"
    /\ a = "pc" => x \in {"LISTEN", "SYN_RECEIVED"} \/ p = "closewait"
    /\ a = "ac" => x = "SYN_SENT" \/ p \in {"closewait", "opened"}
    /\ x \in Opening => a \in {"opening", "failed", "user", "pc", "ac"}
    /\ e = Active => x \notin {"LISTEN", "SYN_RECEIVED"} /\ a # "pc"
    /\ e = Passive => x # "SYN_SENT" /\ a \notin {"opening", "ac"}

Control(e, s) == ControlOf(e, s.state, s.app, Stage(s))

\* Application b has been woken, or it is still where a is.
Waking(a, b) ==
    \/ b = a
    \/ a = "rx" /\ b = "rxw"
    \/ a = "tx" /\ b = "txw"
    \/ a \in {"pc", "ac"} /\ b = "user"

\* What happens in ESTABLISHED.
LEMMA ControlEstablished ==
    ASSUME NEW e \in Node, NEW a, NEW b, Waking(a, b),
           NEW p, p \in {"idle", "absorb", "post", "finish", "opened"},
           ControlOf(e, "ESTABLISHED", a, p)
    PROVE  /\ p = "idle" => \A r \in {"idle", "absorb", "post", "finish"} :
                               ControlOf(e, "ESTABLISHED", b, r)
           /\ p # "opened" => ControlOf(e, "ESTABLISHED", b, "post")
           /\ p # "opened" => ControlOf(e, "ESTABLISHED", b, "idle")
           /\ ControlOf(e, "CLOSE_WAIT", b, "closewait")
           /\ ControlOf(e, "CLOSED", Woken(a), "idle")
           /\ a # "closed" /\ b # "closed" /\ b # "start"
<1>1. ControlOf(e, "CLOSED", Woken(a), "idle")
  BY DEF ControlOf, Waking, ClosedByUs, Opening, Woken
<1>2. a # "closed" /\ b # "closed" /\ b # "start"
  BY DEF ControlOf, Waking, ClosedByUs, Opening
<1>3. ControlOf(e, "CLOSE_WAIT", b, "closewait")
  BY DEF ControlOf, Waking, ClosedByUs, Opening
<1>4. ASSUME p # "opened", NEW r \in {"idle", "absorb", "post", "finish"}
      PROVE  ControlOf(e, "ESTABLISHED", b, r)
  BY <1>4 DEF ControlOf, Waking, ClosedByUs, Opening
<1> QED BY <1>1, <1>2, <1>3, <1>4

\* What happens when the application has closed the socket.
LEMMA ControlClosed ==
    ASSUME NEW e \in Node, NEW x, NEW y, x \in ClosedByUs, y \in ClosedByUs \cup {"GONE"},
           NEW p, ControlOf(e, x, "closed", p)
    PROVE  ControlOf(e, y, "closed", "idle")
  BY DEF ControlOf, ClosedByUs, Opening

\* What a socket is like before the connection is established.
Blank(s) ==
    /\ s.app = "start" => s = NewSocket
    /\ s.state \in {"LISTEN", "SYN_SENT"} \/ (s.state = "SYN_RECEIVED" /\ s.sm = NIL)
       => s.read = <<>> /\ s.rxBuf = <<>> /\ s.rxWin = WinSize /\ s.una = 0
    /\ s.state \in Opening => s.adv = <<>>
    /\ s.state = "LISTEN" => s.rxNxt \in {0, 1}
    /\ s.state = "SYN_SENT" => s.rxNxt = 0
    /\ s.state = "SYN_RECEIVED" /\ s.sm = NIL => s.rxNxt = 1 /\ s.rxIsn = 0
    /\ s.state = "GONE" => s.nbq = <<>>

\* What holds of the socket of node e, whatever its peer does.
Good(e, s) == Control(e, s) /\ Blank(s) /\ Tidy(s) /\ Room(s)

\* Segment g comes from the peer of node e, whose socket is s.
Fitting(e, s, g) ==
    /\ g.data = TRUE => g.flags = {"ACK"} /\ g.seq < Edge(s)
    /\ "RST" \notin g.flags /\ "SYN" \in g.flags
       => IF e = Passive THEN g.seq = 0 ELSE "ACK" \in g.flags

\* What t knows of its peer is what s knew, nothing, or what g says.
Heard(s, t, g) ==
    \/ t.una = s.una /\ t.win = s.win
    \/ t.una = 0 /\ t.win = 0
    \/ "RST" \notin g.flags /\ t.una \in {0, g.ack} /\ t.win \in {0, g.win}

LEMMA HeardSame ==
    ASSUME NEW s, NEW a, NEW t, NEW g, NEW F, Heard(s, a, g), Same(a, t, F),
           F \cap {"una", "win"} = {}
    PROVE  Heard(s, t, g)
<1>1. t.una = a.una /\ t.win = a.win
  BY DEF Same, Names
<1> QED BY <1>1 DEF Heard

LEMMA EstablishedGood ==
    ASSUME NEW e \in Node, NEW s, NEW t, Control(e, s), s.state = "ESTABLISHED",
           Stage(s) \in {"idle", "absorb", "post", "finish"},
           Waking(s.app, t.app), Tidy(t), Fits(t),
           \/ t.state = "ESTABLISHED" /\ Stage(t) \in {"idle", "post"} /\ Beyond(t)
           \/ t.state = "ESTABLISHED" /\ Stage(t) = "finish" /\ Beyond(t) /\ Stage(s) = "idle"
           \/ t.state = "ESTABLISHED" /\ Stage(t) = "absorb" /\ Within(t) /\ Stage(s) = "idle"
           \/ t.state = "CLOSE_WAIT" /\ Stage(t) = "closewait"
           \/ t.state = "CLOSED" /\ Stage(t) = "idle" /\ t.app = Woken(s.app)
    PROVE  Good(e, t)
<1> DEFINE a == s.app
           b == t.app
           p == Stage(s)
<1>1. ControlOf(e, "ESTABLISHED", a, p) /\ Waking(a, b)
  BY DEF Control
<1>2. p \in {"idle", "absorb", "post", "finish", "opened"} /\ p # "opened"
  OBVIOUS
<1> HIDE DEF a, b, p
<1>3. /\ p = "idle" => \A r \in {"idle", "absorb", "post", "finish"} :
                               ControlOf(e, "ESTABLISHED", b, r)
      /\ ControlOf(e, "ESTABLISHED", b, "post")
      /\ ControlOf(e, "ESTABLISHED", b, "idle")
      /\ ControlOf(e, "CLOSE_WAIT", b, "closewait")
      /\ ControlOf(e, "CLOSED", Woken(a), "idle")
      /\ a # "closed" /\ b # "closed" /\ b # "start"
  BY <1>1, <1>2, ControlEstablished
<1>4. Control(e, t)
  BY <1>3 DEF Control, a, b, p
<1>5. Blank(t)
  BY <1>3 DEF Blank, b, Opening
<1>6. Room(t)
  BY DEF Room, At, Stage
<1> QED BY <1>4, <1>5, <1>6 DEF Good

\* What NutTcpStateEstablished makes of the acknowledgement.
Acked(s, g) ==
    LET acked == NutTcpProcessAck(s, g)
    IN  IF acked.win > s.win \/ acked.una # s.una THEN WakeTx(acked) ELSE acked

AckFields == {"ack", "force", "win", "wl1", "wl2", "una", "nbq", "app"}

LEMMA AckedIs ==
    ASSUME NEW s, Typed(s), NEW g \in Segment, "RST" \notin g.flags
    PROVE  LET t == Acked(s, g)
           IN  /\ Goes(s, t) /\ Same(s, t, AckFields) /\ Heard(s, t, g)
               /\ t.app = s.app \/ (s.app = "tx" /\ t.app = "txw")
               /\ Tidy(s) => Tidy(t)
<1> DEFINE a == NutTcpProcessAck(s, g)
           w == WakeTx(a)
           t == Acked(s, g)
<1>1. /\ Goes(s, a) /\ Same(s, a, AckFields \ {"app"}) /\ Typed(a)
      /\ \/ a.una = s.una /\ a.win = s.win
         \/ a.una = g.ack /\ a.win = g.win
  BY ProcessAckIs DEF Goes, AckFields, Same
<1> HIDE DEF a
<1>2. Goes(a, w) /\ Same(a, w, {"app"}) /\ w.app = IF a.app = "tx" THEN "txw" ELSE a.app
  BY <1>1, WakeIs, WakeGoes
<1>3. t = a \/ t = w
  BY DEF Acked, a
<1> HIDE DEF t, w
<1>4. Heard(s, a, g)
  BY <1>1 DEF Heard
<1>5. a.app = s.app /\ Goes(s, w) /\ Same(s, w, AckFields) /\ Same(s, a, AckFields)
  BY <1>1, <1>2, GoesTrans DEF Same, AckFields, Names
<1>6. Heard(s, w, g)
  BY <1>2, <1>4, HeardSame
<1>7. t.app = s.app \/ (s.app = "tx" /\ t.app = "txw")
  BY <1>2, <1>3, <1>5
<1>8. Tidy(s) => Tidy(t)
  <2>1. AckFields \cap StreamFields = {} /\ Same(s, t, AckFields)
    BY <1>3, <1>5 DEF AckFields, StreamFields
  <2>2. t.state = s.state
    BY <2>1 DEF Same, Names, AckFields
  <2>3. t.app # "closed" => s.app # "closed"
    BY <1>7
  <2> QED BY <2>1, <2>2, <2>3, TidySame
<1> QED BY <1>1, <1>3, <1>4, <1>5, <1>6, <1>7, <1>8 DEF t

-----------------------------------------------------------------------------
(* NutTcpStateEstablished, case by case.                                   *)

\* A socket in ESTABLISHED that NutTcpSm takes a segment for.
Ready(e, s) == Typed(s) /\ Good(e, s) /\ s.state = "ESTABLISHED" /\ s.sm = NIL

\* What a handler must leave behind.
Handled(e, s, t, g) == Goes(s, t) /\ Heard(s, t, g) /\ Good(e, t) /\ t.state # "GONE"

LEMMA ReadyIs ==
    ASSUME NEW e \in Node, NEW s, Ready(e, s)
    PROVE  /\ Typed(s) /\ Control(e, s) /\ Tidy(s) /\ Fits(s) /\ Beyond(s)
           /\ s.app # "closed" /\ Stage(s) = "idle" /\ Taking(s)
<1>1. Typed(s) /\ Control(e, s) /\ Tidy(s) /\ Fits(s) /\ Beyond(s) /\ Stage(s) = "idle"
  BY DEF Ready, Good, Room, At, Stage
<1>2. s.app # "closed"
  BY <1>1 DEF Ready, Control, ControlOf, ClosedByUs
<1> QED BY <1>1, <1>2 DEF Ready, Taking

LEMMA AckedReady ==
    ASSUME NEW e \in Node, NEW s, Ready(e, s), NEW g \in Segment, "RST" \notin g.flags
    PROVE  LET a == Acked(s, g)
           IN  /\ Goes(s, a) /\ Typed(a) /\ Heard(s, a, g)
               /\ a.state = "ESTABLISHED" /\ a.sm = NIL /\ a.app # "closed"
               /\ a.app = s.app \/ (s.app = "tx" /\ a.app = "txw")
               /\ Tidy(a) /\ Fits(a) /\ Beyond(a)
               /\ a.rxNxt = s.rxNxt /\ Edge(a) = Edge(s)
<1> DEFINE a == Acked(s, g)
<1>1. /\ Goes(s, a) /\ Same(s, a, AckFields) /\ Heard(s, a, g) /\ Typed(a)
      /\ a.app = s.app \/ (s.app = "tx" /\ a.app = "txw")
      /\ Tidy(a)
  BY AckedIs, ReadyIs DEF Goes
<1> HIDE DEF a
<1>2. a.state = "ESTABLISHED" /\ a.sm = NIL /\ a.rxNxt = s.rxNxt /\ a.rxWin = s.rxWin
  BY <1>1 DEF Same, Names, AckFields, Ready
<1>3. a.app # "closed"
  BY <1>1, ReadyIs
<1>4. Fits(a) /\ Beyond(a)
  <2>1. AckFields \cap RoomFields = {}
    BY DEF AckFields, RoomFields
  <2>2. a.app = "closed" <=> s.app = "closed"
    BY <1>3, ReadyIs
  <2> QED BY <1>1, <2>1, <2>2, RoomSame, ReadyIs
<1> QED BY <1>1, <1>2, <1>3, <1>4 DEF a, Edge

LEMMA EstablishedAhead ==
    ASSUME NEW e \in Node, NEW s, Ready(e, s), NEW g \in Segment, Fitting(e, s, g),
           "RST" \notin g.flags, g.seq > s.rxNxt, NEW keep \in BOOLEAN
    PROVE  Handled(e, s, ForceAck(InAdvance(Acked(s, g), g, keep)), g)
<1> DEFINE a == Acked(s, g)
           u == InAdvance(a, g, keep)
           t == ForceAck(u)
<1>1. /\ Goes(s, a) /\ Typed(a) /\ Heard(s, a, g)
      /\ a.state = "ESTABLISHED" /\ a.sm = NIL /\ a.app # "closed"
      /\ a.app = s.app \/ (s.app = "tx" /\ a.app = "txw")
      /\ Tidy(a) /\ Fits(a) /\ Beyond(a)
      /\ a.rxNxt = s.rxNxt /\ Edge(a) = Edge(s)
  BY AckedReady
<1> HIDE DEF a
<1>2. /\ Goes(a, u) /\ Same(a, u, {"adv"}) /\ Typed(u)
      /\ \/ u.adv = a.adv
         \/ /\ g.data = TRUE
            /\ \A i \in DOMAIN u.adv : u.adv[i] = g \/ Member(a.adv, u.adv[i])
  BY <1>1, InAdvanceIs DEF Goes
<1> HIDE DEF u
<1>3. Goes(u, t) /\ Same(u, t, {"ack", "force", "out"}) /\ Typed(t)
  BY <1>2, ForceAckGoes DEF Goes
<1> HIDE DEF t
<1> DEFINE F == {"adv", "ack", "force", "out"}
<1>4. Same(a, t, F) /\ Goes(s, t) /\ t.adv = u.adv
  <2>1. Goes(s, u) /\ Typed(s)
    BY <1>1, <1>2, GoesTrans, ReadyIs
  <2> QED BY <1>2, <1>3, <2>1, GoesTrans DEF Same, Names
<1>5. /\ t.state = "ESTABLISHED" /\ t.sm = NIL /\ t.app = a.app
      /\ t.rxNxt = a.rxNxt /\ t.rxWin = a.rxWin /\ t.rxBuf = a.rxBuf
  BY <1>1, <1>4 DEF Same, Names
<1>6. Heard(s, t, g)
  <2>1. F \cap {"una", "win"} = {}
    OBVIOUS
  <2> HIDE DEF F
  <2> QED BY <1>1, <1>4, <2>1, HeardSame
<1>7. Tidy(t)
  <2>1. F \cap StreamFields = {}
    BY DEF StreamFields
  <2> HIDE DEF F
  <2> QED BY <1>1, <1>4, <1>5, <2>1, TidySame
<1> HIDE DEF F
<1>8. Beyond(t) /\ Fits(t)
  <2>0. Edge(t) = Edge(a)
    BY <1>5 DEF Edge
  <2>1. CASE t.adv = a.adv
    BY <1>1, <1>5, <2>0, <2>1 DEF Beyond, Fits
  <2>2. CASE g.data = TRUE /\ \A i \in DOMAIN t.adv : t.adv[i] = g \/ Member(a.adv, t.adv[i])
    <3>1. g.seq < Edge(a) /\ a.rxNxt < g.seq /\ g.seq \in Nat /\ a.rxNxt \in Nat
      BY <1>1, <2>2, SegmentFields, Numbers, ReadyIs DEF Fitting
    <3>2. Beyond(t)
      <4> SUFFICES ASSUME NEW i \in DOMAIN t.adv
                   PROVE  t.rxNxt < t.adv[i].seq /\ t.adv[i].seq < Edge(t)
        BY DEF Beyond
      <4>1. CASE t.adv[i] = g
        BY <1>5, <2>0, <3>1, <4>1
      <4>2. CASE Member(a.adv, t.adv[i])
        BY <1>1, <1>5, <2>0, <4>2 DEF Beyond, Member
      <4> QED BY <2>2, <4>1, <4>2
    <3>3. a.rxWin > 0 /\ a.rxWin \in Nat
      <4>1. a.rxWin \in Nat
        BY <1>1, Numbers
      <4> QED BY <3>1, <4>1 DEF Edge
    <3>4. Len(t.adv) < t.rxWin
      BY <1>3, <1>5, <3>2, <3>3, BeyondLess
    <3>5. Len(t.adv) \in Nat
      <4>1. t.adv \in Seq(Segment)
        BY <1>3 DEF Typed, Fields
      <4> QED BY <4>1
    <3>6. Len(t.adv) <= t.rxWin
      BY <1>5, <3>3, <3>4, <3>5
    <3> QED BY <1>1, <1>5, <3>2, <3>6 DEF Fits
  <2> QED BY <1>2, <1>4, <2>1, <2>2
<1>9. Good(e, t)
  <2>1. Waking(s.app, t.app)
    BY <1>1, <1>5 DEF Waking
  <2>2. Stage(t) = "idle"
    BY <1>5 DEF Stage
  <2> QED BY <1>5, <1>7, <1>8, <2>1, <2>2, ReadyIs, EstablishedGood DEF Ready
<1> QED BY <1>4, <1>5, <1>6, <1>9 DEF Handled, t, u, a

\* How the handlers of ESTABLISHED end.
Closed(t) == t.state = "CLOSE_WAIT" /\ Stage(t) = "closewait"

LEMMA EstablishedEnds ==
    ASSUME NEW s, NEW t, s.state = "ESTABLISHED", Ends(s, t)
    PROVE  \/ t.state = "ESTABLISHED" /\ t.sm = NIL /\ Stage(t) = "idle"
           \/ Closed(t)
  BY DEF Ends, Closed, Stage

LEMMA EstablishedFinish ==
    ASSUME NEW s, Typed(s), s.state = "ESTABLISHED", s.app # "closed",
           Tidy(s), Fits(s), Beyond(s), NEW f \in SUBSET {"FIN"}
    PROVE  LET t == CheckFin(s, f)
           IN  /\ Goes(s, t) /\ Same(s, t, EndFields) /\ t.app = s.app
               /\ Tidy(t) /\ Fits(t)
               /\ \/ t.state = "ESTABLISHED" /\ Stage(t) = "idle" /\ Beyond(t)
                  \/ Closed(t)
<1> DEFINE t == CheckFin(s, f)
<1>1. /\ Goes(s, t) /\ Same(s, t, EndFields) /\ Ends(s, t)
      /\ t.rxNxt = IF f = {} THEN s.rxNxt ELSE s.rxNxt + 1
      /\ f # {} => t.state \notin {"SYN_RECEIVED", "ESTABLISHED"}
      /\ Tidy(t)
  BY CheckFinIs
<1> HIDE DEF t
<1>2. t.rxBuf = s.rxBuf /\ t.rxWin = s.rxWin /\ t.adv = s.adv /\ t.app = s.app
  BY <1>1 DEF Same, Names, EndFields
<1>3. Fits(t)
  BY <1>2 DEF Fits
<1>4. t.state = "ESTABLISHED" => Beyond(t)
  BY <1>1, <1>2 DEF Beyond, Edge
<1> QED BY <1>1, <1>2, <1>3, <1>4, EstablishedEnds DEF t

LEMMA EstablishedAbsorb ==
    ASSUME NEW s, Typed(s), s.state = "ESTABLISHED", s.app # "closed",
           Tidy(s), Fits(s), Within(s), NEW f \in SUBSET {"FIN"}
    PROVE  LET t == Absorb(s, f)
           IN  /\ Goes(s, t) /\ Same(s, t, AbsorbFields)
               /\ t.app = s.app \/ (s.app = "rx" /\ t.app = "rxw")
               /\ Tidy(t) /\ Fits(t)
               /\ \/ t.state = "ESTABLISHED" /\ Stage(t) \in {"idle", "post"} /\ Beyond(t)
                  \/ Closed(t)
<1> DEFINE t == Absorb(s, f)
<1>0. Taking(s)
  BY DEF Taking
<1>1. /\ Goes(s, t) /\ Same(s, t, AbsorbFields) /\ Typed(t)
      /\ \/ /\ t.sm # NIL /\ t.sm.at = "post"
            /\ t.state = s.state /\ t.app = s.app
         \/ /\ Ends(s, t)
            /\ t.app = IF s.app = "rx" THEN "rxw" ELSE s.app
      /\ \E k : Took(s, t, k)
      /\ Tidy(t)
  BY <1>0, AbsorbIs DEF Goes
<1> HIDE DEF t
<1>2. PICK k : Took(s, t, k)
  BY <1>1
<1>3. t.app = s.app \/ (s.app = "rx" /\ t.app = "rxw")
  BY <1>1
<1>4. Fits(t)
  <2>1. t.app = "closed" <=> s.app = "closed"
    BY <1>3
  <2> QED BY <1>1, <1>2, <2>1, RoomTook
<1>5. t.state = "ESTABLISHED" => Beyond(t)
  BY <1>1, <1>2, BeyondTook
<1>6. \/ t.state = "ESTABLISHED" /\ Stage(t) \in {"idle", "post"}
      \/ Closed(t)
  <2>1. CASE t.sm # NIL /\ t.sm.at = "post" /\ t.state = s.state
    BY <2>1 DEF Stage
  <2>2. CASE Ends(s, t)
    BY <2>2, EstablishedEnds
  <2> QED BY <1>1, <2>1, <2>2
<1> QED BY <1>1, <1>3, <1>4, <1>5, <1>6 DEF t

LEMMA FinIs ==
    ASSUME NEW g
    PROVE  Fin(g) \in SUBSET {"FIN"}
  BY DEF Fin

LEMMA EstablishedOld ==
    ASSUME NEW e \in Node, NEW s, Ready(e, s), NEW g \in Segment, "RST" \notin g.flags
    PROVE  Handled(e, s, Then(ForceAck(Acked(s, g)), "finish", Fin(g)), g)
<1> DEFINE a == Acked(s, g)
           u == ForceAck(a)
           t == Then(u, "finish", Fin(g))
           F == {"ack", "force", "out", "sm"}
<1>1. /\ Goes(s, a) /\ Typed(a) /\ Heard(s, a, g)
      /\ a.state = "ESTABLISHED" /\ a.sm = NIL /\ a.app # "closed"
      /\ a.app = s.app \/ (s.app = "tx" /\ a.app = "txw")
      /\ Tidy(a) /\ Fits(a) /\ Beyond(a)
  BY AckedReady
<1> HIDE DEF a
<1>2. Goes(a, u) /\ Same(a, u, {"ack", "force", "out"}) /\ Typed(u)
  BY <1>1, ForceAckGoes DEF Goes
<1> HIDE DEF u
<1>3. Goes(u, t) /\ Same(u, t, {"sm"}) /\ t.sm # NIL /\ t.sm.at = "finish"
  BY <1>2, ThenIs, FinIs
<1> HIDE DEF t
<1>4. Same(a, t, F) /\ Goes(s, t)
  <2>1. Goes(s, u) /\ Typed(s)
    BY <1>1, <1>2, GoesTrans, ReadyIs
  <2> QED BY <1>2, <1>3, <2>1, GoesTrans DEF Same, Names
<1>5. t.state = "ESTABLISHED" /\ t.app = a.app
  BY <1>1, <1>4 DEF Same, Names
<1>6. F \cap {"una", "win"} = {} /\ F \cap StreamFields = {} /\ F \cap RoomFields = {}
  BY DEF StreamFields, RoomFields
<1> HIDE DEF F
<1>7. Heard(s, t, g)
  BY <1>1, <1>4, <1>6, HeardSame
<1>8. Tidy(t)
  BY <1>1, <1>4, <1>5, <1>6, TidySame
<1>9. Fits(t) /\ Beyond(t)
  <2>1. t.app = "closed" <=> a.app = "closed"
    BY <1>5
  <2> QED BY <1>1, <1>4, <1>6, <2>1, RoomSame
<1>10. Good(e, t)
  <2>1. Waking(s.app, t.app)
    BY <1>1, <1>5 DEF Waking
  <2>2. Stage(t) = "finish"
    BY <1>3 DEF Stage
  <2> QED BY <1>5, <1>8, <1>9, <2>1, <2>2, ReadyIs, EstablishedGood DEF Ready
<1> QED BY <1>4, <1>5, <1>7, <1>10 DEF Handled, t, u, a

LEMMA EstablishedNoData ==
    ASSUME NEW e \in Node, NEW s, Ready(e, s), NEW g \in Segment, "RST" \notin g.flags
    PROVE  Handled(e, s, CheckFin(Acked(s, g), Fin(g)), g)
<1> DEFINE a == Acked(s, g)
           t == CheckFin(a, Fin(g))
<1>1. /\ Goes(s, a) /\ Typed(a) /\ Heard(s, a, g)
      /\ a.state = "ESTABLISHED" /\ a.sm = NIL /\ a.app # "closed"
      /\ a.app = s.app \/ (s.app = "tx" /\ a.app = "txw")
      /\ Tidy(a) /\ Fits(a) /\ Beyond(a)
  BY AckedReady
<1> HIDE DEF a
<1>2. /\ Goes(a, t) /\ Same(a, t, EndFields) /\ t.app = a.app
      /\ Tidy(t) /\ Fits(t)
      /\ \/ t.state = "ESTABLISHED" /\ Stage(t) = "idle" /\ Beyond(t)
         \/ Closed(t)
  BY <1>1, FinIs, EstablishedFinish
<1> HIDE DEF t
<1>3. Goes(s, t)
  BY <1>1, <1>2, GoesTrans, ReadyIs
<1>4. Heard(s, t, g)
  <2>1. EndFields \cap {"una", "win"} = {}
    BY DEF EndFields
  <2> QED BY <1>1, <1>2, <2>1, HeardSame
<1>5. Good(e, t)
  <2>1. Waking(s.app, t.app)
    BY <1>1, <1>2 DEF Waking
  <2> QED BY <1>2, <2>1, ReadyIs, EstablishedGood DEF Ready, Closed
<1>6. t.state # "GONE"
  BY <1>2 DEF Closed
<1> QED BY <1>3, <1>4, <1>5, <1>6 DEF Handled, t, a

\* The byte of a segment is taken.
LEMMA AppDataIs ==
    ASSUME NEW s, Typed(s), NEW g \in Segment, NEW more \in BOOLEAN
    PROVE  LET t == NutTcpProcessAppData(s, g, more)
           IN  /\ Goes(s, t)
               /\ Same(s, t, {"rxBuf", "rxCnt", "rxNxt", "rxWin", "ack", "force", "out"})
               /\ t.rxBuf = s.rxBuf \o <<g.seq>> /\ t.rxNxt = s.rxNxt + 1
               /\ Len(t.rxBuf) = Len(s.rxBuf) + 1
               /\ t.rxWin = IF 1 >= s.rxWin THEN 0 ELSE s.rxWin - 1
<1> DEFINE q == <<g.seq>>
<1>0. q \in Seq(Nat) /\ Len(q) = 1
  BY SegmentFields
<1>1. \E l \in BOOLEAN : NutTcpProcessAppData(s, g, more) = NutTcpOutput(Buffered(s, q, l), "nothing")
  <2>1. CASE more = TRUE
    <3>1. NutTcpProcessAppData(s, g, more) = NutTcpOutput(Buffered(s, q, FALSE), "nothing")
      BY <2>1 DEF NutTcpProcessAppData, Buffered
    <3> QED BY <3>1
  <2>2. CASE more = FALSE
    <3>1. NutTcpProcessAppData(s, g, more) = NutTcpOutput(Buffered(s, q, TRUE), "nothing")
      BY <2>2 DEF NutTcpProcessAppData, Buffered
    <3> QED BY <3>1
  <2> QED BY <2>1, <2>2
<1>2. PICK l \in BOOLEAN :
         NutTcpProcessAppData(s, g, more) = NutTcpOutput(Buffered(s, q, l), "nothing")
  BY <1>1
<1> DEFINE t == NutTcpOutput(Buffered(s, q, l), "nothing")
<1> HIDE DEF q
<1>3. /\ Goes(s, t)
      /\ Same(s, t, {"rxBuf", "rxCnt", "rxNxt", "rxWin", "ack", "force", "out"})
      /\ t.rxBuf = s.rxBuf \o q /\ t.rxNxt = s.rxNxt + Len(q)
      /\ t.rxWin = IF Len(q) >= s.rxWin THEN 0 ELSE s.rxWin - Len(q)
  BY <1>0, TakenIs
<1> HIDE DEF t
<1>4. Len(t.rxBuf) = Len(s.rxBuf) + 1
  <2>1. s.rxBuf \in Seq(Nat)
    BY DEF Typed, Fields
  <2> QED BY <1>0, <1>3, <2>1, ConcatLen
<1>5. t = NutTcpProcessAppData(s, g, more)
  BY <1>2 DEF t
<1> QED BY <1>0, <1>3, <1>4, <1>5 DEF q

LEMMA AppDataTidy ==
    ASSUME NEW s, NEW t, Typed(s), Tidy(s), Taking(s), NEW g \in Segment,
           Same(s, t, {"rxBuf", "rxCnt", "rxNxt", "rxWin", "ack", "force", "out"}),
           t.rxBuf = s.rxBuf \o <<g.seq>>, t.rxNxt = s.rxNxt + 1,
           s.skew = FALSE => g.seq = s.rxNxt
    PROVE  Tidy(t)
<1> DEFINE q == <<g.seq>>
<1>1. q \in Seq(Nat) /\ Len(q) = 1
  BY SegmentFields
<1>2. s.skew = FALSE => Following(s, q)
  <2> SUFFICES ASSUME s.skew = FALSE, NEW i \in DOMAIN q
               PROVE  q[i] = s.rxNxt + i - 1
    BY DEF Following
  <2>1. i = 1 /\ q[i] = g.seq
    OBVIOUS
  <2>2. s.rxNxt \in Nat
    BY Numbers
  <2> HIDE DEF q
  <2> QED BY <2>1, <2>2
<1>3. t.rxBuf = s.rxBuf \o q /\ t.rxNxt = s.rxNxt + Len(q)
  BY <1>1
<1> HIDE DEF q
<1> QED BY <1>1, <1>2, <1>3, TidyTaken

LEMMA EstablishedTakes ==
    ASSUME NEW s, Typed(s), s.state = "ESTABLISHED", s.sm = NIL, s.app # "closed",
           Tidy(s), Fits(s), Beyond(s),
           NEW g \in Segment, g.seq = s.rxNxt, g.seq < Edge(s), NEW more \in BOOLEAN
    PROVE  LET t == NutTcpProcessAppData(s, g, more)
           IN  /\ Goes(s, t) /\ Typed(t) /\ t.una = s.una /\ t.win = s.win
               /\ t.state = "ESTABLISHED" /\ t.sm = NIL /\ t.app = s.app
               /\ Tidy(t) /\ Fits(t) /\ Within(t)
<1> DEFINE t == NutTcpProcessAppData(s, g, more)
<1>1. /\ Goes(s, t) /\ Typed(t)
      /\ Same(s, t, {"rxBuf", "rxCnt", "rxNxt", "rxWin", "ack", "force", "out"})
      /\ t.rxBuf = s.rxBuf \o <<g.seq>> /\ t.rxNxt = s.rxNxt + 1
      /\ Len(t.rxBuf) = Len(s.rxBuf) + 1
      /\ t.rxWin = IF 1 >= s.rxWin THEN 0 ELSE s.rxWin - 1
  BY AppDataIs DEF Goes
<1> HIDE DEF t
<1>2. Tidy(t)
  <2>1. Taking(s)
    BY DEF Taking
  <2> QED BY <1>1, <2>1, AppDataTidy
<1>3. /\ t.una = s.una /\ t.win = s.win /\ t.state = "ESTABLISHED" /\ t.sm = NIL
      /\ t.app = s.app /\ t.adv = s.adv
  BY <1>1 DEF Same, Names
<1>4. s.rxWin > 0 /\ s.rxWin \in Nat /\ s.rxNxt \in Nat
  <2>1. s.rxWin \in Nat /\ s.rxNxt \in Nat
    BY Numbers
  <2> QED BY <2>1 DEF Edge
<1>5. t.rxWin = s.rxWin - 1
  BY <1>1, <1>4
<1>6. Fits(t)
  <2>1. Len(s.adv) < s.rxWin
    BY <1>4, BeyondLess
  <2>2. Len(s.adv) \in Nat /\ Len(s.rxBuf) \in Nat /\ WinSize \in Nat
    <3>1. s.adv \in Seq(Segment) /\ s.rxBuf \in Seq(Nat)
      BY DEF Typed, Fields
    <3> QED BY <3>1, TcpAssumption
  <2>3. Len(s.rxBuf) + s.rxWin <= WinSize
    BY DEF Fits
  <2>4. Len(t.rxBuf) + t.rxWin <= WinSize /\ Len(t.adv) <= t.rxWin
    BY <1>1, <1>3, <1>4, <1>5, <2>1, <2>2, <2>3
  <2> QED BY <1>3, <2>4 DEF Fits
<1>7. Within(t)
  <2> SUFFICES ASSUME NEW i \in DOMAIN t.adv
               PROVE  t.rxNxt <= t.adv[i].seq /\ t.adv[i].seq < Edge(t)
    BY DEF Within
  <2> DEFINE x == s.adv[i].seq
  <2>1. x \in Nat /\ s.rxNxt < x /\ x < Edge(s) /\ t.adv[i].seq = x
    <3>1. s.adv \in Seq(Segment) /\ i \in DOMAIN s.adv
      BY <1>3 DEF Typed, Fields
    <3> QED BY <1>3, <3>1, QueueFields DEF Beyond
  <2> HIDE DEF x
  <2> QED BY <1>1, <1>4, <1>5, <2>1 DEF Edge
<1> QED BY <1>1, <1>2, <1>3, <1>6, <1>7 DEF t

LEMMA EstablishedData ==
    ASSUME NEW e \in Node, NEW s, Ready(e, s), NEW g \in Segment, Fitting(e, s, g),
           "RST" \notin g.flags, g.data = TRUE, g.seq = s.rxNxt, NEW more \in BOOLEAN
    PROVE  LET t == NutTcpProcessAppData(Acked(s, g), g, more)
           IN  /\ Handled(e, s, Then(t, "absorb", Fin(g)), g)
               /\ Handled(e, s, Absorb(t, Fin(g)), g)
<1> DEFINE a == Acked(s, g)
           t == NutTcpProcessAppData(a, g, more)
           u == Then(t, "absorb", Fin(g))
           v == Absorb(t, Fin(g))
<1>1. /\ Goes(s, a) /\ Typed(a) /\ Heard(s, a, g)
      /\ a.state = "ESTABLISHED" /\ a.sm = NIL /\ a.app # "closed"
      /\ a.app = s.app \/ (s.app = "tx" /\ a.app = "txw")
      /\ Tidy(a) /\ Fits(a) /\ Beyond(a)
      /\ a.rxNxt = s.rxNxt /\ Edge(a) = Edge(s)
  BY AckedReady
<1> HIDE DEF a
<1>2. /\ Goes(a, t) /\ Typed(t) /\ t.una = a.una /\ t.win = a.win
      /\ t.state = "ESTABLISHED" /\ t.sm = NIL /\ t.app = a.app
      /\ Tidy(t) /\ Fits(t) /\ Within(t)
  <2>1. g.seq = a.rxNxt /\ g.seq < Edge(a)
    BY <1>1 DEF Fitting
  <2> QED BY <1>1, <2>1, EstablishedTakes
<1> HIDE DEF t
<1>3. Heard(s, t, g) /\ Goes(s, t) /\ Typed(s)
  BY <1>1, <1>2, GoesTrans, ReadyIs DEF Heard
<1>4. Handled(e, s, u, g)
  <2>1. Goes(t, u) /\ Same(t, u, {"sm"}) /\ u.sm # NIL /\ u.sm.at = "absorb"
    BY <1>2, ThenIs, FinIs
  <2> HIDE DEF u
  <2>2. Goes(s, u)
    BY <1>3, <2>1, GoesTrans
  <2>3. u.state = "ESTABLISHED" /\ u.app = t.app
    BY <1>2, <2>1 DEF Same, Names
  <2>4. {"sm"} \cap {"una", "win"} = {} /\ {"sm"} \cap StreamFields = {} /\ {"sm"} \cap RoomFields = {}
    BY DEF StreamFields, RoomFields
  <2>5. Heard(s, u, g)
    BY <1>3, <2>1, <2>4, HeardSame
  <2>6. Tidy(u)
    BY <1>2, <2>1, <2>3, <2>4, TidySame
  <2>7. Fits(u) /\ Within(u)
    <3>1. u.app = "closed" <=> t.app = "closed"
      BY <2>3
    <3> QED BY <1>2, <2>1, <2>4, <3>1, RoomSame
  <2>8. Waking(s.app, u.app)
    BY <1>1, <1>2, <2>3 DEF Waking
  <2>9. Stage(u) = "absorb"
    BY <2>1 DEF Stage
  <2>10. Good(e, u)
    BY <2>3, <2>6, <2>7, <2>8, <2>9, ReadyIs, EstablishedGood DEF Ready
  <2> QED BY <2>2, <2>3, <2>5, <2>10 DEF Handled
<1>5. Handled(e, s, v, g)
  <2>1. /\ Goes(t, v) /\ Same(t, v, AbsorbFields)
        /\ v.app = t.app \/ (t.app = "rx" /\ v.app = "rxw")
        /\ Tidy(v) /\ Fits(v)
        /\ \/ v.state = "ESTABLISHED" /\ Stage(v) \in {"idle", "post"} /\ Beyond(v)
           \/ Closed(v)
    <3>1. t.app # "closed"
      BY <1>1, <1>2
    <3> QED BY <1>2, <3>1, FinIs, EstablishedAbsorb
  <2> HIDE DEF v
  <2>2. Goes(s, v)
    BY <1>3, <2>1, GoesTrans
  <2>3. Heard(s, v, g)
    <3>1. AbsorbFields \cap {"una", "win"} = {}
      BY DEF AbsorbFields, EndFields
    <3> QED BY <1>3, <2>1, <3>1, HeardSame
  <2>4. Waking(s.app, v.app)
    BY <1>1, <1>2, <2>1 DEF Waking
  <2>5. Good(e, v)
    BY <2>1, <2>4, ReadyIs, EstablishedGood DEF Ready, Closed
  <2>6. v.state # "GONE"
    BY <2>1 DEF Closed
  <2> QED BY <2>2, <2>3, <2>5, <2>6 DEF Handled
<1> QED BY <1>4, <1>5 DEF t, u, v, a

\* A handler that leaves the socket as it is, or only sends something.
LEMMA HandledStill ==
    ASSUME NEW e, NEW s, NEW t, NEW g, Typed(s), Goes(s, t), Same(s, t, {"out", "ack", "force"}),
           Good(e, s), s.state # "GONE", s.app # "start"
    PROVE  Handled(e, s, t, g)
<1>1. t.state = s.state /\ t.app = s.app /\ t.sm = s.sm /\ t.una = s.una /\ t.win = s.win
      /\ t.read = s.read /\ t.rxBuf = s.rxBuf /\ t.rxWin = s.rxWin /\ t.adv = s.adv
      /\ t.rxNxt = s.rxNxt /\ t.rxIsn = s.rxIsn /\ t.skew = s.skew
  BY DEF Same, Names
<1>2. Control(e, t)
  BY <1>1 DEF Good, Control, Stage
<1>3. Blank(t)
  BY <1>1 DEF Good, Blank
<1>4. Tidy(t)
  BY <1>1 DEF Good, Tidy
<1>5. Room(t)
  BY <1>1 DEF Good, Room, Fits, Within, Beyond, Edge, At
<1> QED BY <1>1, <1>2, <1>3, <1>4, <1>5 DEF Handled, Good, Heard

LEMMA HandledNothing ==
    ASSUME NEW e, NEW s, NEW g \in Segment, Typed(s), Good(e, s), s.state # "GONE",
           s.app # "start"
    PROVE  Handled(e, s, s, g) /\ Handled(e, s, Rejected(s, g), g)
<1>1. Goes(s, s)
  <2>1. Same(s, s, {}) /\ {} \cap {"out", "nbq", "nxt", "rxNxt", "rxWin"} = {}
    BY DEF Same
  <2> QED BY <2>1, GoesSame
<1>2. Same(s, s, {"out", "ack", "force"})
  BY DEF Same
<1>3. Goes(s, Rejected(s, g)) /\ Same(s, Rejected(s, g), {"out", "ack", "force"})
  BY RejectedIs DEF Same
<1> QED BY <1>1, <1>2, <1>3, HandledStill

\* A socket that is given up.
LEMMA AbortHandled ==
    ASSUME NEW e \in Node, NEW s, Typed(s), Good(e, s), s.sm = NIL,
           s.state # "GONE", s.app # "start", NEW g
    PROVE  Handled(e, s, NutTcpAbortSocket(s), g)
<1> DEFINE t == NutTcpAbortSocket(s)
           x == s.state
           y == t.state
<1>1. /\ Goes(s, t) /\ Same(s, t, {"state", "app", "rxBuf", "nbq", "adv"})
      /\ t.rxBuf = <<>> /\ t.adv = <<>>
      /\ y = IF x \in ClosedByUs THEN "TIME_WAIT" ELSE "CLOSED"
      /\ t.app = Woken(s.app)
  BY AbortIs
<1> HIDE DEF t
<1>2. /\ t.una = s.una /\ t.win = s.win /\ t.sm = NIL /\ t.rxWin = s.rxWin
      /\ t.read = s.read /\ t.rxIsn = s.rxIsn /\ t.skew = s.skew
  BY <1>1 DEF Same, Names
<1>3. Stage(s) = "idle" /\ Stage(t) = "idle"
  BY <1>2 DEF Stage
<1>4. ControlOf(e, x, s.app, "idle") /\ x # "GONE"
  BY <1>3 DEF Good, Control
<1> HIDE DEF x, y
<1>5. (t.app = "closed" <=> s.app = "closed") /\ t.app # "start"
  BY <1>1 DEF Woken
<1>6. ControlOf(e, y, t.app, "idle") /\ y \in {"CLOSED", "TIME_WAIT"}
  <2>1. CASE x \in ClosedByUs
    <3>1. s.app = "closed" /\ y = "TIME_WAIT" /\ t.app = "closed"
      BY <1>1, <1>4, <1>5, <2>1 DEF ControlOf
    <3> QED BY <3>1, <1>4 DEF ControlOf, ClosedByUs, Opening
  <2>2. CASE x \notin ClosedByUs
    <3>1. s.app # "closed" /\ y = "CLOSED" /\ t.app = Woken(s.app)
      BY <1>1, <1>4, <2>2 DEF ControlOf
    <3> QED BY <1>4, <1>5, <3>1 DEF ControlOf, ClosedByUs, Opening, Woken
  <2> QED BY <2>1, <2>2
<1>7. Control(e, t)
  BY <1>3, <1>6 DEF Control, y
<1>8. Tidy(t)
  <2>1. DOMAIN t.rxBuf = {}
    BY <1>1
  <2>2. Tidy(s)
    BY DEF Good
  <2> QED BY <1>2, <1>6, <2>1, <2>2 DEF Tidy, y
<1>9. Room(t)
  <2>1. s.rxWin \in 0 .. WinSize /\ WinSize \in Nat
    BY TcpAssumption DEF Typed, Fields
  <2>2. Len(t.rxBuf) = 0 /\ Len(t.adv) = 0
    BY <1>1
  <2>3. Fits(t)
    BY <1>2, <2>1, <2>2 DEF Fits
  <2> QED BY <1>6, <2>3 DEF Room, y
<1>10. Blank(t)
  BY <1>5, <1>6 DEF Blank, Opening, y
<1> QED BY <1>1, <1>2, <1>6, <1>7, <1>8, <1>9, <1>10 DEF Handled, Heard, Good, t, y

LEMMA EstablishedIs ==
    ASSUME NEW e \in Node, NEW s, Ready(e, s), NEW g \in Segment, Fitting(e, s, g),
           NEW more \in BOOLEAN, NEW keep \in BOOLEAN
    PROVE  Handled(e, s, NutTcpStateEstablished(s, g, more, keep), g)
<1> DEFINE t == NutTcpStateEstablished(s, g, more, keep)
<1>0. Typed(s) /\ Good(e, s) /\ s.state # "GONE" /\ s.app # "start"
  BY DEF Ready, Good, Control, ControlOf
<1>1. Handled(e, s, s, g) /\ Handled(e, s, Rejected(s, g), g)
  BY <1>0, HandledNothing
<1>2. CASE "RST" \in g.flags
  <2>1. t = NutTcpAbortSocket(s)
    BY <1>2 DEF NutTcpStateEstablished
  <2> HIDE DEF t
  <2>2. Handled(e, s, NutTcpAbortSocket(s), g)
    BY <1>0, AbortHandled DEF Ready
  <2> QED BY <2>1, <2>2 DEF t
<1>3. CASE "RST" \notin g.flags /\ "SYN" \in g.flags
  <2> DEFINE u == Rejected(s, g)
  <2>1. t = u \/ t = s
    BY <1>3 DEF NutTcpStateEstablished
  <2>2. Handled(e, s, u, g)
    BY <1>1
  <2> HIDE DEF t, u
  <2> QED BY <1>1, <2>1, <2>2 DEF t
<1>4. CASE g.flags \cap {"RST", "SYN", "ACK"} = {}
  <2>1. t = s
    BY <1>4 DEF NutTcpStateEstablished
  <2> QED BY <1>1, <2>1
<1>5. CASE "RST" \notin g.flags /\ "SYN" \notin g.flags /\ "ACK" \in g.flags
  <2> DEFINE a == Acked(s, g)
             d == NutTcpProcessAppData(a, g, more)
             f == Fin(g)
  <2>1. t = IF Ahead(s, g) THEN ForceAck(InAdvance(a, g, keep))
            ELSE IF Unexpected(s, g) THEN Then(ForceAck(a), "finish", f)
            ELSE IF ~g.data THEN CheckFin(a, f)
            ELSE IF Sent(d) THEN Then(d, "absorb", f) ELSE Absorb(d, f)
    BY <1>5 DEF NutTcpStateEstablished, Acked
  <2> HIDE DEF t, a, d, f
  <2>2. g.data \in BOOLEAN
    BY SegmentFields
  <2>3. CASE g.seq > s.rxNxt
    <3>1. t = ForceAck(InAdvance(a, g, keep))
      BY <2>1, <2>3 DEF Ahead
    <3>2. Handled(e, s, ForceAck(InAdvance(Acked(s, g), g, keep)), g)
      BY <1>5, <2>3, EstablishedAhead
    <3> QED BY <3>1, <3>2 DEF t, a
  <2>4. CASE ~(g.seq > s.rxNxt) /\ g.seq # s.rxNxt
    <3>1. t = Then(ForceAck(a), "finish", f)
      BY <2>1, <2>4 DEF Ahead, Unexpected
    <3>2. Handled(e, s, Then(ForceAck(Acked(s, g)), "finish", Fin(g)), g)
      BY <1>5, EstablishedOld
    <3> QED BY <3>1, <3>2 DEF t, a, f
  <2>5. CASE ~(g.seq > s.rxNxt) /\ g.seq = s.rxNxt /\ g.data = FALSE
    <3>1. t = CheckFin(a, f)
      BY <2>1, <2>5 DEF Ahead, Unexpected
    <3>2. Handled(e, s, CheckFin(Acked(s, g), Fin(g)), g)
      BY <1>5, EstablishedNoData
    <3> QED BY <3>1, <3>2 DEF t, a, f
  <2>6. CASE ~(g.seq > s.rxNxt) /\ g.seq = s.rxNxt /\ g.data = TRUE
    <3>1. t = Then(d, "absorb", f) \/ t = Absorb(d, f)
      BY <2>1, <2>6 DEF Ahead, Unexpected
    <3>2. /\ Handled(e, s, Then(d, "absorb", f), g)
          /\ Handled(e, s, Absorb(d, f), g)
      BY <1>5, <2>6, EstablishedData DEF a, d, f
    <3> QED BY <3>1, <3>2 DEF t
  <2> QED BY <2>2, <2>3, <2>4, <2>5, <2>6
<1> QED BY <1>2, <1>3, <1>4, <1>5

-----------------------------------------------------------------------------
(* What a step of a node may do to its socket.                             *)

\* A SYN of node e.
NewSyn(e, t, o) ==
    /\ o \in Segment
    /\ o.data = FALSE /\ "RST" \notin o.flags
    /\ o.ack <= t.rxNxt /\ o.ack + o.win <= t.rxNxt + t.rxWin
    /\ o.seq < t.nxt
    /\ IF e = Active THEN o.seq = 0 ELSE "ACK" \in o.flags

IssuesSyn(e, s, t) ==
    \A o : Member(t.out, o) \/ Member(t.nbq, o)
           => Member(s.out, o) \/ Member(s.nbq, o) \/ New(t, o) \/ NewSyn(e, t, o)

\* A socket that is gone does not come back; another one never forgets what it has offered.
Moves(e, s, t) ==
    /\ Typed(t) /\ IssuesSyn(e, s, t)
    /\ t.state # "GONE" => Grows(s, t)
    /\ s.state = "GONE" => t.state = "GONE"

\* Socket s of node e becomes t for segment g.
Result(e, s, t, g) == Moves(e, s, t) /\ Heard(s, t, g) /\ Good(e, t)

LEMMA HandledResult ==
    ASSUME NEW e, NEW s, NEW t, NEW g, Handled(e, s, t, g), s.state # "GONE"
    PROVE  Result(e, s, t, g)
  BY DEF Handled, Result, Moves, Goes, Issues, IssuesSyn

\* NutTcpDestroySocket.
LEMMA DestroyResult ==
    ASSUME NEW e \in Node, NEW s, Typed(s), Tidy(s), NEW g,
           ControlOf(e, "GONE", s.app, Stage(s))
    PROVE  Result(e, s, NutTcpDestroySocket(s), g)
<1> DEFINE t == NutTcpDestroySocket(s)
<1>1. /\ Typed(t) /\ Issues(s, t) /\ t.state = "GONE"
      /\ Same(NewSocket, t, {"state", "app", "read", "rxIsn", "sm", "skew"})
      /\ Same(s, t, Names \ {"app", "read", "rxIsn", "sm", "skew"})
  BY DestroyIs
<1> HIDE DEF t
<1>2. /\ t.app = s.app /\ t.read = s.read /\ t.rxIsn = s.rxIsn /\ t.sm = s.sm
      /\ t.skew = s.skew
  BY <1>1 DEF Same, Names
<1>3. /\ t.una = 0 /\ t.win = 0 /\ t.nbq = <<>> /\ t.rxBuf = <<>> /\ t.adv = <<>>
  BY <1>1 DEF Same, Names, NewSocket
<1>4. s.app = "closed"
  BY DEF ControlOf
<1>5. Control(e, t)
  BY <1>1, <1>2 DEF Control, Stage
<1>6. Blank(t)
  BY <1>1, <1>2, <1>3, <1>4 DEF Blank, Opening
<1>7. Tidy(t)
  BY <1>1, <1>2, <1>4 DEF Tidy
<1>8. Room(t)
  <2>1. Len(t.adv) = 0 /\ WinSize \in Nat
    BY <1>3, TcpAssumption
  <2> QED BY <1>1, <1>2, <1>4, <2>1 DEF Room, Fits
<1>9. Moves(e, s, t) /\ Heard(s, t, g)
  BY <1>1, <1>3 DEF Moves, Heard, Issues, IssuesSyn
<1> QED BY <1>5, <1>6, <1>7, <1>8, <1>9 DEF Result, Good, t

-----------------------------------------------------------------------------
(* The handlers of the states in which the connection ends.                *)

\* A socket that NutTcpSm takes a segment for.
Served(e, s) ==
    /\ Typed(s) /\ Good(e, s) /\ s.sm = NIL
    /\ s.state \notin {"CLOSED", "GONE"}

LEMMA ServedIs ==
    ASSUME NEW e, NEW s, Served(e, s)
    PROVE  /\ Typed(s) /\ Good(e, s) /\ s.state # "GONE" /\ s.app # "start"
           /\ Stage(s) = "idle" /\ Control(e, s) /\ Tidy(s)
           /\ ControlOf(e, s.state, s.app, "idle")
<1>1. Typed(s) /\ Good(e, s) /\ s.state # "GONE" /\ Stage(s) = "idle" /\ Control(e, s) /\ Tidy(s)
  BY DEF Served, Good, Stage
<1>2. ControlOf(e, s.state, s.app, "idle")
  BY <1>1 DEF Control
<1>3. s.app # "start"
  BY <1>2 DEF ControlOf, Served
<1> QED BY <1>1, <1>2, <1>3

\* An acknowledgement on its own.
LEMMA AckHandled ==
    ASSUME NEW e \in Node, NEW s, Served(e, s), s.state \notin Opening,
           NEW g \in Segment, "RST" \notin g.flags
    PROVE  LET t == NutTcpProcessAck(s, g)
           IN  /\ Handled(e, s, t, g) /\ Served(e, t)
               /\ t.state = s.state /\ t.app = s.app
               /\ Same(s, t, AckFields \ {"app"})
<1> DEFINE t == NutTcpProcessAck(s, g)
<1>1. /\ Goes(s, t) /\ Same(s, t, AckFields \ {"app"}) /\ Typed(t)
      /\ \/ t.una = s.una /\ t.win = s.win
         \/ t.una = g.ack /\ t.win = g.win
  BY ServedIs, ProcessAckIs DEF Goes, AckFields, Same
<1> HIDE DEF t
<1>2. t.state = s.state /\ t.app = s.app /\ t.sm = s.sm
      /\ t.read = s.read /\ t.rxBuf = s.rxBuf /\ t.rxWin = s.rxWin /\ t.adv = s.adv
      /\ t.rxNxt = s.rxNxt /\ t.rxIsn = s.rxIsn /\ t.skew = s.skew
  BY <1>1 DEF Same, Names, AckFields
<1>3. Heard(s, t, g)
  BY <1>1 DEF Heard
<1>4. Control(e, t)
  BY <1>2, ServedIs DEF Control, Stage
<1>5. Blank(t)
  BY <1>2, ServedIs DEF Blank, Opening
<1>6. Tidy(t)
  <2>1. Tidy(s)
    BY ServedIs
  <2> QED BY <1>2, <2>1 DEF Tidy
<1>7. Room(t)
  BY <1>2, ServedIs DEF Good, Room, Fits, Within, Beyond, Edge, At
<1>8. Good(e, t)
  BY <1>4, <1>5, <1>6, <1>7 DEF Good
<1> QED BY <1>1, <1>2, <1>3, <1>8, ServedIs DEF Handled, Served, t

\* A change within the states in which the application has closed the socket.
LEMMA ClosingGood ==
    ASSUME NEW e \in Node, NEW s, NEW t, Typed(s), Typed(t), Good(e, s), s.state \in ClosedByUs,
           t.state \in ClosedByUs, t.app = s.app,
           \/ Stage(t) = "idle"
           \/ Stage(t) = "finwait" /\ t.state \in {"FIN_WAIT_1", "FIN_WAIT_2"}
           \/ Stage(t) = "post" /\ t.state = "FIN_WAIT_1",
           t.read = s.read, t.rxIsn = s.rxIsn, t.skew = s.skew, Len(t.adv) <= Len(s.adv)
    PROVE  Good(e, t)
<1> DEFINE x == s.state
           y == t.state
           a == s.app
           p == Stage(s)
<1>1. ControlOf(e, x, a, p) /\ x \in ClosedByUs /\ y \in ClosedByUs
  BY DEF Good, Control
<1> HIDE DEF x, y, a, p
<1>2. a = "closed"
  BY <1>1 DEF ControlOf
<1>3. ControlOf(e, y, a, "idle")
  BY <1>1, <1>2, ControlClosed
<1>4. y \in {"FIN_WAIT_1", "FIN_WAIT_2"} => ControlOf(e, y, a, "finwait")
  BY <1>1, <1>2 DEF ControlOf, ClosedByUs, Opening
<1>10. y = "FIN_WAIT_1" => ControlOf(e, y, a, "post")
  BY <1>1, <1>2 DEF ControlOf, ClosedByUs, Opening
<1>5. Control(e, t)
  BY <1>3, <1>4, <1>10 DEF Control, y, a
<1>6. t.app = "closed" /\ s.app = "closed"
  BY <1>2 DEF a
<1>7. Blank(t)
  BY <1>1, <1>6 DEF Blank, y, ClosedByUs, Opening
<1>8. Tidy(t)
  <2>1. Tidy(s)
    BY DEF Good
  <2> QED BY <1>1, <1>6, <2>1 DEF Tidy, y, ClosedByUs
<1>9. Room(t)
  <2>1. Len(s.adv) <= WinSize
    BY <1>6 DEF Good, Room, Fits
  <2>2. Len(s.adv) \in Nat /\ Len(t.adv) \in Nat /\ WinSize \in Nat
    <3>1. s.adv \in Seq(Segment) /\ t.adv \in Seq(Segment)
      BY DEF Typed, Fields
    <3> QED BY <3>1, TcpAssumption
  <2>3. Len(t.adv) <= WinSize
    BY <2>1, <2>2
  <2> QED BY <1>1, <1>6, <2>3 DEF Room, Fits, y, ClosedByUs
<1> QED BY <1>5, <1>7, <1>8, <1>9 DEF Good

LEMMA IfAckedResult ==
    ASSUME NEW e \in Node, NEW s, Served(e, s), s.state \in ClosedByUs \cup {"CLOSE_WAIT"},
           NEW g \in Segment, NEW next,
           s.state = "CLOSE_WAIT" => "RST" \notin g.flags,
           "RST" \notin g.flags => Result(e, s, next, g)
    PROVE  Result(e, s, IfAcked(s, g, next), g)
<1> DEFINE t == IfAcked(s, g, next)
<1>1. CASE "RST" \in g.flags
  <2>1. ControlOf(e, "GONE", s.app, Stage(s))
    BY <1>1, ServedIs DEF ControlOf, ClosedByUs, Opening
  <2> QED BY <1>1, <2>1, DestroyResult, ServedIs DEF IfAcked
<1>2. CASE "RST" \notin g.flags
  <2>1. Result(e, s, s, g) /\ Result(e, s, Rejected(s, g), g)
    BY ServedIs, HandledNothing, HandledResult
  <2>2. t = s \/ t = Rejected(s, g) \/ t = next
    <3>1. CASE "SYN" \in g.flags
      BY <1>2, <3>1 DEF IfAcked
    <3>2. CASE "SYN" \notin g.flags /\ "ACK" \in g.flags
      BY <1>2, <3>2 DEF IfAcked
    <3>3. CASE "SYN" \notin g.flags /\ "ACK" \notin g.flags
      <4>1. g.flags \cap {"RST", "SYN", "ACK"} = {}
        BY <1>2, <3>3
      <4> QED BY <1>2, <3>3, <4>1 DEF IfAcked
    <3> QED BY <3>1, <3>2, <3>3
  <2> HIDE DEF t
  <2>3. Result(e, s, next, g)
    BY <1>2
  <2>4. Result(e, s, t, g)
    BY <2>1, <2>2, <2>3
  <2> QED BY <2>4 DEF t
<1> QED BY <1>1, <1>2

LEMMA CloseWaitIs ==
    ASSUME NEW e \in Node, NEW s, Served(e, s), s.state = "CLOSE_WAIT", NEW g \in Segment
    PROVE  Result(e, s, NutTcpStateCloseWait(s, g), g)
<1>1. CASE "RST" \in g.flags
  BY <1>1, ServedIs, AbortHandled, HandledResult DEF NutTcpStateCloseWait, Served
<1>2. CASE "RST" \notin g.flags
  <2> DEFINE a == NutTcpProcessAck(s, g)
  <2>1. Result(e, s, a, g)
    BY <1>2, AckHandled, HandledResult, ServedIs DEF Opening
  <2>2. NutTcpStateCloseWait(s, g) = IfAcked(s, g, a)
    BY <1>2 DEF NutTcpStateCloseWait
  <2> HIDE DEF a
  <2> QED BY <1>2, <2>1, <2>2, IfAckedResult
<1> QED BY <1>1, <1>2

\* A change of state when the connection ends.
LEMMA ClosingChange ==
    ASSUME NEW e \in Node, NEW s, NEW a, NEW g, Typed(s), Handled(e, s, a, g), Served(e, a),
           a.state \in ClosedByUs,
           NEW x \in {"FIN_WAIT_2", "CLOSING", "TIME_WAIT"}
    PROVE  LET t == NutTcpStateChange(a, x)
           IN  /\ Handled(e, s, t, g) /\ Served(e, t)
               /\ t.state = IF Follows(a.state, x) THEN x ELSE a.state
<1> DEFINE t == NutTcpStateChange(a, x)
           F == {"state", "ack", "force", "out", "nxt", "nbq"}
<1>0. x \in State \ {"SYN_SENT", "SYN_RECEIVED"} /\ x \in ClosedByUs
  BY DEF State, ClosedByUs
<1>1. /\ Goes(a, t) /\ Same(a, t, F) /\ Typed(t)
      /\ t.state = IF Follows(a.state, x) THEN x ELSE a.state
  BY <1>0, ServedIs, StateChangeGoes DEF Goes
<1> HIDE DEF t
<1>2. /\ t.app = a.app /\ t.sm = NIL /\ t.read = a.read /\ t.rxIsn = a.rxIsn
      /\ t.skew = a.skew /\ t.adv = a.adv
  BY <1>1 DEF Same, Names, Served
<1>3. t.state \in ClosedByUs
  BY <1>0, <1>1
<1>4. Good(e, t)
  <2>1. Stage(t) = "idle"
    BY <1>2 DEF Stage
  <2>2. Len(t.adv) <= Len(a.adv)
    <3>1. a.adv \in Seq(Segment)
      BY DEF Served, Typed, Fields
    <3>2. Len(a.adv) \in Nat
      BY <3>1
    <3> QED BY <1>2, <3>2
  <2> QED BY <1>1, <1>2, <1>3, <2>1, <2>2, ServedIs, ClosingGood
<1>5. Goes(s, t)
  BY <1>1, GoesTrans DEF Handled
<1>6. Heard(s, t, g)
  <2>1. F \cap {"una", "win"} = {}
    OBVIOUS
  <2> HIDE DEF F
  <2> QED BY <1>1, <2>1, HeardSame DEF Handled
<1>7. t.state \notin {"CLOSED", "GONE"}
  BY <1>3 DEF ClosedByUs
<1> QED BY <1>1, <1>2, <1>4, <1>5, <1>6, <1>7 DEF Handled, Served, t

LEMMA ClosingIs ==
    ASSUME NEW e \in Node, NEW s, Served(e, s), s.state = "CLOSING", NEW g \in Segment
    PROVE  Result(e, s, NutTcpStateClosing(s, g), g)
<1> DEFINE a == NutTcpProcessAck(s, g)
           n == IF a.nxt = a.una THEN NutTcpStateChange(a, "TIME_WAIT") ELSE a
<1>1. ASSUME "RST" \notin g.flags PROVE Result(e, s, n, g)
  <2>1. Handled(e, s, a, g) /\ Served(e, a) /\ a.state = s.state
    BY <1>1, AckHandled DEF Opening
  <2> HIDE DEF a
  <2>2. Handled(e, s, NutTcpStateChange(a, "TIME_WAIT"), g)
    BY <2>1, ServedIs, ClosingChange DEF ClosedByUs
  <2>3. Handled(e, s, n, g)
    BY <2>1, <2>2
  <2> QED BY <2>3, HandledResult, ServedIs
<1>2. NutTcpStateClosing(s, g) = IfAcked(s, g, n)
  BY DEF NutTcpStateClosing
<1> HIDE DEF n
<1> QED BY <1>1, <1>2, IfAckedResult DEF ClosedByUs

LEMMA LastAckIs ==
    ASSUME NEW e \in Node, NEW s, Served(e, s), s.state = "LAST_ACK", NEW g \in Segment
    PROVE  Result(e, s, NutTcpStateLastAck(s, g), g)
<1> DEFINE a == NutTcpProcessAck(s, g)
           n == IF a.nxt = a.una THEN NutTcpDestroySocket(a) ELSE a
<1>1. ASSUME "RST" \notin g.flags PROVE Result(e, s, n, g)
  <2>1. Handled(e, s, a, g) /\ Served(e, a) /\ a.state = s.state /\ a.app = s.app
    BY <1>1, AckHandled DEF Opening
  <2> HIDE DEF a
  <2>2. ControlOf(e, "GONE", a.app, Stage(a))
    BY <2>1, ServedIs DEF ControlOf, ClosedByUs, Opening
  <2> DEFINE d == NutTcpDestroySocket(a)
  <2>3. Result(e, a, d, g) /\ d.state = "GONE" /\ d.una = 0 /\ d.win = 0
    <3>1. Result(e, a, d, g)
      BY <2>1, <2>2, DestroyResult, ServedIs
    <3>2. d.state = "GONE" /\ Same(NewSocket, d, {"state", "app", "read", "rxIsn", "sm", "skew"})
      BY <2>1, DestroyIs, ServedIs
    <3> HIDE DEF d
    <3> QED BY <3>1, <3>2 DEF Same, Names, NewSocket
  <2> HIDE DEF d
  <2>4. Result(e, s, d, g)
    <3>1. Issues(s, a)
      BY <2>1 DEF Handled, Goes
    <3>2. IssuesSyn(e, a, d) /\ Typed(d) /\ Good(e, d)
      BY <2>3 DEF Result, Moves
    <3>3. IssuesSyn(e, s, d)
      <4> SUFFICES ASSUME NEW o, Member(d.out, o) \/ Member(d.nbq, o)
                   PROVE  Member(s.out, o) \/ Member(s.nbq, o) \/ New(d, o) \/ NewSyn(e, d, o)
        BY DEF IssuesSyn
      <4>1. d.nbq = <<>> /\ Member(d.out, o)
        BY <2>3, <3>2 DEF Good, Blank, Member
      <4>2. Member(a.out, o)
        <5>1. d.out = <<>>
          BY <2>1, DestroyIs, ServedIs DEF d, Same, Names, NewSocket
        <5> QED BY <4>1, <5>1 DEF Member
      <4>3. Member(s.out, o)
        <5>1. a.out = s.out
          BY <1>1, AckHandled DEF a, Opening, Same, Names, AckFields
        <5> QED BY <4>2, <5>1
      <4> QED BY <4>3
    <3> QED BY <2>3, <3>2, <3>3, ServedIs DEF Result, Moves, Heard
  <2>5. Result(e, s, a, g)
    BY <2>1, HandledResult, ServedIs
  <2> QED BY <2>4, <2>5 DEF d
<1>2. NutTcpStateLastAck(s, g) = IfAcked(s, g, n)
  BY DEF NutTcpStateLastAck
<1> HIDE DEF n
<1> QED BY <1>1, <1>2, IfAckedResult DEF ClosedByUs

\* Data and a FIN for a socket the application has closed.
LEMMA FinReceivedIs ==
    ASSUME NEW e \in Node, NEW s, Typed(s), Good(e, s), s.state \in {"FIN_WAIT_1", "FIN_WAIT_2"},
           NEW f \in SUBSET {"FIN"}
    PROVE  LET t == FinReceived(s, f)
           IN  /\ Goes(s, t) /\ Good(e, t) /\ t.una = s.una /\ t.win = s.win
               /\ t.state \in ClosedByUs
<1> DEFINE x == IF s.state = "FIN_WAIT_2" THEN "TIME_WAIT" ELSE "CLOSING"
           u == [s EXCEPT !.rxNxt = @ + 1]
           c == NutTcpStateChange(u, x)
           r == IF f = {} THEN s ELSE c
           t == Done(r)
<1>0. FinReceived(s, f) = t
  BY DEF FinReceived
<1>1. Goes(s, u) /\ Same(s, u, {"rxNxt"}) /\ Typed(u)
  BY MoveOnIs DEF Goes
<1> HIDE DEF u
<1>2. x \in State \ {"SYN_SENT", "SYN_RECEIVED"} /\ x \in ClosedByUs
  BY DEF State, ClosedByUs
<1> HIDE DEF x
<1>3. /\ Goes(u, c) /\ Same(u, c, {"state", "ack", "force", "out", "nxt", "nbq"})
      /\ c.state = IF Follows(u.state, x) THEN x ELSE u.state
  BY <1>1, <1>2, StateChangeGoes
<1> HIDE DEF c
<1>4. Goes(s, s) /\ Same(s, s, {})
  <2>1. Same(s, s, {}) /\ {} \cap {"out", "nbq", "nxt", "rxNxt", "rxWin"} = {}
    BY DEF Same
  <2> QED BY <2>1, GoesSame
<1> DEFINE F == {"rxNxt", "state", "ack", "force", "out", "nxt", "nbq"}
<1>5. Goes(s, r) /\ Same(s, r, F) /\ r.state \in ClosedByUs
  <2>1. Goes(s, c) /\ Same(s, c, F)
    BY <1>1, <1>3, GoesTrans DEF Same, Names
  <2>2. u.state = s.state /\ s.state \in ClosedByUs
    BY <1>1 DEF Same, Names, ClosedByUs
  <2>3. c.state \in ClosedByUs
    BY <1>2, <1>3, <2>2
  <2> QED BY <1>4, <2>1, <2>2, <2>3 DEF Same
<1> HIDE DEF r
<1>6. Goes(r, t) /\ Same(r, t, {"sm"}) /\ t.sm = NIL /\ Typed(t)
  BY <1>5, DoneIs DEF Goes
<1> HIDE DEF t
<1>7. Goes(s, t)
  BY <1>5, <1>6, GoesTrans
<1>8. /\ t.una = s.una /\ t.win = s.win /\ t.state = r.state /\ t.app = s.app
      /\ t.read = s.read /\ t.rxIsn = s.rxIsn /\ t.skew = s.skew /\ t.adv = s.adv
  BY <1>5, <1>6 DEF Same, Names
<1>9. Good(e, t)
  <2>1. Stage(t) = "idle"
    BY <1>6 DEF Stage
  <2>2. Len(t.adv) <= Len(s.adv)
    <3>1. s.adv \in Seq(Segment)
      BY DEF Typed, Fields
    <3>2. Len(s.adv) \in Nat
      BY <3>1
    <3> QED BY <1>8, <3>2
  <2> QED BY <1>5, <1>6, <1>8, <2>1, <2>2, ClosingGood DEF ClosedByUs
<1> QED BY <1>0, <1>5, <1>7, <1>8, <1>9

LEMMA FinWaitData ==
    ASSUME NEW e \in Node, NEW s, Typed(s), Good(e, s), s.state \in {"FIN_WAIT_1", "FIN_WAIT_2"},
           s.sm = NIL, NEW g \in Segment, NEW more \in BOOLEAN
    PROVE  LET t == NutTcpProcessAppData(s, g, more)
               u == Then(t, "finwait", Fin(g))
           IN  /\ Goes(s, t) /\ Good(e, t) /\ t.una = s.una /\ t.win = s.win
               /\ t.state = s.state
               /\ Goes(s, u) /\ Good(e, u) /\ u.una = s.una /\ u.win = s.win
               /\ u.state = s.state
<1> DEFINE t == NutTcpProcessAppData(s, g, more)
           u == Then(t, "finwait", Fin(g))
<1>1. /\ Goes(s, t) /\ Typed(t)
      /\ Same(s, t, {"rxBuf", "rxCnt", "rxNxt", "rxWin", "ack", "force", "out"})
  BY AppDataIs DEF Goes
<1> HIDE DEF t
<1>2. Goes(t, u) /\ Same(t, u, {"sm"}) /\ u.sm # NIL /\ u.sm.at = "finwait" /\ Typed(u)
  BY <1>1, ThenIs, FinIs DEF Goes
<1> HIDE DEF u
<1>3. Goes(s, u)
  BY <1>1, <1>2, GoesTrans
<1>4. /\ t.una = s.una /\ t.win = s.win /\ t.state = s.state /\ t.app = s.app
      /\ t.read = s.read /\ t.rxIsn = s.rxIsn /\ t.skew = s.skew /\ t.adv = s.adv
      /\ t.sm = NIL
  BY <1>1 DEF Same, Names
<1>5. /\ u.una = s.una /\ u.win = s.win /\ u.state = s.state /\ u.app = s.app
      /\ u.read = s.read /\ u.rxIsn = s.rxIsn /\ u.skew = s.skew /\ u.adv = s.adv
  BY <1>2, <1>4 DEF Same, Names
<1>6. Len(t.adv) <= Len(s.adv) /\ Len(u.adv) <= Len(s.adv)
  <2>1. s.adv \in Seq(Segment)
    BY DEF Typed, Fields
  <2>2. Len(s.adv) \in Nat
    BY <2>1
  <2> QED BY <1>4, <1>5, <2>2
<1>7. Stage(t) = "idle" /\ Stage(u) = "finwait" /\ s.state \in ClosedByUs
  BY <1>2, <1>4 DEF Stage, ClosedByUs
<1>8. Good(e, t) /\ Good(e, u)
  BY <1>1, <1>2, <1>4, <1>5, <1>6, <1>7, ClosingGood
<1> QED BY <1>1, <1>3, <1>4, <1>5, <1>8 DEF t, u

LEMMA FinWaitIs ==
    ASSUME NEW e \in Node, NEW s, Served(e, s), s.state \in {"FIN_WAIT_1", "FIN_WAIT_2"},
           NEW g \in Segment, NEW more \in BOOLEAN
    PROVE  Result(e, s, NutTcpStateFinWait(s, g, more), g)
<1> DEFINE k == NutTcpProcessAck(s, g)
           a == IF s.state = "FIN_WAIT_1" /\ k.nxt = k.una
                THEN NutTcpStateChange(k, "FIN_WAIT_2") ELSE k
           d == NutTcpProcessAppData(a, g, more)
           f == Fin(g)
           n == IF ~g.data THEN FinReceived(a, f)
                ELSE IF Sent(d) THEN Then(d, "finwait", f) ELSE FinReceived(d, f)
<1>0. f \in SUBSET {"FIN"}
  BY FinIs
<1>1. ASSUME "RST" \notin g.flags PROVE Result(e, s, n, g)
  <2>1. Handled(e, s, k, g) /\ Served(e, k) /\ k.state = s.state
    BY <1>1, AckHandled DEF Opening
  <2> HIDE DEF k
  <2>2. /\ Handled(e, s, NutTcpStateChange(k, "FIN_WAIT_2"), g)
        /\ Served(e, NutTcpStateChange(k, "FIN_WAIT_2"))
        /\ NutTcpStateChange(k, "FIN_WAIT_2").state \in {"FIN_WAIT_1", "FIN_WAIT_2"}
    BY <2>1, ServedIs, ClosingChange DEF ClosedByUs
  <2>3. Handled(e, s, a, g) /\ Served(e, a) /\ a.state \in {"FIN_WAIT_1", "FIN_WAIT_2"}
    BY <2>1, <2>2
  <2> HIDE DEF a
  <2>4. Typed(s) /\ Typed(a) /\ Good(e, a) /\ Goes(s, a) /\ Heard(s, a, g) /\ a.sm = NIL
    BY <2>3, ServedIs DEF Handled, Served
  <2>5. ASSUME NEW t, Goes(a, t), Good(e, t), t.una = a.una, t.win = a.win, t.state \in ClosedByUs
        PROVE  Result(e, s, t, g)
    <3>1. Goes(s, t) /\ Heard(s, t, g)
      BY <2>4, <2>5, GoesTrans DEF Heard
    <3>2. t.state # "GONE"
      BY <2>5 DEF ClosedByUs
    <3> QED BY <2>5, <3>1, <3>2, HandledResult, ServedIs DEF Handled
  <2>6. Result(e, s, FinReceived(a, f), g)
    <3> DEFINE t == FinReceived(a, f)
    <3>1. Goes(a, t) /\ Good(e, t) /\ t.una = a.una /\ t.win = a.win /\ t.state \in ClosedByUs
      BY <1>0, <2>3, <2>4, FinReceivedIs
    <3> HIDE DEF t
    <3>2. Result(e, s, t, g)
      BY <2>5, <3>1
    <3> QED BY <3>2 DEF t
  <2> DEFINE h == Then(d, "finwait", f)
  <2>7. /\ Goes(a, d) /\ Good(e, d) /\ d.una = a.una /\ d.win = a.win /\ d.state = a.state
        /\ Goes(a, h) /\ Good(e, h) /\ h.una = a.una /\ h.win = a.win /\ h.state = a.state
    BY <2>3, <2>4, FinWaitData
  <2> HIDE DEF d, h
  <2>8. Result(e, s, h, g)
    <3>1. h.state \in ClosedByUs
      BY <2>3, <2>7 DEF ClosedByUs
    <3> QED BY <2>5, <2>7, <3>1
  <2>9. Result(e, s, FinReceived(d, f), g)
    <3> DEFINE t == FinReceived(d, f)
    <3>1. Goes(d, t) /\ Good(e, t) /\ t.una = d.una /\ t.win = d.win /\ t.state \in ClosedByUs
      BY <1>0, <2>3, <2>7, FinReceivedIs DEF Goes
    <3> HIDE DEF t
    <3>2. Goes(a, t)
      BY <2>4, <2>7, <3>1, GoesTrans
    <3>3. Result(e, s, t, g)
      BY <2>5, <2>7, <3>1, <3>2
    <3> QED BY <3>3 DEF t
  <2> QED BY <2>6, <2>8, <2>9 DEF h
<1>2. NutTcpStateFinWait(s, g, more) = IfAcked(s, g, n)
  BY DEF NutTcpStateFinWait
<1> HIDE DEF n
<1> QED BY <1>1, <1>2, IfAckedResult DEF ClosedByUs

-----------------------------------------------------------------------------
(* The handlers of the states in which the connection is opened.           *)

\* A SYN is sent.
LEMMA SynSent ==
    ASSUME NEW e \in Node, NEW s, NEW t, Typed(s), Typed(t), NEW what, Emitted(s, t, what),
           what = "SYN", t.rxNxt = s.rxNxt, t.rxWin = s.rxWin,
           e = Active => s.nxt = 0, e # Active => Acks(s, t)
    PROVE  IssuesSyn(e, s, t) /\ Grows(s, t)
<1>0. s.out \in Seq(Segment) /\ s.nbq \in Seq(Segment) /\ s.nxt \in Nat /\ s.rxNxt \in Nat
      /\ s.rxWin \in Nat
  BY Numbers DEF Typed, Fields
<1>1. PICK o \in Made(s, what) :
         /\ t.out = Append(s.out, o)
         /\ t.nxt = s.nxt + 1 /\ t.nbq = Append(s.nbq, o)
  BY DEF Emitted
<1>2. /\ o \in Segment /\ o.seq = s.nxt /\ o.win = s.rxWin /\ o.ack \in {0, s.rxNxt}
      /\ "RST" \notin o.flags
  BY DEF Made
<1>3. o.data = FALSE
  <2>1. ~o.data
    BY DEF Made
  <2> QED BY <1>2, <2>1, SegmentFields
<1>4. IF e = Active THEN o.seq = 0 ELSE "ACK" \in o.flags
  <2>1. CASE e = Active
    BY <1>2, <2>1
  <2>2. CASE e # Active
    <3>1. PICK x \in Segment : "ACK" \in x.flags /\ t.out = Append(s.out, x)
      BY <2>2 DEF Acks
    <3>2. Append(s.out, o)[Len(s.out) + 1] = o /\ Append(s.out, x)[Len(s.out) + 1] = x
      BY <1>0, <1>2
    <3>3. x = o
      BY <1>1, <3>1, <3>2
    <3> QED BY <2>2, <3>1, <3>3
  <2> QED BY <2>1, <2>2
<1>5. NewSyn(e, t, o)
  <2>1. o.ack <= t.rxNxt /\ o.ack + o.win <= t.rxNxt + t.rxWin /\ o.seq < t.nxt
    BY <1>0, <1>1, <1>2
  <2> QED BY <1>2, <1>3, <1>4, <2>1 DEF NewSyn
<1>6. IssuesSyn(e, s, t)
  <2> SUFFICES ASSUME NEW x, Member(t.out, x) \/ Member(t.nbq, x)
               PROVE  Member(s.out, x) \/ Member(s.nbq, x) \/ NewSyn(e, t, x)
    BY DEF IssuesSyn
  <2>1. Member(s.out, x) \/ Member(s.nbq, x) \/ x = o
    BY <1>0, <1>1, <1>2, AppendMember
  <2> QED BY <1>5, <2>1
<1>7. Grows(s, t)
  BY <1>0, <1>1 DEF Grows
<1> QED BY <1>6, <1>7

SynFields == {"rxIsn", "rxNxt", "wl1", "win", "state", "ack", "force", "out", "nxt", "nbq"}

\* A listening socket answers a SYN.
LEMMA ListenSyn ==
    ASSUME NEW s, Typed(s), s.state = "LISTEN", s.rxNxt \in {0, 1}, NEW g \in Segment, g.seq = 0
    PROVE  LET t == NutTcpStateChange(NutTcpProcessSyn(s, g), "SYN_RECEIVED")
           IN  /\ Typed(t) /\ IssuesSyn(Passive, s, t) /\ Grows(s, t) /\ Same(s, t, SynFields)
               /\ t.state = "SYN_RECEIVED" /\ t.rxNxt = 1 /\ t.rxIsn = 0 /\ t.win = g.win
<1> DEFINE u == NutTcpProcessSyn(s, g)
           t == NutTcpStateChange(u, "SYN_RECEIVED")
<1>1. /\ Typed(u) /\ Same(s, u, {"rxIsn", "rxNxt", "wl1", "win"})
      /\ u.rxIsn = 0 /\ u.rxNxt = 1 /\ u.win = g.win
  BY ProcessSynIs
<1> HIDE DEF u
<1>2. u.out = s.out /\ u.nbq = s.nbq /\ u.nxt = s.nxt /\ u.rxWin = s.rxWin /\ u.state = "LISTEN"
  BY <1>1 DEF Same, Names
<1>3. "SYN_RECEIVED" \in State /\ Follows(u.state, "SYN_RECEIVED")
  BY <1>2 DEF State, Follows
<1>4. /\ Typed(t) /\ Same(u, t, {"state", "ack", "force", "out", "nxt", "nbq"})
      /\ t.state = "SYN_RECEIVED" /\ Acks(u, t)
      /\ \E what : Sends(u.state, "SYN_RECEIVED", what) /\ Emitted(u, t, what)
  BY <1>1, <1>3, StateChangeIs
<1> HIDE DEF t
<1>5. PICK what : Sends(u.state, "SYN_RECEIVED", what) /\ Emitted(u, t, what)
  BY <1>4
<1>6. what = "SYN" /\ Passive \in Node /\ Passive # Active
  BY <1>5, TcpAssumption DEF Sends, Node
<1>7. t.rxNxt = u.rxNxt /\ t.rxWin = u.rxWin /\ t.rxIsn = u.rxIsn /\ t.win = u.win
  BY <1>4 DEF Same, Names
<1>8. IssuesSyn(Passive, u, t) /\ Grows(u, t)
  BY <1>1, <1>4, <1>5, <1>6, <1>7, SynSent
<1>9. IssuesSyn(Passive, s, t)
  BY <1>2, <1>8 DEF IssuesSyn
<1>10. Grows(s, t)
  <2>1. s.rxWin \in Nat /\ s.rxNxt \in Nat
    BY Numbers
  <2> QED BY <1>1, <1>2, <1>7, <1>8, <2>1 DEF Grows
<1>11. Same(s, t, SynFields)
  BY <1>1, <1>4 DEF Same, Names, SynFields
<1> QED BY <1>1, <1>4, <1>7, <1>9, <1>10, <1>11 DEF t, u

LEMMA OpeningBy ==
    ASSUME NEW e \in Node, NEW x, NEW a, NEW p, ControlOf(e, x, a, p)
    PROVE  /\ x \in {"LISTEN", "SYN_RECEIVED"} => e = Passive
           /\ x = "SYN_SENT" => e = Active
  BY DEF ControlOf, Node

LEMMA ListenIs ==
    ASSUME NEW e \in Node, NEW s, Served(e, s), s.state = "LISTEN", NEW g \in Segment,
           Fitting(e, s, g)
    PROVE  Result(e, s, NutTcpStateListen(s, g), g)
<1> DEFINE t == NutTcpStateChange(NutTcpProcessSyn(s, g), "SYN_RECEIVED")
<1>0. e = Passive /\ s.rxNxt \in {0, 1} /\ s.read = <<>> /\ s.rxBuf = <<>> /\ s.rxWin = WinSize
      /\ s.una = 0 /\ s.adv = <<>>
  BY ServedIs, OpeningBy DEF Good, Blank, Opening
<1>1. CASE g.flags \cap {"SYN", "ACK", "RST"} = {"SYN"}
  <2>1. g.seq = 0 /\ "RST" \notin g.flags
    BY <1>0, <1>1 DEF Fitting
  <2>2. /\ Typed(t) /\ IssuesSyn(Passive, s, t) /\ Grows(s, t) /\ Same(s, t, SynFields)
        /\ t.state = "SYN_RECEIVED" /\ t.rxNxt = 1 /\ t.rxIsn = 0 /\ t.win = g.win
    BY <1>0, <2>1, ServedIs, ListenSyn
  <2>3. NutTcpStateListen(s, g) = t
    BY <1>1 DEF NutTcpStateListen
  <2> HIDE DEF t
  <2>4. /\ t.read = <<>> /\ t.rxBuf = <<>> /\ t.rxWin = WinSize /\ t.una = 0 /\ t.adv = <<>>
        /\ t.app = s.app /\ t.sm = NIL
    BY <1>0, <2>2 DEF Same, Names, SynFields, Served
  <2>5. Control(e, t)
    <3>1. ControlOf(e, "LISTEN", s.app, "idle")
      BY ServedIs
    <3>2. ControlOf(e, "SYN_RECEIVED", s.app, "idle")
      BY <1>0, <3>1 DEF ControlOf, Opening, ClosedByUs
    <3> QED BY <2>2, <2>4, <3>2 DEF Control, Stage
  <2>6. Blank(t)
    BY <2>2, <2>4, ServedIs DEF Blank
  <2>7. Tidy(t)
    BY <2>2, <2>4 DEF Tidy
  <2>8. Room(t)
    <3>1. WinSize \in Nat /\ Len(t.rxBuf) = 0 /\ Len(t.adv) = 0
      BY <2>4, TcpAssumption
    <3> QED BY <2>2, <2>4, <3>1 DEF Room, Fits
  <2>9. Moves(e, s, t)
    BY <1>0, <2>2, ServedIs DEF Moves
  <2>10. Heard(s, t, g)
    BY <2>1, <2>2, <2>4 DEF Heard
  <2> QED BY <2>3, <2>5, <2>6, <2>7, <2>8, <2>9, <2>10 DEF Result, Good
<1>2. CASE g.flags \cap {"SYN", "ACK", "RST"} # {"SYN"}
  BY <1>2, ServedIs, HandledNothing, HandledResult DEF NutTcpStateListen
<1> QED BY <1>1, <1>2

LEMMA SynSentEstablished ==
    ASSUME NEW e \in Node, NEW s, Served(e, s), s.state = "SYN_SENT", NEW g \in Segment,
           "RST" \notin g.flags
    PROVE  Result(e, s, Then(NutTcpStateChange(NutTcpProcessAck(NutTcpProcessSyn(s, g), g),
                                               "ESTABLISHED"), "opened", {}), g)
<1> DEFINE u == NutTcpProcessSyn(s, g)
           a == NutTcpProcessAck(u, g)
           c == NutTcpStateChange(a, "ESTABLISHED")
           t == Then(c, "opened", {})
<1>0. s.rxNxt = 0 /\ s.read = <<>> /\ s.rxBuf = <<>> /\ s.rxWin = WinSize /\ s.una = 0
      /\ s.adv = <<>> /\ Typed(s) /\ s.app \in {"opening", "failed", "user", "ac"}
  <2>1. ControlOf(e, "SYN_SENT", s.app, "idle")
    BY ServedIs
  <2>2. s.app \in {"opening", "failed", "user", "ac"}
    BY <2>1 DEF ControlOf, Opening, Node
  <2> QED BY <2>2, ServedIs DEF Good, Blank, Opening
<1>1. /\ Typed(u) /\ Same(s, u, {"rxIsn", "rxNxt", "wl1", "win"})
      /\ u.rxIsn = g.seq /\ u.rxNxt = g.seq + 1 /\ u.win = g.win /\ g.seq \in Nat
  BY ProcessSynIs, ServedIs, SegmentFields
<1> HIDE DEF u
<1>2. Goes(s, u)
  <2>1. u.out = s.out /\ u.nbq = s.nbq /\ u.nxt = s.nxt /\ u.rxWin = s.rxWin
    BY <1>1 DEF Same, Names
  <2>2. s.nxt \in Nat /\ s.rxWin \in Nat
    BY <1>0, Numbers
  <2>3. Grows(s, u)
    BY <1>0, <1>1, <2>1, <2>2 DEF Grows
  <2> QED BY <1>0, <1>1, <2>1, <2>3, GoesQuietly
<1>3. /\ Goes(u, a) /\ Typed(a)
      /\ Same(u, a, {"ack", "force", "win", "wl1", "wl2", "una", "nbq"})
      /\ \/ a.una = u.una /\ a.win = u.win
         \/ a.una = g.ack /\ a.win = g.win
  BY <1>1, ProcessAckIs DEF Goes
<1> HIDE DEF a
<1>4. a.state = "SYN_SENT" /\ Follows("SYN_SENT", "ESTABLISHED")
      /\ "ESTABLISHED" \in State \ {"SYN_SENT", "SYN_RECEIVED"}
  BY <1>1, <1>3 DEF Same, Names, Follows, Served, State
<1>5. /\ Goes(a, c) /\ Same(a, c, {"state", "ack", "force", "out", "nxt", "nbq"}) /\ Typed(c)
      /\ c.state = "ESTABLISHED"
  BY <1>3, <1>4, StateChangeGoes DEF Goes
<1> HIDE DEF c
<1>6. Goes(c, t) /\ Same(c, t, {"sm"}) /\ t.sm # NIL /\ t.sm.at = "opened"
  BY <1>5, ThenIs
<1> HIDE DEF t
<1>7. Goes(s, t)
  BY <1>0, <1>1, <1>2, <1>3, <1>5, <1>6, GoesTrans
<1>8. /\ t.read = <<>> /\ t.rxBuf = <<>> /\ t.rxWin = WinSize /\ t.adv = <<>>
      /\ t.app = s.app /\ t.state = "ESTABLISHED" /\ t.rxIsn = g.seq /\ t.rxNxt = g.seq + 1
      /\ t.una = a.una /\ t.win = a.win /\ u.una = 0
  BY <1>0, <1>1, <1>3, <1>5, <1>6 DEF Same, Names
<1>9. Control(e, t)
  <2>1. ControlOf(e, "SYN_SENT", s.app, "idle")
    BY ServedIs DEF Served
  <2>2. ControlOf(e, "ESTABLISHED", s.app, "opened")
    BY <1>0, <2>1 DEF ControlOf, Opening, ClosedByUs
  <2>3. Stage(t) = "opened"
    BY <1>6 DEF Stage
  <2> QED BY <1>8, <2>2, <2>3 DEF Control
<1>10. Blank(t)
  BY <1>0, <1>8 DEF Blank, Opening
<1>11. Tidy(t)
  <2>1. Len(t.read) = 0 /\ Len(t.rxBuf) = 0 /\ DOMAIN t.read = {} /\ DOMAIN t.rxBuf = {}
    BY <1>8
  <2> QED BY <1>1, <1>8, <2>1 DEF Tidy
<1>12. Room(t)
  <2>1. WinSize \in Nat /\ Len(t.rxBuf) = 0 /\ Len(t.adv) = 0 /\ DOMAIN t.adv = {}
    BY <1>8, TcpAssumption
  <2>2. t.app # "closed" /\ ~At(t, "absorb")
    BY <1>0, <1>6, <1>8 DEF At
  <2> QED BY <1>8, <2>1, <2>2 DEF Room, Fits, Beyond
<1>13. Heard(s, t, g)
  BY <1>1, <1>3, <1>8 DEF Heard
<1>14. Handled(e, s, t, g)
  BY <1>7, <1>8, <1>9, <1>10, <1>11, <1>12, <1>13 DEF Handled, Good
<1>15. Result(e, s, t, g)
  BY <1>14, ServedIs, HandledResult
<1> QED BY <1>15 DEF t, c, a, u

LEMMA SynSentIs ==
    ASSUME NEW e \in Node, NEW s, Served(e, s), s.state = "SYN_SENT", NEW g \in Segment,
           Fitting(e, s, g)
    PROVE  Result(e, s, NutTcpStateSynSent(s, g), g)
<1> DEFINE t == NutTcpStateSynSent(s, g)
           u == Then(NutTcpStateChange(NutTcpProcessAck(NutTcpProcessSyn(s, g), g),
                                       "ESTABLISHED"), "opened", {})
<1>1. Result(e, s, s, g) /\ Result(e, s, Rejected(s, g), g)
  BY ServedIs, HandledNothing, HandledResult
<1>2. Result(e, s, NutTcpAbortSocket(s), g)
  BY ServedIs, AbortHandled, HandledResult DEF Served
<1>3. "RST" \notin g.flags => Result(e, s, u, g)
  BY SynSentEstablished
<1>4. "RST" \notin g.flags /\ "SYN" \in g.flags => "ACK" \in g.flags
  <2>1. e = Active
    BY ServedIs, OpeningBy
  <2> QED BY <2>1, TcpAssumption DEF Fitting
<1>5. \/ t = s \/ t = Rejected(s, g) \/ t = NutTcpAbortSocket(s)
      \/ "RST" \notin g.flags /\ t = u
  BY <1>4 DEF NutTcpStateSynSent
<1> HIDE DEF t, u
<1>6. Result(e, s, t, g)
  BY <1>1, <1>2, <1>3, <1>5
<1> QED BY <1>6 DEF t

\* A socket whose SYN has been acknowledged.
SynDone(e, s) ==
    /\ Typed(s) /\ Control(e, s) /\ Tidy(s) /\ Fits(s) /\ s.app # "start"
    /\ s.state \in {"SYN_RECEIVED", "FIN_WAIT_1", "CLOSED", "GONE"}
    /\ Stage(s) \in {"idle", "synacked"}
    /\ s.state = "SYN_RECEIVED" => s.adv = <<>>
    /\ s.state = "GONE" => s.nbq = <<>>

LEMMA ControlSynDone ==
    ASSUME NEW e \in Node, NEW x \in {"SYN_RECEIVED", "FIN_WAIT_1", "CLOSED", "GONE"}, NEW a,
           NEW p \in {"idle", "synacked"}, ControlOf(e, x, a, p), a # "start"
    PROVE  /\ x = "SYN_RECEIVED" => ControlOf(e, "CLOSE_WAIT", a, "closewait")
           /\ \A b \in {a, "user"} : x = "SYN_RECEIVED" /\ b # "pc" => ControlOf(e, "ESTABLISHED", b, "idle")
           /\ x # "SYN_RECEIVED" => a \notin {"pc", "ac"} /\ ControlOf(e, x, a, "idle")
           /\ x = "SYN_RECEIVED" => a \in {"user", "pc", "failed"}
<1>1. x = "SYN_RECEIVED" => a \in {"user", "pc", "failed"} /\ e = Passive /\ e # Active
  BY DEF ControlOf, Opening, Node
<1>2. x = "SYN_RECEIVED" => ControlOf(e, "CLOSE_WAIT", a, "closewait")
  BY <1>1 DEF ControlOf, Opening, ClosedByUs
<1>3. ASSUME NEW b \in {a, "user"}, x = "SYN_RECEIVED", b # "pc"
      PROVE  ControlOf(e, "ESTABLISHED", b, "idle")
  BY <1>1, <1>3 DEF ControlOf, Opening, ClosedByUs
<1>4. x # "SYN_RECEIVED" => a \notin {"pc", "ac"} /\ ControlOf(e, x, a, "idle")
  BY DEF ControlOf, Opening, ClosedByUs
<1> QED BY <1>1, <1>2, <1>3, <1>4

LEMMA SynAckedWaits ==
    ASSUME NEW e \in Node, NEW s, SynDone(e, s)
    PROVE  LET t == EnterCloseWait(s)
           IN  /\ Goes(s, t) /\ Good(e, t) /\ t.una = s.una /\ t.win = s.win
               /\ t.state = "GONE" <=> s.state = "GONE"
<1> DEFINE t == EnterCloseWait(s)
<1>0. Typed(s) /\ Tidy(s) /\ ControlOf(e, s.state, s.app, Stage(s)) /\ s.state # "CLOSE_WAIT"
      /\ s.app # "start" /\ s.state \in {"SYN_RECEIVED", "FIN_WAIT_1", "CLOSED", "GONE"}
      /\ Stage(s) \in {"idle", "synacked"}
  BY DEF SynDone, Control
<1>1. /\ Goes(s, t) /\ Same(s, t, EndFields) /\ Ends(s, t)
      /\ t.state \notin {"SYN_RECEIVED", "ESTABLISHED"}
      /\ t.state = s.state => t.nbq = s.nbq
      /\ Tidy(t)
  BY <1>0, EnterCloseWaitIs
<1> HIDE DEF t
<1>2. /\ t.una = s.una /\ t.win = s.win /\ t.app = s.app
      /\ t.rxBuf = s.rxBuf /\ t.rxWin = s.rxWin /\ t.adv = s.adv
  BY <1>1 DEF Same, Names, EndFields
<1>3. \/ Stage(t) = "idle" /\ t.state = s.state /\ s.state # "SYN_RECEIVED"
      \/ Stage(t) = "closewait" /\ t.state = "CLOSE_WAIT" /\ s.state = "SYN_RECEIVED"
  BY <1>0, <1>1 DEF Ends, Stage
<1>4. Control(e, t)
  <2>1. s.state = "SYN_RECEIVED" => ControlOf(e, "CLOSE_WAIT", s.app, "closewait")
    BY <1>0, ControlSynDone
  <2>2. s.state # "SYN_RECEIVED" => ControlOf(e, s.state, s.app, "idle")
    BY <1>0, ControlSynDone
  <2> QED BY <1>2, <1>3, <2>1, <2>2 DEF Control
<1>5. Room(t)
  BY <1>0, <1>2, <1>3 DEF SynDone, Room, Fits
<1>6. Blank(t)
  BY <1>0, <1>1, <1>2, <1>3 DEF SynDone, Blank, Opening
<1> QED BY <1>1, <1>2, <1>3, <1>4, <1>5, <1>6 DEF Good, t

LEMMA SynAckedOpens ==
    ASSUME NEW e \in Node, NEW s, SynDone(e, s)
    PROVE  LET t == Done(WakeOpen(NutTcpStateChange(s, "ESTABLISHED")))
           IN  /\ Goes(s, t) /\ Good(e, t) /\ t.una = s.una /\ t.win = s.win
               /\ t.state = "GONE" <=> s.state = "GONE"
<1> DEFINE c == NutTcpStateChange(s, "ESTABLISHED")
           w == WakeOpen(c)
           t == Done(w)
           F == {"state", "ack", "force", "out", "nxt", "nbq", "app", "sm"}
           x == s.state
<1>0. Typed(s) /\ Tidy(s) /\ ControlOf(e, s.state, s.app, Stage(s))
      /\ s.app # "start" /\ x \in {"SYN_RECEIVED", "FIN_WAIT_1", "CLOSED", "GONE"}
      /\ Stage(s) \in {"idle", "synacked"}
  BY DEF SynDone, Control
<1> HIDE DEF x
<1>1. /\ Goes(s, c) /\ Same(s, c, {"state", "ack", "force", "out", "nxt", "nbq"}) /\ Typed(c)
      /\ c.state = IF x = "SYN_RECEIVED" THEN "ESTABLISHED" ELSE x
      /\ x # "SYN_RECEIVED" => c.nbq = s.nbq
  <2>1. "ESTABLISHED" \in State \ {"SYN_SENT", "SYN_RECEIVED"}
    BY DEF State
  <2>2. Follows(s.state, "ESTABLISHED") <=> x = "SYN_RECEIVED"
    BY <1>0 DEF Follows, x
  <2> QED BY <1>0, <2>1, <2>2, StateChangeGoes DEF Goes, x
<1> HIDE DEF c
<1>2. /\ Goes(c, w) /\ Same(c, w, {"app"}) /\ Typed(w)
      /\ w.app = IF c.app \in {"pc", "ac"} THEN "user" ELSE c.app
  BY <1>1, WakeIs, WakeGoes
<1> HIDE DEF w
<1>3. Goes(w, t) /\ Same(w, t, {"sm"}) /\ t.sm = NIL
  BY <1>2, DoneIs
<1> HIDE DEF t
<1>4. Goes(s, t)
  BY <1>0, <1>1, <1>2, <1>3, GoesTrans
<1>5. Same(s, t, F) /\ c.app = s.app
  BY <1>1, <1>2, <1>3 DEF Same, Names
<1>6. /\ t.una = s.una /\ t.win = s.win /\ t.state = c.state /\ t.app = w.app
      /\ t.rxBuf = s.rxBuf /\ t.rxWin = s.rxWin /\ t.adv = s.adv
      /\ x # "SYN_RECEIVED" => t.nbq = s.nbq
  BY <1>1, <1>2, <1>3, <1>5 DEF Same, Names
<1>7. Stage(t) = "idle"
  BY <1>3 DEF Stage
<1>8. t.app = IF s.app \in {"pc", "ac"} THEN "user" ELSE s.app
  BY <1>2, <1>5, <1>6
<1>9. Control(e, t)
  <2>1. ASSUME x = "SYN_RECEIVED" PROVE ControlOf(e, "ESTABLISHED", t.app, "idle")
    <3>1. t.app \in {s.app, "user"} /\ t.app # "pc"
      BY <1>8
    <3> QED BY <1>0, <2>1, <3>1, ControlSynDone DEF x
  <2>2. ASSUME x # "SYN_RECEIVED" PROVE ControlOf(e, x, t.app, "idle")
    <3>1. s.app \notin {"pc", "ac"} /\ ControlOf(e, x, s.app, "idle")
      BY <1>0, <2>2, ControlSynDone DEF x
    <3> QED BY <1>8, <3>1
  <2> QED BY <1>1, <1>6, <1>7, <2>1, <2>2 DEF Control
<1>10. (t.app = "closed" <=> s.app = "closed") /\ t.app # "start"
  BY <1>0, <1>8
<1>11. Tidy(t)
  <2>1. F \cap StreamFields = {}
    BY DEF StreamFields
  <2>2. \/ t.state \notin {"SYN_RECEIVED", "ESTABLISHED", "CLOSE_WAIT"}
        \/ t.state = s.state
        \/ t.state \in {"SYN_RECEIVED", "ESTABLISHED"} /\ s.state \in {"SYN_RECEIVED", "ESTABLISHED"}
    BY <1>0, <1>1, <1>6 DEF x
  <2> HIDE DEF F
  <2> QED BY <1>0, <1>5, <1>10, <2>1, <2>2, TidySame
<1>12. Room(t)
  <2>1. Fits(t)
    BY <1>6, <1>10 DEF SynDone, Fits
  <2>2. t.state = "ESTABLISHED" => Beyond(t)
    <3>1. t.state = "ESTABLISHED" => t.adv = <<>>
      BY <1>0, <1>1, <1>6 DEF SynDone, x
    <3> QED BY <3>1 DEF Beyond
  <2>3. ~At(t, "absorb")
    BY <1>3 DEF At
  <2> QED BY <2>1, <2>2, <2>3 DEF Room
<1>13. Blank(t)
  BY <1>0, <1>1, <1>6, <1>10 DEF SynDone, Blank, Opening, x
<1>14. t.state = "GONE" <=> s.state = "GONE"
  BY <1>1, <1>6 DEF x
<1> QED BY <1>4, <1>6, <1>9, <1>11, <1>12, <1>13, <1>14 DEF Good, t, w, c

LEMMA SynAckedIs ==
    ASSUME NEW e \in Node, NEW s, SynDone(e, s), NEW f
    PROVE  LET t == SynAcked(s, f)
           IN  /\ Goes(s, t) /\ Good(e, t) /\ t.una = s.una /\ t.win = s.win
               /\ t.state = "GONE" <=> s.state = "GONE"
  BY SynAckedWaits, SynAckedOpens DEF SynAcked

\* What NutTcpStateSynReceived makes of the acknowledgement.
Skewed(s, g) ==
    [NutTcpProcessAck(s, g) EXCEPT
        !.skew = @ \/ ((g.data \/ Fin(g) # {}) /\ g.seq # s.rxNxt)]

LEMMA SetSkewIs ==
    ASSUME NEW s, Typed(s), NEW b \in BOOLEAN
    PROVE  LET t == [s EXCEPT !.skew = b]
           IN  Goes(s, t) /\ Same(s, t, {"skew"}) /\ t.skew = b
<1> DEFINE t == [s EXCEPT !.skew = b]
<1>1. Shaped(t) /\ Record(t)
  BY Zenon DEF Typed, Shaped, Record
<1>2. Same(s, t, {"skew"}) /\ t.skew = b
  BY DEF Typed, Shaped, Names, Same
<1> HIDE DEF t
<1>3. Fields(t) /\ Ordered(t)
  BY <1>2 DEF Same, Fields, Ordered, Names, Typed
<1>4. {"skew"} \cap {"out", "nbq", "nxt", "rxNxt", "rxWin"} = {}
  OBVIOUS
<1>5. Goes(s, t)
  BY <1>1, <1>2, <1>3, <1>4, GoesSame DEF Typed
<1> QED BY <1>2, <1>5 DEF t

LEMMA SkewedIs ==
    ASSUME NEW s, Typed(s), Tidy(s), NEW g \in Segment
    PROVE  LET t == Skewed(s, g)
           IN  /\ Goes(s, t) /\ Same(s, t, (AckFields \ {"app"}) \cup {"skew"})
               /\ \/ t.una = s.una /\ t.win = s.win
                  \/ t.una = g.ack /\ t.win = g.win
               /\ Tidy(t)
               /\ t.skew = FALSE /\ g.data = TRUE => g.seq = s.rxNxt
<1> DEFINE k == NutTcpProcessAck(s, g)
           t == Skewed(s, g)
           u(b) == [k EXCEPT !.skew = b]
<1>1. /\ Goes(s, k) /\ Same(s, k, AckFields \ {"app"}) /\ Typed(k)
      /\ \/ k.una = s.una /\ k.win = s.win
         \/ k.una = g.ack /\ k.win = g.win
  BY ProcessAckIs DEF Goes, AckFields, Same
<1> HIDE DEF k
<1>2. k.skew = s.skew /\ s.skew \in BOOLEAN
  BY <1>1 DEF Same, Names, AckFields, Typed, Fields
<1>3. \/ t = u(TRUE)
      \/ t = u(FALSE) /\ s.skew = FALSE /\ (g.data = TRUE => g.seq = s.rxNxt)
  <2>1. t = [k EXCEPT !.skew = @ \/ ((g.data \/ Fin(g) # {}) /\ g.seq # s.rxNxt)]
    BY DEF Skewed, k
  <2>2. CASE s.skew \/ ((g.data \/ Fin(g) # {}) /\ g.seq # s.rxNxt)
    <3>1. t = u(TRUE)
      BY <1>2, <2>1, <2>2
    <3> QED BY <3>1
  <2>3. CASE ~(s.skew \/ ((g.data \/ Fin(g) # {}) /\ g.seq # s.rxNxt))
    <3>1. t = u(FALSE)
      BY <1>2, <2>1, <2>3
    <3> QED BY <1>2, <2>3, <3>1
  <2> QED BY <2>2, <2>3
<1>4. /\ Goes(k, u(TRUE)) /\ Same(k, u(TRUE), {"skew"}) /\ u(TRUE).skew = TRUE
      /\ Goes(k, u(FALSE)) /\ Same(k, u(FALSE), {"skew"}) /\ u(FALSE).skew = FALSE
  <2>1. TRUE \in BOOLEAN /\ FALSE \in BOOLEAN
    OBVIOUS
  <2> QED BY <1>1, <2>1, SetSkewIs
<1> HIDE DEF t, u
<1>5. /\ Goes(k, t) /\ Same(k, t, {"skew"})
      /\ t.skew = FALSE => (s.skew = FALSE /\ (g.data = TRUE => g.seq = s.rxNxt))
  BY <1>3, <1>4
<1>6. Goes(s, t)
  BY <1>1, <1>5, GoesTrans
<1>7. Same(s, t, (AckFields \ {"app"}) \cup {"skew"}) /\ t.una = k.una /\ t.win = k.win
  BY <1>1, <1>5 DEF Same, Names, AckFields
<1>8. Tidy(t)
  <2>1. /\ t.read = s.read /\ t.rxIsn = s.rxIsn /\ t.rxBuf = s.rxBuf /\ t.rxNxt = s.rxNxt
        /\ t.app = s.app /\ t.state = s.state
    BY <1>7 DEF Same, Names, AckFields
  <2> QED BY <1>5, <2>1 DEF Tidy
<1> QED BY <1>1, <1>5, <1>6, <1>7, <1>8 DEF t

LEMMA SynReceivedStage ==
    ASSUME NEW e \in Node, NEW s, Served(e, s), s.state = "SYN_RECEIVED"
    PROVE  /\ s.rxBuf = <<>> /\ s.rxWin = WinSize /\ s.adv = <<>> /\ s.read = <<>> /\ s.una = 0
           /\ s.rxNxt = 1 /\ s.rxIsn = 0
           /\ s.app \in {"user", "pc", "failed"} /\ Fits(s)
           /\ ControlOf(e, "SYN_RECEIVED", s.app, "synacked")
<1>1. /\ s.rxBuf = <<>> /\ s.rxWin = WinSize /\ s.adv = <<>> /\ s.read = <<>> /\ s.una = 0
      /\ s.rxNxt = 1 /\ s.rxIsn = 0 /\ Fits(s)
  BY DEF Served, Good, Blank, Room, Opening
<1>2. ControlOf(e, "SYN_RECEIVED", s.app, "idle")
  BY ServedIs
<1>3. s.app \in {"user", "pc", "failed"}
  BY <1>2, ServedIs, ControlSynDone
<1>4. ControlOf(e, "SYN_RECEIVED", s.app, "synacked")
  BY <1>2, <1>3 DEF ControlOf, Opening, ClosedByUs
<1> QED BY <1>1, <1>3, <1>4

LEMMA SynReceivedSkewed ==
    ASSUME NEW e \in Node, NEW s, Served(e, s), s.state = "SYN_RECEIVED", NEW g \in Segment,
           "RST" \notin g.flags
    PROVE  LET a == Skewed(s, g)
           IN  /\ Goes(s, a) /\ Heard(s, a, g) /\ SynDone(e, a)
               /\ a.state = "SYN_RECEIVED" /\ a.sm = NIL /\ a.app = s.app
               /\ a.rxBuf = <<>> /\ a.rxWin = WinSize
               /\ a.skew = FALSE /\ g.data = TRUE => g.seq = a.rxNxt
<1> DEFINE a == Skewed(s, g)
<1>1. /\ Goes(s, a) /\ Same(s, a, (AckFields \ {"app"}) \cup {"skew"}) /\ Typed(a)
      /\ \/ a.una = s.una /\ a.win = s.win
         \/ a.una = g.ack /\ a.win = g.win
      /\ Tidy(a)
      /\ a.skew = FALSE /\ g.data = TRUE => g.seq = s.rxNxt
  BY SkewedIs, ServedIs DEF Goes
<1> HIDE DEF a
<1>2. /\ a.state = "SYN_RECEIVED" /\ a.sm = NIL /\ a.app = s.app
      /\ a.rxBuf = s.rxBuf /\ a.rxWin = s.rxWin /\ a.adv = s.adv /\ a.rxNxt = s.rxNxt
  BY <1>1 DEF Same, Names, AckFields, Served
<1>3. Fits(a)
  BY <1>2, SynReceivedStage DEF Fits
<1>4. Control(e, a)
  <2>1. ControlOf(e, "SYN_RECEIVED", s.app, "idle")
    BY ServedIs
  <2> QED BY <1>2, <2>1 DEF Control, Stage
<1>5. SynDone(e, a)
  BY <1>1, <1>2, <1>3, <1>4, ServedIs, SynReceivedStage DEF SynDone, Stage
<1>6. Heard(s, a, g)
  BY <1>1 DEF Heard
<1> QED BY <1>1, <1>2, <1>5, <1>6, SynReceivedStage DEF a

LEMMA SynReceivedTakes ==
    ASSUME NEW e \in Node, NEW a, SynDone(e, a), a.state = "SYN_RECEIVED", a.sm = NIL,
           a.rxBuf = <<>>, a.rxWin = WinSize, NEW g \in Segment,
           a.skew = FALSE => g.seq = a.rxNxt, NEW more \in BOOLEAN
    PROVE  LET t == NutTcpProcessAppData(a, g, more)
           IN  /\ Goes(a, t) /\ t.una = a.una /\ t.win = a.win
               /\ SynDone(e, t) /\ t.state = "SYN_RECEIVED" /\ t.app = a.app
<1> DEFINE t == NutTcpProcessAppData(a, g, more)
<1>0. Typed(a) /\ Tidy(a) /\ Control(e, a) /\ a.app # "start" /\ a.adv = <<>> /\ Taking(a)
  BY DEF SynDone, Taking
<1>1. /\ Goes(a, t) /\ Typed(t)
      /\ Same(a, t, {"rxBuf", "rxCnt", "rxNxt", "rxWin", "ack", "force", "out"})
      /\ t.rxBuf = a.rxBuf \o <<g.seq>> /\ t.rxNxt = a.rxNxt + 1
      /\ Len(t.rxBuf) = Len(a.rxBuf) + 1
      /\ t.rxWin = IF 1 >= a.rxWin THEN 0 ELSE a.rxWin - 1
  BY <1>0, AppDataIs DEF Goes
<1> HIDE DEF t
<1>2. Tidy(t)
  BY <1>0, <1>1, AppDataTidy
<1>3. /\ t.una = a.una /\ t.win = a.win /\ t.state = a.state /\ t.sm = a.sm
      /\ t.app = a.app /\ t.adv = a.adv
  BY <1>1 DEF Same, Names
<1>4. Fits(t)
  <2>1. WinSize \in Nat \ {0} /\ Len(a.rxBuf) = 0 /\ Len(t.adv) = 0
    BY <1>0, <1>3, TcpAssumption
  <2>2. Len(t.rxBuf) = 1 /\ t.rxWin = WinSize - 1
    BY <1>1, <2>1
  <2> QED BY <2>1, <2>2 DEF Fits
<1>5. Control(e, t)
  BY <1>0, <1>3 DEF Control, Stage
<1>6. SynDone(e, t)
  BY <1>0, <1>1, <1>2, <1>3, <1>4, <1>5 DEF SynDone, Stage
<1> QED BY <1>1, <1>3, <1>6 DEF t

LEMMA DiscardGood ==
    ASSUME NEW e \in Node, NEW s, Typed(s), Good(e, s), s.app # "start",
           s.state \notin {"SYN_RECEIVED", "ESTABLISHED", "CLOSE_WAIT"}
    PROVE  LET t == NutTcpDiscardBuffers(s)
           IN  Goes(s, t) /\ Good(e, t) /\ t.una = s.una /\ t.win = s.win /\ t.state = s.state
<1> DEFINE t == NutTcpDiscardBuffers(s)
<1>1. /\ Goes(s, t) /\ Typed(t) /\ Same(s, t, {"rxBuf", "nbq", "adv"})
      /\ t.rxBuf = <<>> /\ t.nbq = <<>> /\ t.adv = <<>>
  BY DiscardIs DEF Goes
<1> HIDE DEF t
<1>2. /\ t.una = s.una /\ t.win = s.win /\ t.state = s.state /\ t.app = s.app /\ t.sm = s.sm
      /\ t.read = s.read /\ t.rxIsn = s.rxIsn /\ t.rxNxt = s.rxNxt /\ t.rxWin = s.rxWin
      /\ t.skew = s.skew
  BY <1>1 DEF Same, Names
<1>3. Control(e, t)
  BY <1>2 DEF Good, Control, Stage
<1>4. Blank(t)
  BY <1>1, <1>2 DEF Good, Blank
<1>5. Tidy(t)
  <2>1. s.skew = FALSE => \A i \in DOMAIN s.read : s.read[i] = s.rxIsn + i
    BY DEF Good, Tidy
  <2>2. DOMAIN t.rxBuf = {}
    BY <1>1
  <2> QED BY <1>2, <2>1, <2>2 DEF Tidy
<1>6. Room(t)
  <2>1. Len(t.rxBuf) = 0 /\ Len(t.adv) = 0 /\ t.rxWin \in 0 .. WinSize /\ WinSize \in Nat
    BY <1>1, TcpAssumption DEF Typed, Fields
  <2>2. Fits(t)
    BY <2>1 DEF Fits
  <2> QED BY <1>2, <2>2 DEF Room
<1> QED BY <1>1, <1>2, <1>3, <1>4, <1>5, <1>6 DEF t, Good

\* The connection is refused: an accepting socket listens again, another one is aborted.
LEMMA SynReceivedReset ==
    ASSUME NEW e \in Node, NEW s, Served(e, s), s.state = "SYN_RECEIVED", NEW g \in Segment
    PROVE  LET k == IF s.app = "pc" THEN NutTcpStateChange(s, "LISTEN")
                    ELSE NutTcpAbortSocket(s)
           IN  Handled(e, s, NutTcpDiscardBuffers(k), g)
<1> DEFINE l == NutTcpStateChange(s, "LISTEN")
           a == NutTcpAbortSocket(s)
           Fine(k) == /\ Goes(s, k) /\ Heard(s, k, g) /\ Good(e, k) /\ k.app # "start"
                      /\ k.state \in {"LISTEN", "CLOSED"}
<1>0. /\ Typed(s) /\ Good(e, s) /\ s.sm = NIL /\ Stage(s) = "idle" /\ Tidy(s) /\ s.app # "start"
      /\ ControlOf(e, "SYN_RECEIVED", s.app, "idle")
  BY ServedIs DEF Served
<1>1. CASE s.app = "pc"
  <2>1. /\ Goes(s, l) /\ Same(s, l, {"state", "ack", "force", "out", "nxt", "nbq"})
        /\ l.state = "LISTEN"
    <3>1. Follows(s.state, "LISTEN") /\ "LISTEN" \in State \ {"SYN_SENT", "SYN_RECEIVED"}
      BY DEF Follows, State
    <3> QED BY <1>0, <3>1, StateChangeGoes
  <2> HIDE DEF l
  <2>2. /\ l.una = s.una /\ l.win = s.win /\ l.app = s.app /\ l.sm = s.sm
        /\ l.read = s.read /\ l.rxIsn = s.rxIsn /\ l.rxNxt = s.rxNxt /\ l.rxWin = s.rxWin
        /\ l.skew = s.skew /\ l.rxBuf = s.rxBuf /\ l.adv = s.adv
    BY <2>1 DEF Same, Names
  <2>3. Control(e, l)
    <3>1. ControlOf(e, "LISTEN", s.app, "idle")
      BY <1>0, <1>1 DEF ControlOf, Opening, ClosedByUs
    <3> QED BY <1>0, <2>1, <2>2, <3>1 DEF Control, Stage
  <2>4. Blank(l)
    BY <1>1, <2>1, <2>2, SynReceivedStage DEF Blank, Opening
  <2>5. Tidy(l)
    BY <1>0, <2>1, <2>2 DEF Tidy
  <2>6. Room(l)
    <3>1. Fits(l)
      BY <2>2, SynReceivedStage DEF Fits
    <3> QED BY <2>1, <3>1 DEF Room
  <2>7. Fine(l)
    BY <1>1, <2>1, <2>2, <2>3, <2>4, <2>5, <2>6 DEF Heard, Good
  <2>8. Handled(e, s, NutTcpDiscardBuffers(l), g)
    BY <1>0, <2>7, DiscardGood, GoesTrans DEF Handled, Heard, Goes
  <2> QED BY <1>1, <2>8 DEF l
<1>2. CASE s.app # "pc"
  <2>1. Handled(e, s, a, g) /\ a.state = "CLOSED" /\ Control(e, a)
    <3>1. a.state = "CLOSED"
      BY <1>0, AbortIs DEF ClosedByUs
    <3>2. Handled(e, s, a, g)
      BY <1>0, AbortHandled
    <3> QED BY <3>1, <3>2 DEF Handled, Good
  <2>2. a.app # "start"
    BY <1>0, AbortIs DEF Woken
  <2> HIDE DEF a
  <2>3. Fine(a)
    BY <2>1, <2>2 DEF Handled
  <2>4. Handled(e, s, NutTcpDiscardBuffers(a), g)
    BY <1>0, <2>3, DiscardGood, GoesTrans DEF Handled, Heard, Goes
  <2> QED BY <1>2, <2>4 DEF a
<1> QED BY <1>1, <1>2

LEMMA SynReceivedIs ==
    ASSUME NEW e \in Node, NEW s, Served(e, s), s.state = "SYN_RECEIVED", NEW g \in Segment,
           Fitting(e, s, g), NEW more \in BOOLEAN
    PROVE  Result(e, s, NutTcpStateSynReceived(s, g, more), g)
<1> DEFINE r == NutTcpStateSynReceived(s, g, more)
           a == Skewed(s, g)
           t == NutTcpProcessAppData(a, g, more)
<1>0. /\ Typed(s) /\ Good(e, s) /\ s.state # "GONE" /\ s.app # "start" /\ g.data \in BOOLEAN
      /\ Fin(g) \in SUBSET {"FIN"}
  BY ServedIs, SegmentFields, FinIs
<1>1. CASE "RST" \in g.flags
  BY <1>0, <1>1, SynReceivedReset, HandledResult DEF NutTcpStateSynReceived
<1>2. CASE "RST" \notin g.flags /\ "SYN" \in g.flags
  <2>1. r = Rejected(s, g)
    BY <1>2 DEF NutTcpStateSynReceived
  <2> QED BY <1>0, <2>1, HandledNothing, HandledResult
<1>3. CASE g.flags \cap {"RST", "SYN", "ACK"} = {}
  <2>1. r = s
    BY <1>3 DEF NutTcpStateSynReceived
  <2> QED BY <1>0, <2>1, HandledNothing, HandledResult
<1>4. CASE "RST" \notin g.flags /\ "SYN" \notin g.flags /\ "ACK" \in g.flags
  <2>1. r = IF g.ack \notin s.una + 1 .. s.nxt THEN Rejected(s, g)
            ELSE IF ~g.data THEN SynAcked(a, Fin(g))
            ELSE IF Sent(t) THEN Then(t, "synacked", Fin(g)) ELSE SynAcked(t, Fin(g))
    BY <1>4 DEF NutTcpStateSynReceived, Skewed
  <2>2. Result(e, s, Rejected(s, g), g)
    BY <1>0, HandledNothing, HandledResult
  <2>3. /\ Goes(s, a) /\ Heard(s, a, g) /\ SynDone(e, a)
        /\ a.state = "SYN_RECEIVED" /\ a.sm = NIL /\ a.app = s.app
        /\ a.rxBuf = <<>> /\ a.rxWin = WinSize
        /\ a.skew = FALSE /\ g.data = TRUE => g.seq = a.rxNxt
    <3>1. "RST" \notin g.flags
      BY <1>4
    <3> HIDE DEF r, t
    <3> QED BY <3>1, SynReceivedSkewed
  <2> HIDE DEF a, r
  <2>4. ASSUME NEW b, Goes(s, b), Heard(s, b, g), SynDone(e, b), b.state # "GONE"
        PROVE  Result(e, s, SynAcked(b, Fin(g)), g)
    <3>1. /\ Goes(b, SynAcked(b, Fin(g))) /\ Good(e, SynAcked(b, Fin(g)))
          /\ SynAcked(b, Fin(g)).una = b.una /\ SynAcked(b, Fin(g)).win = b.win
          /\ SynAcked(b, Fin(g)).state # "GONE"
      BY <2>4, SynAckedIs
    <3>2. Goes(s, SynAcked(b, Fin(g)))
      BY <1>0, <2>4, <3>1, GoesTrans
    <3>3. Heard(s, SynAcked(b, Fin(g)), g)
      BY <2>4, <3>1 DEF Heard
    <3> QED BY <1>0, <3>1, <3>2, <3>3, HandledResult DEF Handled
  <2>5. Result(e, s, SynAcked(a, Fin(g)), g)
    BY <2>3, <2>4
  <2>6. CASE g.data = TRUE
    <3>1. /\ Goes(a, t) /\ t.una = a.una /\ t.win = a.win
          /\ SynDone(e, t) /\ t.state = "SYN_RECEIVED" /\ t.app = a.app
      BY <2>3, <2>6, SynReceivedTakes
    <3> HIDE DEF t
    <3>2. Goes(s, t) /\ Heard(s, t, g)
      BY <1>0, <2>3, <3>1, GoesTrans DEF Heard
    <3>3. Result(e, s, SynAcked(t, Fin(g)), g)
      BY <2>4, <3>1, <3>2
    <3> DEFINE u == Then(t, "synacked", Fin(g))
    <3>4. /\ Goes(t, u) /\ Same(t, u, {"sm"})
          /\ u.sm # NIL /\ u.sm.at = "synacked"
      BY <1>0, <3>1, ThenIs DEF SynDone
    <3> HIDE DEF u
    <3>5. /\ u.una = t.una /\ u.win = t.win /\ u.state = t.state /\ u.app = t.app /\ u.adv = t.adv
          /\ u.rxBuf = t.rxBuf /\ u.rxWin = t.rxWin
      BY <3>4 DEF Same, Names
    <3>6. Goes(s, u) /\ Heard(s, u, g)
      BY <1>0, <3>2, <3>4, <3>5, GoesTrans DEF Heard
    <3>7. Good(e, u)
      <4>1. Control(e, u)
        BY <2>3, <3>1, <3>4, <3>5, SynReceivedStage DEF Control, Stage
      <4>2. Blank(u)
        <5>1. u.app # "start" /\ u.adv = <<>>
          BY <3>1, <3>5 DEF SynDone
        <5> QED BY <3>1, <3>4, <3>5, <5>1 DEF Blank
      <4>3. Tidy(u)
        <5>1. Tidy(t)
          BY <3>1 DEF SynDone
        <5> QED BY <3>4, <5>1 DEF Tidy, Same, Names
      <4>4. Room(u)
        <5>1. Fits(u)
          BY <3>1, <3>5 DEF SynDone, Fits
        <5> QED BY <3>1, <3>5, <5>1 DEF Room
      <4> QED BY <4>1, <4>2, <4>3, <4>4 DEF Good
    <3>8. Result(e, s, u, g)
      BY <1>0, <3>1, <3>5, <3>6, <3>7, HandledResult DEF Handled
    <3> QED BY <2>1, <2>2, <2>6, <3>3, <3>8 DEF r, u
  <2>7. CASE g.data = FALSE
    BY <2>1, <2>2, <2>5, <2>7 DEF r
  <2> QED BY <1>0, <2>6, <2>7
<1> QED BY <1>1, <1>2, <1>3, <1>4

\* NutTcpStateProcess, whatever the state.
LEMMA ProcessIs ==
    ASSUME NEW e \in Node, NEW s, Served(e, s), NEW g \in Segment, Fitting(e, s, g),
           NEW more \in BOOLEAN, NEW keep \in BOOLEAN
    PROVE  Result(e, s, NutTcpStateProcess(s, g, more, keep), g)
<1> DEFINE t == NutTcpStateProcess(s, g, more, keep)
<1>0. /\ Typed(s) /\ Good(e, s) /\ s.state # "GONE" /\ s.app # "start"
      /\ s.state \in State \ {"CLOSED", "GONE"}
  BY ServedIs DEF Served, Typed, Fields
<1>1. CASE s.state = "ESTABLISHED"
  <2>1. t = NutTcpStateEstablished(s, g, more, keep)
    BY <1>1 DEF NutTcpStateProcess
  <2>2. Ready(e, s)
    BY <1>1 DEF Served, Ready
  <2> QED BY <1>0, <2>1, <2>2, EstablishedIs, HandledResult
<1>2. CASE s.state = "LISTEN"
  <2>1. t = NutTcpStateListen(s, g)
    BY <1>2 DEF NutTcpStateProcess
  <2> QED BY <1>2, <2>1, ListenIs
<1>3. CASE s.state = "SYN_SENT"
  <2>1. t = NutTcpStateSynSent(s, g)
    BY <1>3 DEF NutTcpStateProcess
  <2> QED BY <1>3, <2>1, SynSentIs
<1>4. CASE s.state = "SYN_RECEIVED"
  <2>1. t = NutTcpStateSynReceived(s, g, more)
    BY <1>4 DEF NutTcpStateProcess
  <2> QED BY <1>4, <2>1, SynReceivedIs
<1>5. CASE s.state \in {"FIN_WAIT_1", "FIN_WAIT_2"}
  <2>1. t = NutTcpStateFinWait(s, g, more)
    BY <1>5 DEF NutTcpStateProcess
  <2> QED BY <1>5, <2>1, FinWaitIs
<1>6. CASE s.state = "CLOSE_WAIT"
  <2>1. t = NutTcpStateCloseWait(s, g)
    BY <1>6 DEF NutTcpStateProcess
  <2> QED BY <1>6, <2>1, CloseWaitIs
<1>7. CASE s.state = "CLOSING"
  <2>1. t = NutTcpStateClosing(s, g)
    BY <1>7 DEF NutTcpStateProcess
  <2> QED BY <1>7, <2>1, ClosingIs
<1>8. CASE s.state = "LAST_ACK"
  <2>1. t = NutTcpStateLastAck(s, g)
    BY <1>8 DEF NutTcpStateProcess
  <2> QED BY <1>8, <2>1, LastAckIs
<1>9. CASE s.state = "TIME_WAIT"
  <2>1. t = s
    BY <1>9 DEF NutTcpStateProcess
  <2> QED BY <1>0, <2>1, HandledNothing, HandledResult
<1> QED BY <1>0, <1>1, <1>2, <1>3, <1>4, <1>5, <1>6, <1>7, <1>8, <1>9 DEF State, ClosedByUs

-----------------------------------------------------------------------------
(* A handler goes on after its output.                                     *)

\* A handler of node e that stopped in s has come to t.
Resumed(e, s, t) ==
    /\ Goes(s, t) /\ Good(e, t) /\ t.una = s.una /\ t.win = s.win
    /\ t.state = "GONE" <=> s.state = "GONE"

\* A handler that has stopped.
Paused(e, s) == Typed(s) /\ Good(e, s) /\ s.sm # NIL

LEMMA PausedIs ==
    ASSUME NEW e \in Node, NEW s, Paused(e, s)
    PROVE  /\ Typed(s) /\ Good(e, s) /\ Control(e, s) /\ Tidy(s) /\ Fits(s)
           /\ s.sm.flags \in SUBSET {"FIN"} /\ Stage(s) = s.sm.at
           /\ s.sm.at \in {"absorb", "post", "finish", "closewait", "opened", "synacked", "finwait"}
           /\ ControlOf(e, s.state, s.app, s.sm.at)
           /\ s.app # "start"
           /\ s.app = "closed" <=> s.state \in ClosedByUs \cup {"GONE"}
           /\ s.state = "ESTABLISHED" => IF s.sm.at = "absorb" THEN Within(s) ELSE Beyond(s)
<1>1. Typed(s) /\ Good(e, s) /\ Control(e, s) /\ Tidy(s) /\ Fits(s) /\ s.sm # NIL
  BY DEF Paused, Good, Room
<1>2. s.sm \in Place
  BY <1>1 DEF Typed, Fields
<1>3. /\ s.sm.flags \in SUBSET {"FIN"} /\ Stage(s) = s.sm.at
      /\ s.sm.at \in {"absorb", "post", "finish", "closewait", "opened", "synacked", "finwait"}
  BY <1>1, <1>2 DEF Place, Stage
<1>4. ControlOf(e, s.state, s.app, s.sm.at)
  BY <1>1, <1>3 DEF Control
<1>5. /\ s.app # "start"
      /\ s.app = "closed" <=> s.state \in ClosedByUs \cup {"GONE"}
  BY <1>3, <1>4 DEF ControlOf
<1>6. s.state = "ESTABLISHED" => IF s.sm.at = "absorb" THEN Within(s) ELSE Beyond(s)
  BY <1>1 DEF Good, Room, At
<1> QED BY <1>1, <1>3, <1>4, <1>5, <1>6

\* The reader is woken in a state with a reader.
LEMMA WakeRxStill ==
    ASSUME NEW s, Typed(s)
    PROVE  LET t == WakeRx(s)
           IN  /\ Goes(s, t) /\ Typed(t) /\ Same(s, t, {"app"})
               /\ t.app = s.app \/ (s.app = "rx" /\ t.app = "rxw")
               /\ t.app = "closed" <=> s.app = "closed"
               /\ s.app = "closed" => t = s
<1>1. s.app = "closed" => WakeRx(s) = s
  BY DEF WakeRx
<1> QED BY <1>1, WakeIs, WakeGoes

LEMMA ResumedEstablished ==
    ASSUME NEW e \in Node, NEW s, Paused(e, s), s.state = "ESTABLISHED",
           s.sm.at \in {"absorb", "post", "finish"}, NEW t, Goes(s, t), NEW F,
           F \cap {"una", "win"} = {}, Same(s, t, F),
           t.app = s.app \/ (s.app = "rx" /\ t.app = "rxw"), Tidy(t), Fits(t),
           \/ t.state = "ESTABLISHED" /\ Stage(t) \in {"idle", "post"} /\ Beyond(t)
           \/ Closed(t)
    PROVE  Resumed(e, s, t)
<1>1. t.una = s.una /\ t.win = s.win
  BY DEF Same, Names
<1>2. Waking(s.app, t.app)
  BY DEF Waking
<1>3. /\ Control(e, s) /\ Stage(s) \in {"idle", "absorb", "post", "finish"}
  BY PausedIs
<1>4. /\ \/ t.state = "ESTABLISHED" /\ Stage(t) \in {"idle", "post"} /\ Beyond(t)
         \/ t.state = "CLOSE_WAIT" /\ Stage(t) = "closewait"
      /\ t.state # "GONE"
  BY DEF Closed
<1>5. Good(e, t)
  BY <1>2, <1>3, <1>4, EstablishedGood
<1> QED BY <1>1, <1>4, <1>5 DEF Resumed

LEMMA AbsorbResumed ==
    ASSUME NEW e \in Node, NEW s, Paused(e, s), s.sm.at = "absorb"
    PROVE  Resumed(e, s, Absorb(s, s.sm.flags))
<1> DEFINE t == Absorb(s, s.sm.flags)
<1>0. /\ Typed(s) /\ Good(e, s) /\ Tidy(s) /\ Fits(s) /\ s.sm.flags \in SUBSET {"FIN"}
      /\ s.app = "closed" <=> s.state \in ClosedByUs \cup {"GONE"}
      /\ s.state \in {"ESTABLISHED", "FIN_WAIT_1"}
      /\ s.state = "ESTABLISHED" => Within(s)
  BY PausedIs DEF ControlOf
<1>1. CASE s.state = "ESTABLISHED"
  <2>1. s.app # "closed"
    BY <1>0, <1>1 DEF ClosedByUs
  <2>2. /\ Goes(s, t) /\ Same(s, t, AbsorbFields)
        /\ t.app = s.app \/ (s.app = "rx" /\ t.app = "rxw")
        /\ Tidy(t) /\ Fits(t)
        /\ \/ t.state = "ESTABLISHED" /\ Stage(t) \in {"idle", "post"} /\ Beyond(t)
           \/ Closed(t)
    BY <1>0, <1>1, <2>1, EstablishedAbsorb
  <2>3. AbsorbFields \cap {"una", "win"} = {}
    BY DEF AbsorbFields, EndFields
  <2> HIDE DEF t
  <2>4. Resumed(e, s, t)
    BY <1>1, <2>2, <2>3, ResumedEstablished
  <2> QED BY <2>4 DEF t
<1>2. CASE s.state = "FIN_WAIT_1"
  <2>1. s.app = "closed"
    BY <1>0, <1>2 DEF ClosedByUs
  <2>2. /\ Goes(s, t) /\ Same(s, t, AbsorbFields)
        /\ \/ /\ t.sm # NIL /\ t.sm.at = "post"
              /\ t.state = s.state /\ t.app = s.app
           \/ /\ Ends(s, t)
              /\ t.app = IF s.app = "rx" THEN "rxw" ELSE s.app
        /\ \E k : Took(s, t, k)
    BY <1>0, <1>2, AbsorbIs
  <2> HIDE DEF t
  <2>3. /\ t.state = "FIN_WAIT_1" /\ t.app = s.app /\ Stage(t) \in {"idle", "post"}
    BY <1>2, <2>1, <2>2 DEF Ends, Stage
  <2>4. Len(t.adv) <= Len(s.adv)
    <3>1. PICK k : Took(s, t, k)
      BY <2>2
    <3>2. t.adv \in Seq(Segment) /\ s.adv \in Seq(Segment)
      BY <1>0, <2>2 DEF Goes, Typed, Fields
    <3>3. Len(t.adv) \in Nat /\ Len(s.adv) \in Nat
      BY <3>2
    <3> QED BY <3>1, <3>3 DEF Took
  <2>5. /\ t.read = s.read /\ t.rxIsn = s.rxIsn /\ t.skew = s.skew
        /\ t.una = s.una /\ t.win = s.win
    BY <2>2 DEF Same, Names, AbsorbFields, EndFields
  <2>6. Good(e, t)
    BY <1>0, <1>2, <2>2, <2>3, <2>4, <2>5, ClosingGood DEF Goes, ClosedByUs
  <2>7. Resumed(e, s, t)
    BY <1>2, <2>2, <2>3, <2>5, <2>6 DEF Resumed
  <2> QED BY <2>7 DEF t
<1> QED BY <1>0, <1>1, <1>2

\* The look at the flags, after the reader may have been woken.
LEMMA FinishResumed ==
    ASSUME NEW e \in Node, NEW s, Paused(e, s), s.sm.at \in {"post", "finish"},
           NEW u, u = s \/ u = WakeRx(s)
    PROVE  Resumed(e, s, CheckFin(u, s.sm.flags))
<1> DEFINE t == CheckFin(u, s.sm.flags)
<1>0. /\ Typed(s) /\ Good(e, s) /\ Tidy(s) /\ Fits(s) /\ s.sm.flags \in SUBSET {"FIN"}
      /\ s.app = "closed" <=> s.state \in ClosedByUs \cup {"GONE"}
      /\ s.state \in {"ESTABLISHED", "FIN_WAIT_1"}
      /\ s.state = "ESTABLISHED" => Beyond(s)
  BY PausedIs DEF ControlOf
<1>u. /\ Goes(s, u) /\ Typed(u) /\ Same(s, u, {"app"})
      /\ u.app = s.app \/ (s.app = "rx" /\ u.app = "rxw")
      /\ u.app = "closed" <=> s.app = "closed"
      /\ s.app = "closed" => u = s
  <2>1. Goes(s, s) /\ Same(s, s, {"app"})
    BY <1>0, GoesSame DEF Same
  <2> QED BY <1>0, <2>1, WakeRxStill
<1>v. u.state = s.state /\ u.una = s.una /\ u.win = s.win
  BY <1>u DEF Same, Names
<1>1. CASE s.state = "ESTABLISHED"
  <2>1. u.app # "closed" /\ u.state = "ESTABLISHED"
    BY <1>0, <1>1, <1>u, <1>v DEF ClosedByUs
  <2>2. Tidy(u)
    <3>1. {"app"} \cap StreamFields = {}
      BY DEF StreamFields
    <3> QED BY <1>0, <1>u, <1>v, <3>1, TidySame
  <2>3. Fits(u) /\ Beyond(u)
    <3>1. {"app"} \cap RoomFields = {}
      BY DEF RoomFields
    <3> QED BY <1>0, <1>1, <1>u, <3>1, RoomSame
  <2>4. /\ Goes(u, t) /\ Same(u, t, EndFields) /\ t.app = u.app
        /\ Tidy(t) /\ Fits(t)
        /\ \/ t.state = "ESTABLISHED" /\ Stage(t) = "idle" /\ Beyond(t)
           \/ Closed(t)
    BY <1>0, <1>u, <2>1, <2>2, <2>3, EstablishedFinish
  <2> HIDE DEF t
  <2>5. Goes(s, t) /\ Same(s, t, EndFields \cup {"app"})
    <3>1. Same(s, t, EndFields \cup {"app"})
      BY <1>u, <2>4 DEF Same
    <3> QED BY <1>0, <1>u, <2>4, <3>1, GoesTrans
  <2>6. (EndFields \cup {"app"}) \cap {"una", "win"} = {}
    BY DEF EndFields
  <2>7. t.app = s.app \/ (s.app = "rx" /\ t.app = "rxw")
    BY <1>u, <2>4
  <2>8. Resumed(e, s, t)
    BY <1>1, <2>4, <2>5, <2>6, <2>7, ResumedEstablished
  <2> QED BY <2>8 DEF t
<1>2. CASE s.state = "FIN_WAIT_1"
  <2>1. s.app = "closed" /\ u = s
    BY <1>0, <1>2, <1>u DEF ClosedByUs
  <2>2. Goes(s, t) /\ Same(s, t, EndFields) /\ Ends(s, t)
    BY <1>0, <1>2, <2>1, CheckFinIs
  <2> HIDE DEF t
  <2>3. t.state = "FIN_WAIT_1" /\ Stage(t) = "idle"
    BY <1>2, <2>2 DEF Ends, Stage
  <2>4. /\ t.read = s.read /\ t.rxIsn = s.rxIsn /\ t.skew = s.skew /\ t.app = s.app
        /\ t.una = s.una /\ t.win = s.win /\ t.adv = s.adv
    BY <2>2 DEF Same, Names, EndFields
  <2>5. Len(t.adv) <= Len(s.adv)
    <3>1. s.adv \in Seq(Segment)
      BY <1>0 DEF Typed, Fields
    <3>2. Len(s.adv) \in Nat
      BY <3>1
    <3> QED BY <2>4, <3>2
  <2>6. Good(e, t)
    BY <1>0, <1>2, <2>2, <2>3, <2>4, <2>5, ClosingGood DEF Goes, ClosedByUs
  <2>7. Resumed(e, s, t)
    BY <1>2, <2>2, <2>3, <2>4, <2>6 DEF Resumed
  <2> QED BY <2>7 DEF t
<1> QED BY <1>0, <1>1, <1>2

\* Everybody who waits is woken, at the end of the input.
LEMMA ControlWoken ==
    ASSUME NEW e \in Node, NEW x, NEW a, NEW b
    PROVE  /\ ControlOf(e, x, a, "closewait")
              /\ b = (IF a \in {"rx", "tx"} THEN Woken(a) ELSE IF a \in {"pc", "ac"} THEN "user" ELSE a)
              => ControlOf(e, x, b, "idle")
           /\ ControlOf(e, x, a, "opened")
              /\ b = (IF a \in {"pc", "ac"} THEN "user" ELSE a)
              => ControlOf(e, x, b, "idle")
<1>1. ASSUME ControlOf(e, x, a, "closewait"),
             b = (IF a \in {"rx", "tx"} THEN Woken(a) ELSE IF a \in {"pc", "ac"} THEN "user" ELSE a)
      PROVE  ControlOf(e, x, b, "idle")
  <2>1. a # "start" /\ x \in {"CLOSE_WAIT", "LAST_ACK", "CLOSED", "GONE"}
    BY <1>1 DEF ControlOf
  <2>2. \/ b = a /\ a \notin {"rx", "tx", "pc", "ac"}
        \/ a \in {"rx", "tx", "pc", "ac"} /\ b \in {"rxw", "txw", "user"}
    BY <1>1 DEF Woken
  <2> QED BY <1>1, <2>1, <2>2 DEF ControlOf, ClosedByUs, Opening
<1>2. ASSUME ControlOf(e, x, a, "opened"), b = (IF a \in {"pc", "ac"} THEN "user" ELSE a)
      PROVE  ControlOf(e, x, b, "idle")
  BY <1>2 DEF ControlOf, ClosedByUs, Opening
<1> QED BY <1>1, <1>2

\* Only the application and NutTcpSm go on.
LEMMA OnlyWoken ==
    ASSUME NEW e \in Node, NEW s, Paused(e, s), NEW t, Goes(s, t), Same(s, t, {"app", "sm"}),
           s.sm.at # "absorb", t.sm = NIL, ControlOf(e, s.state, t.app, "idle"),
           s.state \notin Opening, t.app # "start"
    PROVE  Resumed(e, s, t)
<1>1. Typed(s) /\ Tidy(s) /\ Fits(s) /\ Good(e, s) /\ (s.state = "ESTABLISHED" => Beyond(s))
  BY PausedIs
<1>2. /\ t.state = s.state /\ t.una = s.una /\ t.win = s.win /\ t.read = s.read
      /\ t.rxBuf = s.rxBuf /\ t.rxWin = s.rxWin /\ t.rxNxt = s.rxNxt /\ t.adv = s.adv
      /\ t.rxIsn = s.rxIsn /\ t.skew = s.skew /\ t.nbq = s.nbq
  BY DEF Same, Names
<1>3. t.app = "closed" <=> s.app = "closed"
  <2>1. s.app = "closed" <=> s.state \in ClosedByUs \cup {"GONE"}
    BY PausedIs
  <2>2. t.app = "closed" <=> s.state \in ClosedByUs \cup {"GONE"}
    BY DEF ControlOf
  <2> QED BY <2>1, <2>2
<1>4. Control(e, t)
  BY <1>2 DEF Control, Stage
<1>5. Blank(t)
  BY <1>1, <1>2 DEF Good, Blank, Opening
<1>6. Tidy(t)
  BY <1>1, <1>2, <1>3 DEF Tidy
<1>7. Room(t)
  <2>1. Fits(t)
    BY <1>1, <1>2, <1>3 DEF Fits
  <2>2. s.state = "ESTABLISHED" => Beyond(t)
    BY <1>1, <1>2 DEF Beyond, Edge
  <2> QED BY <1>2, <2>1, <2>2 DEF Room, At
<1> QED BY <1>2, <1>4, <1>5, <1>6, <1>7 DEF Resumed, Good

LEMMA CloseWaitResumed ==
    ASSUME NEW e \in Node, NEW s, Paused(e, s), s.sm.at = "closewait"
    PROVE  Resumed(e, s, Done(WakeTx(WakeOpen(WakeRx(s)))))
<1> DEFINE p == WakeRx(s)
           q == WakeOpen(p)
           r == WakeTx(q)
           t == Done(r)
<1>0. Typed(s) /\ ControlOf(e, s.state, s.app, "closewait")
  BY PausedIs
<1>1. /\ Goes(s, p) /\ Typed(p) /\ Same(s, p, {"app"})
      /\ p.app = IF s.app = "rx" THEN "rxw" ELSE s.app
  BY <1>0, WakeIs, WakeGoes
<1> HIDE DEF p
<1>2. /\ Goes(p, q) /\ Typed(q) /\ Same(p, q, {"app"})
      /\ q.app = IF p.app \in {"pc", "ac"} THEN "user" ELSE p.app
  BY <1>1, WakeIs, WakeGoes
<1> HIDE DEF q
<1>3. /\ Goes(q, r) /\ Typed(r) /\ Same(q, r, {"app"})
      /\ r.app = IF q.app = "tx" THEN "txw" ELSE q.app
  BY <1>2, WakeIs, WakeGoes
<1> HIDE DEF r
<1>4. Goes(r, t) /\ Same(r, t, {"sm"}) /\ t.sm = NIL
  BY <1>3, DoneIs
<1> HIDE DEF t
<1>5. Goes(s, t)
  BY <1>0, <1>1, <1>2, <1>3, <1>4, GoesTrans
<1>6. Same(s, t, {"app", "sm"}) /\ t.app = r.app
  BY <1>1, <1>2, <1>3, <1>4 DEF Same, Names
<1>7. t.app = IF s.app \in {"rx", "tx"} THEN Woken(s.app)
              ELSE IF s.app \in {"pc", "ac"} THEN "user" ELSE s.app
  <2> DEFINE a == s.app
  <2>1. r.app = IF a = "rx" THEN "rxw" ELSE IF a = "tx" THEN "txw"
                ELSE IF a \in {"pc", "ac"} THEN "user" ELSE a
    <3> DEFINE b == p.app
               c == q.app
               d == r.app
    <3>1. /\ b = IF a = "rx" THEN "rxw" ELSE a
          /\ c = IF b \in {"pc", "ac"} THEN "user" ELSE b
          /\ d = IF c = "tx" THEN "txw" ELSE c
      BY <1>1, <1>2, <1>3
    <3> HIDE DEF b, c, d
    <3>2. d = IF a = "rx" THEN "rxw" ELSE IF a = "tx" THEN "txw"
              ELSE IF a \in {"pc", "ac"} THEN "user" ELSE a
      BY <3>1
    <3> QED BY <3>2 DEF d
  <2>2. a = "rx" => Woken(a) = "rxw"
    BY DEF Woken
  <2>3. a = "tx" => Woken(a) = "txw"
    BY DEF Woken
  <2> QED BY <1>6, <2>1, <2>2, <2>3
<1>8. ControlOf(e, s.state, t.app, "idle") /\ s.state \notin Opening /\ t.app # "start"
  <2>1. ControlOf(e, s.state, t.app, "idle")
    BY <1>0, <1>7, ControlWoken
  <2>2. s.state \in {"CLOSE_WAIT", "LAST_ACK", "CLOSED", "GONE"} /\ s.app # "start"
    BY <1>0 DEF ControlOf
  <2>3. t.app # "start"
    BY <1>7, <2>2 DEF Woken
  <2> QED BY <2>1, <2>2, <2>3 DEF Opening
<1>9. Resumed(e, s, t)
  BY <1>4, <1>5, <1>6, <1>8, OnlyWoken
<1> QED BY <1>9 DEF t, r, q, p

LEMMA OpenedResumed ==
    ASSUME NEW e \in Node, NEW s, Paused(e, s), s.sm.at = "opened"
    PROVE  Resumed(e, s, Done(WakeOpen(s)))
<1> DEFINE q == WakeOpen(s)
           t == Done(q)
<1>0. Typed(s) /\ ControlOf(e, s.state, s.app, "opened") /\ s.app # "start"
  BY PausedIs
<1>1. /\ Goes(s, q) /\ Typed(q) /\ Same(s, q, {"app"})
      /\ q.app = IF s.app \in {"pc", "ac"} THEN "user" ELSE s.app
  BY <1>0, WakeIs, WakeGoes
<1> HIDE DEF q
<1>2. Goes(q, t) /\ Same(q, t, {"sm"}) /\ t.sm = NIL
  BY <1>1, DoneIs
<1> HIDE DEF t
<1>3. Goes(s, t)
  BY <1>0, <1>1, <1>2, GoesTrans
<1>4. Same(s, t, {"app", "sm"}) /\ t.app = q.app
  BY <1>1, <1>2 DEF Same, Names
<1>5. ControlOf(e, s.state, t.app, "idle") /\ s.state \notin Opening /\ t.app # "start"
  <2>1. ControlOf(e, s.state, t.app, "idle")
    BY <1>0, <1>1, <1>4, ControlWoken
  <2>2. s.state \in {"ESTABLISHED", "FIN_WAIT_1"}
    BY <1>0 DEF ControlOf
  <2> QED BY <1>0, <1>1, <1>4, <2>1, <2>2 DEF Opening
<1>6. Resumed(e, s, t)
  BY <1>2, <1>3, <1>4, <1>5, OnlyWoken
<1> QED BY <1>6 DEF t, q

LEMMA ContinuedIs ==
    ASSUME NEW e \in Node, NEW s, Paused(e, s)
    PROVE  Resumed(e, s, Continued(s))
<1>0. /\ Typed(s) /\ Good(e, s) /\ Control(e, s) /\ Tidy(s) /\ Fits(s)
      /\ s.sm.flags \in SUBSET {"FIN"} /\ Stage(s) = s.sm.at
      /\ s.sm.at \in {"absorb", "post", "finish", "closewait", "opened", "synacked", "finwait"}
      /\ ControlOf(e, s.state, s.app, s.sm.at) /\ s.app # "start"
      /\ s.app = "closed" <=> s.state \in ClosedByUs \cup {"GONE"}
  BY PausedIs
<1>1. CASE s.sm.at = "absorb"
  BY <1>1, AbsorbResumed DEF Continued
<1>2. CASE s.sm.at = "post"
  BY <1>2, FinishResumed DEF Continued
<1>3. CASE s.sm.at = "finish"
  BY <1>3, FinishResumed DEF Continued
<1>4. CASE s.sm.at = "closewait"
  BY <1>4, CloseWaitResumed DEF Continued
<1>5. CASE s.sm.at = "opened"
  BY <1>5, OpenedResumed DEF Continued
<1>6. CASE s.sm.at = "synacked"
  <2>1. s.state \in {"SYN_RECEIVED", "FIN_WAIT_1", "CLOSED", "GONE"}
    BY <1>0, <1>6 DEF ControlOf
  <2>2. SynDone(e, s)
    BY <1>0, <1>6, <2>1 DEF SynDone, Good, Blank, Opening
  <2>3. Continued(s) = SynAcked(s, s.sm.flags)
    BY <1>6 DEF Continued
  <2> QED BY <2>2, <2>3, SynAckedIs DEF Resumed
<1>7. CASE s.sm.at = "finwait"
  <2>1. s.state \in {"FIN_WAIT_1", "FIN_WAIT_2"}
    BY <1>0, <1>7 DEF ControlOf
  <2>2. s.app = "closed"
    BY <1>0, <2>1 DEF ClosedByUs
  <2>3. Continued(s) = FinReceived(s, s.sm.flags)
    BY <1>7, <2>2 DEF Continued, WakeRx
  <2>4. /\ Goes(s, FinReceived(s, s.sm.flags)) /\ Good(e, FinReceived(s, s.sm.flags))
        /\ FinReceived(s, s.sm.flags).una = s.una /\ FinReceived(s, s.sm.flags).win = s.win
        /\ FinReceived(s, s.sm.flags).state \in ClosedByUs
    BY <1>0, <2>1, FinReceivedIs
  <2> QED BY <2>1, <2>3, <2>4 DEF Resumed, ClosedByUs
<1> QED BY <1>0, <1>1, <1>2, <1>3, <1>4, <1>5, <1>6, <1>7

-----------------------------------------------------------------------------
(* The inductive invariant.                                                *)

LEMMA PeerIs ==
    ASSUME NEW e \in Node
    PROVE  /\ Peer(e) \in Node /\ Peer(e) # e /\ Peer(Peer(e)) = e
           /\ \A p \in Node : p = e \/ p = Peer(e)
           /\ e = Active <=> e # Passive
  BY TcpAssumption DEF Node, Peer

\* Segment o of node p is on its way, may be sent again, or waits in the backlog.
Theirs(p, o) ==
    \/ o \in net[Peer(p)]
    \/ Member(sock[p].nbq, o)
    \/ p = Active /\ backlog # NIL /\ o = backlog

\* Node p sends such segments.
Sound(p, o) ==
    /\ o \in Segment
    /\ o.data = TRUE => o.flags = {"ACK"}
    /\ "RST" \notin o.flags /\ "SYN" \in o.flags
       => IF p = Active THEN o.seq = 0 ELSE "ACK" \in o.flags

\* Segment o acknowledges and offers no more than socket s does.
Offers(s, o) == "RST" \notin o.flags => o.ack <= s.rxNxt /\ o.ack + o.win <= Edge(s)

\* Socket s knows no more than socket p has acknowledged and offered.
Knows(s, p) == s.una <= p.rxNxt /\ s.una + s.win <= Edge(p)

\* What holds of the socket of node e between two steps.
Rests(e, s) ==
    /\ Typed(s) /\ s.out = <<>> /\ Good(e, s)
    /\ s.app = "closed" => s.rxBuf = <<>>

\* Node p, whose socket has not been destroyed, and what is around for it or of it.
Agree(p) ==
    sock[p].state # "GONE" =>
       /\ \A o : Theirs(p, o) => Offers(sock[p], o)
       /\ Knows(sock[Peer(p)], sock[p])
       /\ \A o : Theirs(Peer(p), o) => (o.data = TRUE => o.seq < Edge(sock[p]))

BacklogOK == backlog = NIL \/ (backlog \in Segment /\ backlog.flags = {"SYN"})

TcpInv ==
    /\ sock \in [Node -> Socket] /\ net \in [Node -> SUBSET Segment] /\ BacklogOK
    /\ \A e \in Node : Rests(e, sock[e])
    /\ \A p \in Node : \A o : Theirs(p, o) => Sound(p, o)
    /\ \A p \in Node : Agree(p)

\* A segment node e sends for the first time when its socket becomes t.
Fresh(e, t, o) ==
    /\ Sound(e, o)
    /\ t.state # "GONE" => Offers(t, o)
    /\ o.data = TRUE => sock[Peer(e)].state = "GONE" \/ o.seq < Edge(sock[Peer(e)])

Quiet(t) == [t EXCEPT !.out = <<>>]

\* The socket of node e may become t.
Allowed(e, t) ==
    /\ Typed(t) /\ Good(e, Quiet(t))
    /\ t.state # "GONE" => Grows(sock[e], t)
    /\ sock[e].state = "GONE" => t.state = "GONE"
    /\ \A o : Member(t.out, o) \/ Member(t.nbq, o) => Theirs(e, o) \/ Fresh(e, t, o)
    /\ sock[Peer(e)].state # "GONE" => Knows(t, sock[Peer(e)])
    /\ sock[e].sm # NIL /\ sock[e].state \notin {"CLOSED", "GONE"} => t.state # "GONE"

BacklogStep ==
    \/ backlog' = backlog
    \/ backlog' = NIL
    \/ backlog' \in net[Passive] /\ backlog'.flags = {"SYN"}

LEMMA QuietIs ==
    ASSUME NEW t, Typed(t)
    PROVE  Typed(Quiet(t)) /\ Same(t, Quiet(t), {"out"}) /\ Quiet(t).out = <<>>
<1> DEFINE u == Quiet(t)
<1>1. Shaped(u) /\ Record(u)
  BY Zenon DEF Typed, Shaped, Record, Quiet
<1>2. Same(t, u, {"out"}) /\ u.out = <<>>
  BY DEF Typed, Shaped, Names, Same, Quiet
<1> HIDE DEF u
<1>3. Fields(u) /\ Ordered(u)
  <2>1. u.out \in Seq(Segment)
    BY <1>2
  <2> QED BY <1>2, <2>1 DEF Same, Fields, Ordered, Names, Typed
<1>4. Typed(u)
  BY <1>1, <1>3 DEF Typed
<1> QED BY <1>2, <1>4 DEF u

ForgetFields == {"win", "wl1", "wl2", "rxBuf", "rxCnt"}

LEMMA ForgetIs ==
    ASSUME NEW s, Typed(s)
    PROVE  LET t == Forget(s)
           IN  /\ Typed(t) /\ Same(s, t, ForgetFields) /\ t.win \in {0, s.win}
               /\ s.app = "closed" => t.rxBuf = <<>>
               /\ s.app # "closed" => t = s
<1> DEFINE t == [s EXCEPT !.win = 0, !.wl1 = 0, !.wl2 = 0, !.rxBuf = <<>>, !.rxCnt = 0]
<1>1. Shaped(t) /\ Record(t)
  BY Zenon DEF Typed, Shaped, Record
<1>2. /\ Same(s, t, ForgetFields)
      /\ t.win = 0 /\ t.wl1 = 0 /\ t.wl2 = 0 /\ t.rxBuf = <<>> /\ t.rxCnt = 0
  BY DEF Typed, Shaped, Names, Same, ForgetFields
<1> HIDE DEF t
<1>3. Fields(t) /\ Ordered(t)
  <2>1. /\ t.win \in 0 .. WinSize /\ t.rxBuf \in Seq(Nat)
        /\ t.wl1 \in Nat /\ t.wl2 \in Nat /\ t.rxCnt \in Nat
    BY <1>2, TcpAssumption
  <2>2. /\ \A x \in {"state", "app", "sm", "una", "nxt", "ack", "force", "nbq", "adv", "out",
                     "rxIsn", "rxNxt", "rxWin", "read", "skew"} : t[x] = s[x]
    BY <1>2 DEF Same, Names, ForgetFields
  <2>3. /\ t.state = s.state /\ t.app = s.app /\ t.sm = s.sm /\ t.una = s.una /\ t.nxt = s.nxt
        /\ t.ack = s.ack /\ t.force = s.force /\ t.nbq = s.nbq /\ t.adv = s.adv
        /\ t.out = s.out /\ t.rxIsn = s.rxIsn /\ t.rxNxt = s.rxNxt /\ t.rxWin = s.rxWin
        /\ t.read = s.read /\ t.skew = s.skew
    BY <2>2
  <2>4. Fields(t)
    BY <2>1, <2>3 DEF Fields, Typed
  <2>5. Ordered(t)
    BY <2>3 DEF Ordered, Typed
  <2> QED BY <2>4, <2>5
<1>4. Typed(t)
  BY <1>1, <1>3 DEF Typed
<1>5. Same(s, s, ForgetFields)
  BY DEF Same
<1>6. CASE s.app = "closed"
  <2>1. Forget(s) = t
    BY <1>6 DEF Forget, t
  <2> QED BY <1>2, <1>4, <1>6, <2>1
<1>7. CASE s.app # "closed"
  <2>1. Forget(s) = s
    BY <1>7 DEF Forget
  <2> QED BY <1>5, <1>7, <2>1
<1> QED BY <1>6, <1>7

\* What the step keeps of socket t rests.
LEMMA ForgetRests ==
    ASSUME NEW e \in Node, NEW t, Typed(t), Good(e, Quiet(t))
    PROVE  LET u == Forget(Quiet(t))
           IN  /\ Rests(e, u) /\ Same(t, u, {"out"} \cup ForgetFields) /\ u.win \in {0, t.win}
<1> DEFINE q == Quiet(t)
           u == Forget(q)
<1>1. Typed(q) /\ Same(t, q, {"out"}) /\ q.out = <<>> /\ Good(e, q)
  BY QuietIs
<1> HIDE DEF q
<1>2. /\ Typed(u) /\ Same(q, u, ForgetFields) /\ u.win \in {0, q.win}
      /\ q.app = "closed" => u.rxBuf = <<>>
      /\ q.app # "closed" => u = q
  BY <1>1, ForgetIs
<1> HIDE DEF u
<1>3. /\ u.state = q.state /\ u.app = q.app /\ u.sm = q.sm /\ u.read = q.read /\ u.una = q.una
      /\ u.adv = q.adv /\ u.rxNxt = q.rxNxt /\ u.rxWin = q.rxWin /\ u.rxIsn = q.rxIsn
      /\ u.skew = q.skew /\ u.nbq = q.nbq /\ u.out = q.out
  BY <1>2 DEF Same, Names, ForgetFields
<1>4. Good(e, u)
  <2>1. CASE q.app # "closed"
    BY <1>1, <1>2, <2>1
  <2>2. CASE q.app = "closed"
    <3>1. q.state \in ClosedByUs \cup {"GONE"}
      BY <1>1, <2>2 DEF Good, Control, ControlOf
    <3>2. Control(e, u)
      BY <1>1, <1>3 DEF Good, Control, Stage
    <3>3. Blank(u)
      BY <1>1, <1>3, <2>2, <3>1 DEF Good, Blank, ClosedByUs, Opening
    <3>4. Tidy(u)
      <4>1. Tidy(q)
        BY <1>1 DEF Good
      <4> QED BY <1>3, <2>2, <3>1, <4>1 DEF Tidy, ClosedByUs
    <3>5. Room(u)
      BY <1>1, <1>3, <2>2, <3>1 DEF Good, Room, Fits, ClosedByUs
    <3> QED BY <3>2, <3>3, <3>4, <3>5 DEF Good
  <2> QED BY <2>1, <2>2
<1>5. Rests(e, u)
  BY <1>1, <1>2, <1>3, <1>4 DEF Rests
<1>6. Same(t, u, {"out"} \cup ForgetFields) /\ q.win = t.win
  BY <1>1, <1>2 DEF Same, Names, ForgetFields
<1> QED BY <1>2, <1>5, <1>6 DEF u, q

\* A step keeps the invariant if the socket may become what it becomes.
LEMMA StepKeeps ==
    ASSUME TcpInv, NEW e \in Node, NEW t, NEW gone, Allowed(e, t), Step(e, t, gone), BacklogStep
    PROVE  TcpInv'
<1> DEFINE q == Peer(e)
           s == sock[e]
           u == Forget(Quiet(t))
<1>0. /\ sock \in [Node -> Socket] /\ net \in [Node -> SUBSET Segment] /\ BacklogOK
      /\ q \in Node /\ q # e /\ Peer(q) = e /\ Typed(t)
  BY PeerIs DEF TcpInv, Allowed
<1>1. sock' = [sock EXCEPT ![e] = u] /\ sock'[e] = u /\ sock'[q] = sock[q]
  BY <1>0 DEF Step, Quiet
<1>2. /\ Rests(e, u) /\ Same(t, u, {"out"} \cup ForgetFields) /\ u.win \in {0, t.win}
  BY ForgetRests DEF Allowed
<1> HIDE DEF u
<1>u. /\ u.state = t.state /\ u.una = t.una /\ u.nbq = t.nbq /\ u.rxNxt = t.rxNxt
      /\ u.rxWin = t.rxWin /\ u.nxt = t.nxt /\ Typed(u)
  BY <1>2 DEF Same, Names, ForgetFields, Rests
<1>3. /\ net'[e] \subseteq net[e] /\ net'[q] \subseteq net[q] \cup ToSet(t.out)
      /\ net' \in [Node -> SUBSET Segment]
  <2>1. PICK n \in Travel(net[q], q, t.out) :
               net' = [net EXCEPT ![q] = n, ![e] = @ \ gone]
    BY DEF Step
  <2>2. n \subseteq net[q] \cup ToSet(t.out)
    BY DEF Travel
  <2>3. ToSet(t.out) \subseteq Segment
    <3>1. t.out \in Seq(Segment)
      BY <1>0 DEF Typed, Fields
    <3> QED BY <3>1 DEF ToSet
  <2>4. net[q] \subseteq Segment /\ net[e] \subseteq Segment
    BY <1>0
  <2>5. net'[e] = net[e] \ gone /\ net'[q] = n
    BY <1>0, <2>1
  <2>6. n \in SUBSET Segment /\ (net[e] \ gone) \in SUBSET Segment
    BY <2>2, <2>3, <2>4
  <2>7. net' \in [Node -> SUBSET Segment]
    BY <1>0, <2>1, <2>6
  <2> QED BY <2>2, <2>5, <2>7
<1>4. ASSUME NEW o, Theirs(e, o)' PROVE Theirs(e, o) \/ Fresh(e, t, o)
  <2>1. CASE o \in net'[q]
    <3>1. o \in net[q] \/ o \in ToSet(t.out)
      BY <1>3, <2>1
    <3>2. o \in ToSet(t.out) => Member(t.out, o)
      <4>1. t.out \in Seq(Segment)
        BY <1>0 DEF Typed, Fields
      <4> QED BY <4>1 DEF ToSet, Member
    <3> QED BY <3>1, <3>2 DEF Theirs, Allowed
  <2>2. CASE Member(sock'[e].nbq, o)
    BY <1>1, <1>u, <2>2 DEF Allowed
  <2>3. CASE e = Active /\ backlog' # NIL /\ o = backlog'
    <3>1. Peer(Active) = Passive
      BY DEF Peer
    <3> QED BY <2>3, <3>1 DEF Theirs, BacklogStep
  <2> QED BY <1>4, <2>1, <2>2, <2>3 DEF Theirs
<1>5. ASSUME NEW o, Theirs(q, o)' PROVE Theirs(q, o)
  <2>1. CASE o \in net'[Peer(q)]
    BY <1>0, <1>3, <2>1 DEF Theirs
  <2>2. CASE Member(sock'[q].nbq, o)
    BY <1>1, <2>2 DEF Theirs
  <2>3. CASE q = Active /\ backlog' # NIL /\ o = backlog'
    <3>1. Peer(Active) = Passive
      BY DEF Peer
    <3> QED BY <2>3, <3>1 DEF Theirs, BacklogStep
  <2> QED BY <1>5, <2>1, <2>2, <2>3 DEF Theirs
<1>6. sock' \in [Node -> Socket]
  <2>1. u \in Socket
    BY <1>u, TypedSocket
  <2> QED BY <1>0, <1>1, <2>1
<1>7. BacklogOK'
  <2>1. net[Passive] \subseteq Segment
    BY <1>0 DEF Node
  <2> QED BY <1>0, <2>1 DEF BacklogStep, BacklogOK
<1>8. \A p \in Node : Rests(p, sock'[p])
  BY <1>0, <1>1, <1>2, PeerIs DEF TcpInv
<1>9. \A p \in Node : \A o : Theirs(p, o)' => Sound(p, o)
  <2>1. \A o : Theirs(e, o)' => Sound(e, o)
    BY <1>4 DEF TcpInv, Fresh
  <2>2. \A o : Theirs(q, o)' => Sound(q, o)
    BY <1>0, <1>5 DEF TcpInv
  <2> QED BY <2>1, <2>2, PeerIs
<1>10. Agree(e)'
  <2> SUFFICES ASSUME u.state # "GONE"
               PROVE  /\ \A o : Theirs(e, o)' => Offers(u, o)
                      /\ Knows(sock[q], u)
                      /\ \A o : Theirs(q, o)' => (o.data = TRUE => o.seq < Edge(u))
    BY <1>1, Zenon DEF Agree
  <2>1. s.state # "GONE" /\ t.state # "GONE" /\ Typed(s) /\ Typed(sock[q])
    BY <1>0, <1>u DEF Allowed, TcpInv, Rests
  <2>2. Grows(s, t)
    BY <2>1 DEF Allowed
  <2>3. /\ s.rxNxt \in Nat /\ s.rxWin \in Nat /\ t.rxNxt \in Nat /\ t.rxWin \in Nat
        /\ s.rxNxt <= t.rxNxt /\ s.rxNxt + s.rxWin <= t.rxNxt + t.rxWin
    BY <1>0, <2>1, <2>2, Numbers DEF Grows
  <2>4. /\ \A o : Theirs(e, o) => Offers(s, o)
        /\ Knows(sock[q], s)
        /\ \A o : Theirs(q, o) => (o.data = TRUE => o.seq < Edge(s))
    BY <2>1 DEF TcpInv, Agree
  <2>5. \A o : Theirs(e, o)' => Offers(u, o)
    <3> SUFFICES ASSUME NEW o, Theirs(e, o)' PROVE Offers(u, o)
      OBVIOUS
    <3>1. CASE Fresh(e, t, o)
      BY <1>u, <2>1, <3>1 DEF Fresh, Offers, Edge
    <3>2. CASE Theirs(e, o)
      <4>1. o \in Segment /\ Offers(s, o)
        BY <2>4, <3>2 DEF TcpInv, Sound
      <4>2. o.ack \in Nat /\ o.win \in Nat
        BY <4>1, TcpAssumption DEF Segment
      <4> QED BY <1>u, <2>3, <4>1, <4>2 DEF Offers, Edge
    <3> QED BY <1>4, <3>1, <3>2
  <2>6. Knows(sock[q], u)
    <3>1. sock[q].una \in Nat /\ sock[q].win \in Nat
      BY <2>1, Numbers
    <3> QED BY <1>u, <2>3, <2>4, <3>1 DEF Knows, Edge
  <2>7. \A o : Theirs(q, o)' => (o.data = TRUE => o.seq < Edge(u))
    <3> SUFFICES ASSUME NEW o, Theirs(q, o)', o.data = TRUE PROVE o.seq < Edge(u)
      OBVIOUS
    <3>1. Theirs(q, o) /\ o.seq < Edge(s)
      BY <1>5, <2>4
    <3>2. o \in Segment
      BY <1>0, <3>1 DEF TcpInv, Sound
    <3>3. o.seq \in Nat
      BY <3>2, SegmentFields
    <3> QED BY <1>u, <2>3, <3>1, <3>3 DEF Edge
  <2> QED BY <2>5, <2>6, <2>7
<1>11. Agree(q)'
  <2> SUFFICES ASSUME sock[q].state # "GONE"
               PROVE  /\ \A o : Theirs(q, o)' => Offers(sock[q], o)
                      /\ Knows(u, sock[q])
                      /\ \A o : Theirs(e, o)' => (o.data = TRUE => o.seq < Edge(sock[q]))
    BY <1>0, <1>1, Zenon DEF Agree
  <2>1. /\ \A o : Theirs(q, o) => Offers(sock[q], o)
        /\ \A o : Theirs(e, o) => (o.data = TRUE => o.seq < Edge(sock[q]))
    BY <1>0 DEF TcpInv, Agree
  <2>2. \A o : Theirs(q, o)' => Offers(sock[q], o)
    BY <1>5, <2>1
  <2>3. Knows(u, sock[q])
    <3>1. Knows(t, sock[q]) /\ Typed(sock[q])
      BY <1>0 DEF Allowed, TcpInv, Rests
    <3>2. /\ t.una \in Nat /\ t.win \in Nat /\ sock[q].rxNxt \in Nat /\ sock[q].rxWin \in Nat
      BY <1>0, <3>1, Numbers
    <3> QED BY <1>2, <1>u, <3>1, <3>2 DEF Knows, Edge
  <2>4. \A o : Theirs(e, o)' => (o.data = TRUE => o.seq < Edge(sock[q]))
    BY <1>4, <2>1 DEF Fresh
  <2> QED BY <2>2, <2>3, <2>4
<1>12. \A p \in Node : Agree(p)'
  BY <1>10, <1>11, PeerIs
<1> QED BY <1>3, <1>6, <1>7, <1>8, <1>9, <1>12 DEF TcpInv

-----------------------------------------------------------------------------
(* What the steps make of a socket is allowed.                             *)

LEMMA RestsIs ==
    ASSUME TcpInv, NEW e \in Node
    PROVE  /\ Typed(sock[e]) /\ sock[e].out = <<>> /\ Good(e, sock[e]) /\ Quiet(sock[e]) = sock[e]
           /\ Control(e, sock[e]) /\ Blank(sock[e]) /\ Tidy(sock[e]) /\ Room(sock[e])
           /\ ControlOf(e, sock[e].state, sock[e].app, Stage(sock[e]))
<1>1. Typed(sock[e]) /\ sock[e].out = <<>> /\ Good(e, sock[e])
  BY DEF TcpInv, Rests
<1>2. Quiet(sock[e]) = sock[e]
  BY <1>1 DEF Quiet, Typed, Record, Shaped
<1> QED BY <1>1, <1>2 DEF Good, Control

LEMMA GoodQuiet ==
    ASSUME NEW e \in Node, NEW t, Typed(t), Good(e, t)
    PROVE  Good(e, Quiet(t))
<1> DEFINE u == Quiet(t)
<1>1. Same(t, u, {"out"})
  BY QuietIs
<1>2. t.app = "start" => u = NewSocket
  <2>1. t.app = "start" => t = NewSocket
    BY DEF Good, Blank
  <2>2. Quiet(NewSocket) = NewSocket
    <3>1. NewSocket.out = <<>>
      BY DEF NewSocket
    <3> QED BY <3>1, NewSocketTyped DEF Quiet, Typed, Record, Shaped
  <2> QED BY <2>1, <2>2
<1> HIDE DEF u
<1>3. /\ u.state = t.state /\ u.app = t.app /\ u.sm = t.sm /\ u.read = t.read /\ u.una = t.una
      /\ u.adv = t.adv /\ u.rxNxt = t.rxNxt /\ u.rxWin = t.rxWin /\ u.rxIsn = t.rxIsn
      /\ u.skew = t.skew /\ u.nbq = t.nbq /\ u.rxBuf = t.rxBuf
  BY <1>1 DEF Same, Names
<1>4. Control(e, u)
  BY <1>3 DEF Good, Control, Stage
<1>5. Blank(u)
  BY <1>2, <1>3 DEF Good, Blank
<1>6. Tidy(u)
  BY <1>3 DEF Good, Tidy
<1>7. Room(u)
  BY <1>3 DEF Good, Room, Fits, Within, Beyond, Edge, At
<1> QED BY <1>4, <1>5, <1>6, <1>7 DEF Good, u

LEMMA FreshIs ==
    ASSUME NEW e \in Node, NEW t, NEW o, New(t, o) \/ NewSyn(e, t, o)
    PROVE  Fresh(e, t, o)
<1>1. CASE New(t, o)
  BY <1>1 DEF New, Fresh, Sound, Offers, Edge
<1>2. CASE NewSyn(e, t, o)
  BY <1>2 DEF NewSyn, Fresh, Sound, Offers, Edge
<1> QED BY <1>1, <1>2

LEMMA AllowedIf ==
    ASSUME TcpInv, NEW e \in Node, NEW t, Moves(e, sock[e], t), Good(e, Quiet(t)),
           sock[Peer(e)].state # "GONE" => Knows(t, sock[Peer(e)]),
           sock[e].sm # NIL /\ sock[e].state \notin {"CLOSED", "GONE"} => t.state # "GONE"
    PROVE  Allowed(e, t)
<1>1. ASSUME NEW o, Member(t.out, o) \/ Member(t.nbq, o)
      PROVE  Theirs(e, o) \/ Fresh(e, t, o)
  <2>1. Member(sock[e].out, o) \/ Member(sock[e].nbq, o) \/ New(t, o) \/ NewSyn(e, t, o)
    BY <1>1 DEF Moves, IssuesSyn
  <2>2. ~Member(sock[e].out, o)
    BY RestsIs DEF Member
  <2> QED BY <2>1, <2>2, FreshIs DEF Theirs
<1> QED BY <1>1, Zenon DEF Allowed, Moves

\* The peer is known as before, or not at all.
LEMMA KnowsStill ==
    ASSUME TcpInv, NEW e \in Node, NEW t, Typed(t),
           \/ t.una = sock[e].una /\ t.win = sock[e].win
           \/ t.una = 0 /\ t.win = 0,
           sock[Peer(e)].state # "GONE"
    PROVE  Knows(t, sock[Peer(e)])
<1> DEFINE p == sock[Peer(e)]
<1>1. Knows(sock[e], p) /\ Typed(p)
  <2>1. Agree(Peer(e)) /\ Peer(Peer(e)) = e
    BY PeerIs DEF TcpInv
  <2> QED BY <2>1, RestsIs, PeerIs DEF Agree
<1> HIDE DEF p
<1>2. p.rxNxt \in Nat /\ p.rxWin \in Nat
  BY <1>1, Numbers
<1>3. CASE t.una = sock[e].una /\ t.win = sock[e].win
  BY <1>1, <1>3 DEF Knows, p
<1>4. CASE t.una = 0 /\ t.win = 0
  <2>1. 0 <= p.rxNxt /\ 0 <= p.rxNxt + p.rxWin
    BY <1>2
  <2> QED BY <1>4, <2>1 DEF Knows, Edge, p
<1> QED BY <1>3, <1>4 DEF p

\* A segment of the peer tells no more than there is.
LEMMA KnowsHeard ==
    ASSUME TcpInv, NEW e \in Node, NEW t, Typed(t), NEW g, Theirs(Peer(e), g),
           Heard(sock[e], t, g), sock[Peer(e)].state # "GONE"
    PROVE  Knows(t, sock[Peer(e)])
<1> DEFINE p == sock[Peer(e)]
<1>1. Offers(p, g) /\ Typed(p) /\ g \in Segment
  BY PeerIs, RestsIs DEF TcpInv, Agree, Sound
<1>2. CASE "RST" \notin g.flags /\ t.una \in {0, g.ack} /\ t.win \in {0, g.win}
  <2>1. g.ack \in Nat /\ g.win \in Nat /\ p.rxNxt \in Nat /\ p.rxWin \in Nat
    BY <1>1, Numbers, TcpAssumption DEF Segment
  <2>2. g.ack <= p.rxNxt /\ g.ack + g.win <= Edge(p)
    BY <1>1, <1>2 DEF Offers
  <2> HIDE DEF p
  <2>3. t.una <= p.rxNxt /\ t.una + t.win <= Edge(p)
    <3> DEFINE a == g.ack
               w == g.win
               x == t.una
               y == t.win
               r == p.rxNxt
               z == p.rxWin
    <3>1. /\ a \in Nat /\ w \in Nat /\ r \in Nat /\ z \in Nat /\ x \in {0, a} /\ y \in {0, w}
          /\ a <= r /\ a + w <= r + z
      BY <1>2, <2>1, <2>2 DEF Edge
    <3> HIDE DEF a, w, x, y, r, z
    <3>2. x <= r /\ x + y <= r + z
      BY <3>1
    <3> QED BY <3>2 DEF x, y, r, z, Edge
  <2> QED BY <2>3 DEF Knows, p
<1>3. CASE \/ t.una = sock[e].una /\ t.win = sock[e].win
           \/ t.una = 0 /\ t.win = 0
  BY <1>3, KnowsStill
<1> QED BY <1>2, <1>3 DEF Heard

LEMMA GoesAllowed ==
    ASSUME TcpInv, NEW e \in Node, NEW t, Goes(sock[e], t), Good(e, Quiet(t)),
           t.una = sock[e].una, t.win = sock[e].win,
           t.state = "GONE" <=> sock[e].state = "GONE"
    PROVE  Allowed(e, t)
<1>1. Moves(e, sock[e], t)
  BY DEF Goes, Moves, Issues, IssuesSyn
<1>2. sock[Peer(e)].state # "GONE" => Knows(t, sock[Peer(e)])
  BY KnowsStill DEF Goes
<1> QED BY <1>1, <1>2, AllowedIf

LEMMA HandledAllowed ==
    ASSUME TcpInv, NEW e \in Node, NEW t, NEW g, Handled(e, sock[e], t, g),
           sock[e].state # "GONE", Theirs(Peer(e), g)
    PROVE  Allowed(e, t)
<1>1. Moves(e, sock[e], t) /\ Good(e, t) /\ Heard(sock[e], t, g) /\ t.state # "GONE" /\ Typed(t)
  BY HandledResult DEF Result, Handled, Goes
<1>2. Good(e, Quiet(t))
  BY <1>1, GoodQuiet
<1>3. sock[Peer(e)].state # "GONE" => Knows(t, sock[Peer(e)])
  BY <1>1, KnowsHeard
<1> QED BY <1>1, <1>2, <1>3, AllowedIf

LEMMA ResultAllowed ==
    ASSUME TcpInv, NEW e \in Node, NEW t, NEW g, Result(e, sock[e], t, g),
           sock[e].sm = NIL, Theirs(Peer(e), g)
    PROVE  Allowed(e, t)
<1>1. Moves(e, sock[e], t) /\ Good(e, t) /\ Heard(sock[e], t, g) /\ Typed(t)
  BY DEF Result, Moves
<1>2. Good(e, Quiet(t))
  BY <1>1, GoodQuiet
<1>3. sock[Peer(e)].state # "GONE" => Knows(t, sock[Peer(e)])
  BY <1>1, KnowsHeard
<1> QED BY <1>1, <1>2, <1>3, AllowedIf

-----------------------------------------------------------------------------
(* The steps of NutTcpSm.                                                  *)

Progress == BacklogStep /\ \E e \in Node : \E t, gone : Step(e, t, gone) /\ Allowed(e, t)

LEMMA TheirsIs ==
    ASSUME TcpInv, NEW e \in Node, NEW g \in net[e]
    PROVE  g \in Segment /\ Theirs(Peer(e), g)
  BY PeerIs DEF TcpInv, Theirs

LEMMA FittingIs ==
    ASSUME TcpInv, NEW e \in Node, NEW g, Theirs(Peer(e), g), sock[e].state # "GONE"
    PROVE  Fitting(e, sock[e], g)
<1>1. Sound(Peer(e), g)
  BY PeerIs DEF TcpInv
<1>2. g.data = TRUE => g.seq < Edge(sock[e])
  BY DEF TcpInv, Agree
<1>3. Peer(e) = Active <=> e = Passive
  BY TcpAssumption DEF Peer, Node
<1> QED BY <1>1, <1>2, <1>3 DEF Fitting, Sound

LEMMA ReceiveProgress ==
    ASSUME TcpInv, NEW e \in Node, NEW g \in net[e], Receive(e, g)
    PROVE  Progress
<1>1. g \in Segment /\ Theirs(Peer(e), g)
  BY TheirsIs
<1>2. Served(e, sock[e]) /\ sock[e].sm = NIL
  BY RestsIs DEF Receive, Found, Served
<1>3. Fitting(e, sock[e], g)
  BY <1>1, <1>2, FittingIs DEF Served
<1>4. PICK more \in BOOLEAN, keep \in BOOLEAN :
               Step(e, NutTcpStateProcess(sock[e], g, more, keep), {g})
  BY DEF Receive
<1>5. Allowed(e, NutTcpStateProcess(sock[e], g, more, keep))
  BY <1>1, <1>2, <1>3, ProcessIs, ResultAllowed
<1>6. BacklogStep
  BY DEF Receive, BacklogStep
<1> QED BY <1>4, <1>5, <1>6 DEF Progress

LEMMA QuietOut ==
    ASSUME NEW s, NEW q
    PROVE  Quiet([s EXCEPT !.out = q]) = Quiet(s)
  BY DEF Quiet

\* A socket that stays as it is, apart from what is sent.
LEMMA StillAllowed ==
    ASSUME TcpInv, NEW e \in Node, NEW g
    PROVE  /\ Allowed(e, sock[e])
           /\ g \in Segment => Allowed(e, Rejected(sock[e], g))
<1> DEFINE s == sock[e]
<1>1. Typed(s) /\ Good(e, Quiet(s))
  BY RestsIs
<1>2. Goes(s, s)
  <2>1. Same(s, s, {}) /\ {} \cap {"out", "nbq", "nxt", "rxNxt", "rxWin"} = {}
    BY DEF Same
  <2> QED BY <1>1, <2>1, GoesSame
<1>3. Allowed(e, s)
  BY <1>1, <1>2, GoesAllowed
<1>4. ASSUME g \in Segment PROVE Allowed(e, Rejected(s, g))
  <2> DEFINE t == Rejected(s, g)
  <2>1. Goes(s, t) /\ Same(s, t, {"out"})
    BY <1>1, <1>4, RejectedIs
  <2>2. Good(e, Quiet(t))
    BY <1>1, QuietOut DEF Rejected
  <2> HIDE DEF t
  <2>3. t.una = s.una /\ t.win = s.win /\ t.state = s.state
    BY <2>1 DEF Same, Names
  <2>4. Allowed(e, t)
    BY <2>1, <2>2, <2>3, GoesAllowed
  <2> QED BY <2>4 DEF t
<1> QED BY <1>3, <1>4

LEMMA ReceiveNoSocketProgress ==
    ASSUME TcpInv, NEW e \in Node, NEW g \in net[e], ReceiveNoSocket(e, g)
    PROVE  Progress
<1>1. g \in Segment
  BY TheirsIs
<1>2. CASE e = Passive /\ g.flags = {"SYN"} /\ backlog = NIL
  BY <1>2, StillAllowed DEF ReceiveNoSocket, Progress, BacklogStep
<1>3. CASE ~(e = Passive /\ g.flags = {"SYN"} /\ backlog = NIL)
  BY <1>1, <1>3, StillAllowed DEF ReceiveNoSocket, Progress, BacklogStep
<1> QED BY <1>2, <1>3

LEMMA BacklogTimerProgress ==
    ASSUME TcpInv, NutTcpBacklogTimer
    PROVE  Progress
<1>1. backlog \in Segment /\ Passive \in Node
  BY DEF NutTcpBacklogTimer, TcpInv, BacklogOK, Node
<1> QED BY <1>1, StillAllowed DEF NutTcpBacklogTimer, Progress, BacklogStep

LEMMA ContinueProgress ==
    ASSUME TcpInv, NEW e \in Node, Continue(e)
    PROVE  Progress
<1> DEFINE t == Continued(sock[e])
<1>1. Resumed(e, sock[e], t)
  BY RestsIs, ContinuedIs DEF Paused, Continue
<1> HIDE DEF t
<1>2. Good(e, Quiet(t))
  BY <1>1, GoodQuiet DEF Resumed, Goes
<1>3. Allowed(e, t)
  BY <1>1, <1>2, GoesAllowed DEF Resumed
<1>4. BacklogStep
  BY DEF Continue, BacklogStep
<1> QED BY <1>3, <1>4 DEF Continue, Progress, t

\* Fields that do not matter to Good, apart from where the application is.
IdleFields == {"app", "ack", "force", "out", "nxt", "nbq", "win", "wl1", "wl2", "rxCnt"}

LEMMA GoodStill ==
    ASSUME NEW e \in Node, NEW s, NEW t, Good(e, s), Same(s, t, IdleFields),
           ControlOf(e, s.state, t.app, Stage(s)), t.app # "start",
           t.app = "closed" <=> s.app = "closed", s.state = "GONE" => t.nbq = s.nbq
    PROVE  Good(e, t)
<1>1. /\ t.state = s.state /\ t.sm = s.sm /\ t.una = s.una
      /\ t.read = s.read /\ t.rxBuf = s.rxBuf /\ t.rxWin = s.rxWin /\ t.adv = s.adv
      /\ t.rxNxt = s.rxNxt /\ t.rxIsn = s.rxIsn /\ t.skew = s.skew
  BY DEF Same, Names, IdleFields
<1>2. Control(e, t)
  BY <1>1 DEF Control, Stage
<1>3. Blank(t)
  BY <1>1 DEF Good, Blank
<1>4. Tidy(t)
  BY <1>1 DEF Good, Tidy
<1>5. Room(t)
  BY <1>1 DEF Good, Room, Fits, Within, Beyond, Edge, At
<1> QED BY <1>2, <1>3, <1>4, <1>5 DEF Good

\* No socket that has something to send is new.
LEMMA NotNew ==
    ASSUME NEW e, NEW s, Good(e, s), s # NewSocket
    PROVE  s.app # "start"
  BY DEF Good, Blank

LEMMA TimerProgress ==
    ASSUME TcpInv, NEW e \in Node, NEW t, Timer(e, t), Allowed(e, t)
    PROVE  Progress
  BY DEF Timer, Progress, BacklogStep

LEMMA SetForceIs ==
    ASSUME NEW s, Typed(s)
    PROVE  LET t == [s EXCEPT !.force = TRUE]
           IN  Goes(s, t) /\ Same(s, t, {"force"})
<1> DEFINE t == [s EXCEPT !.force = TRUE]
<1>1. Shaped(t) /\ Record(t)
  BY Zenon DEF Typed, Shaped, Record
<1>2. Same(s, t, {"force"}) /\ t.force = TRUE
  BY DEF Typed, Shaped, Names, Same
<1> HIDE DEF t
<1>3. Fields(t) /\ Ordered(t)
  BY <1>2 DEF Same, Fields, Ordered, Names, Typed
<1>4. Typed(t)
  BY <1>1, <1>3 DEF Typed
<1>5. {"force"} \cap {"out", "nbq", "nxt", "rxNxt", "rxWin"} = {}
  OBVIOUS
<1>6. Goes(s, t)
  BY <1>2, <1>4, <1>5, GoesSame
<1> QED BY <1>2, <1>6 DEF t

LEMMA LateAckProgress ==
    ASSUME TcpInv, NEW e \in Node, LateAck(e)
    PROVE  Progress
<1> DEFINE s == sock[e]
           f == [s EXCEPT !.force = TRUE]
           t == NutTcpOutput(f, "nothing")
<1>0. Typed(s) /\ Good(e, s) /\ s.ack = TRUE
  <2>1. Typed(s) /\ Good(e, s) /\ s.ack
    BY RestsIs DEF LateAck
  <2>2. s.ack \in BOOLEAN
    BY <2>1 DEF Typed, Fields
  <2> QED BY <2>1, <2>2
<1>1. s.app # "start"
  BY <1>0, NotNew DEF NewSocket
<1>2. Goes(s, f) /\ Same(s, f, {"force"}) /\ Typed(f)
  BY <1>0, SetForceIs DEF Goes
<1> HIDE DEF f
<1>3. /\ Typed(t) /\ Same(f, t, {"ack", "force", "out", "nxt", "nbq"}) /\ Emitted(f, t, "nothing")
  <2>1. "nothing" \in Kind
    BY DEF Kind
  <2> QED BY <1>2, <2>1, Emits
<1> HIDE DEF t
<1>4. Goes(f, t) /\ t.nbq = f.nbq
  <2>1. t.rxNxt = f.rxNxt /\ t.rxWin = f.rxWin
    BY <1>3 DEF Same, Names
  <2>2. t.nbq = f.nbq
    BY <1>3 DEF Emitted
  <2> QED BY <1>2, <1>3, <2>1, <2>2, GoesEmitting
<1>5. Goes(s, t)
  BY <1>0, <1>2, <1>4, GoesTrans
<1>6. Same(s, t, IdleFields) /\ t.nbq = s.nbq
  BY <1>2, <1>3, <1>4 DEF Same, Names, IdleFields
<1>7. t.app = s.app /\ t.una = s.una /\ t.win = s.win /\ t.state = s.state
  BY <1>2, <1>3 DEF Same, Names
<1>8. Good(e, t)
  BY <1>0, <1>1, <1>6, <1>7, GoodStill DEF Good, Control
<1>9. Allowed(e, t)
  BY <1>3, <1>5, <1>7, <1>8, GoodQuiet, GoesAllowed
<1> QED BY <1>9, TimerProgress DEF LateAck, t, f

LEMMA RetransmitProgress ==
    ASSUME TcpInv, NEW e \in Node, Retransmit(e)
    PROVE  Progress
<1> DEFINE s == sock[e]
           o == Head(s.nbq)
           t == [s EXCEPT !.out = <<o>>]
<1>0. Typed(s) /\ Good(e, Quiet(s)) /\ s.nbq # <<>>
  BY RestsIs DEF Retransmit
<1>1. s.nbq \in Seq(Segment)
  BY <1>0 DEF Typed, Fields
<1>2. o = s.nbq[1] /\ 1 \in DOMAIN s.nbq /\ o \in Segment
  BY <1>0, <1>1
<1>3. Member(s.nbq, o) /\ <<o>> \in Seq(Segment)
  BY <1>2 DEF Member
<1> HIDE DEF o
<1>4. Shaped(t) /\ Record(t)
  BY <1>0, Zenon DEF Typed, Shaped, Record
<1>5. Same(s, t, {"out"}) /\ t.out = <<o>>
  BY <1>0 DEF Typed, Shaped, Names, Same
<1>6. Good(e, Quiet(t))
  BY <1>0, QuietOut
<1> HIDE DEF t
<1>7. Fields(t) /\ Ordered(t)
  BY <1>0, <1>3, <1>5 DEF Same, Fields, Ordered, Names, Typed
<1>8. Typed(t)
  BY <1>4, <1>7 DEF Typed
<1>9. /\ t.nbq = s.nbq /\ t.nxt = s.nxt /\ t.rxNxt = s.rxNxt /\ t.rxWin = s.rxWin
      /\ t.una = s.una /\ t.win = s.win /\ t.state = s.state
  BY <1>5 DEF Same, Names
<1>10. Issues(s, t)
  <2>1. ASSUME NEW x, Member(t.out, x) \/ Member(t.nbq, x)
        PROVE  Member(s.nbq, x)
    <3>1. CASE Member(t.nbq, x)
      BY <1>9, <3>1
    <3>2. CASE Member(t.out, x)
      <4>1. x = o
        BY <1>5, <3>2 DEF Member
      <4> QED BY <1>3, <4>1
    <3> QED BY <2>1, <3>1, <3>2
  <2> QED BY <2>1, Zenon DEF Issues
<1>11. Goes(s, t)
  BY <1>0, <1>8, <1>9, <1>10, GrowsSame DEF Goes
<1>12. Allowed(e, t)
  BY <1>6, <1>9, <1>11, GoesAllowed
<1> QED BY <1>12, TimerProgress DEF Retransmit, t, o

LEMMA RetransmitFailsProgress ==
    ASSUME TcpInv, NEW e \in Node, RetransmitFails(e)
    PROVE  Progress
<1> DEFINE s == sock[e]
           t == NutTcpAbortSocket(s)
<1>0. Typed(s) /\ Good(e, s) /\ s.nbq # <<>> /\ s.sm = NIL
  BY RestsIs DEF RetransmitFails, Timer
<1>1. s.app # "start" /\ s.state # "GONE"
  BY <1>0, NotNew DEF NewSocket, Good, Blank
<1>2. Goes(s, t) /\ Same(s, t, {"state", "app", "rxBuf", "nbq", "adv"})
  BY <1>0, AbortIs
<1>3. ASSUME NEW g PROVE Handled(e, s, t, g)
  BY <1>0, <1>1, AbortHandled
<1>4. Good(e, t) /\ t.state # "GONE"
  BY <1>3 DEF Handled
<1> HIDE DEF t
<1>5. t.una = s.una /\ t.win = s.win
  BY <1>2 DEF Same, Names
<1>6. Allowed(e, t)
  BY <1>1, <1>2, <1>4, <1>5, GoodQuiet, GoesAllowed DEF Goes
<1> QED BY <1>6, TimerProgress DEF RetransmitFails, t

\* A socket that is destroyed.
LEMMA DestroyAllowed ==
    ASSUME TcpInv, NEW e \in Node, NEW s, Typed(s), Tidy(s), s.nbq = sock[e].nbq, s.out = <<>>,
           ControlOf(e, "GONE", s.app, Stage(s)),
           sock[e].sm = NIL \/ sock[e].state \in {"CLOSED", "GONE"}
    PROVE  Allowed(e, NutTcpDestroySocket(s))
<1> DEFINE t == NutTcpDestroySocket(s)
<1>1. ASSUME NEW g PROVE Result(e, s, t, g)
  BY DestroyResult
<1>2. Typed(t) /\ IssuesSyn(e, s, t) /\ Good(e, t)
  BY <1>1 DEF Result, Moves
<1>3. t.una = 0 /\ t.win = 0 /\ t.state = "GONE"
  BY DEF NutTcpDestroySocket, NewSocket
<1> HIDE DEF t
<1>4. IssuesSyn(e, sock[e], t)
  <2>1. \A o : Member(s.out, o) \/ Member(s.nbq, o) => Member(sock[e].nbq, o)
    BY DEF Member
  <2> QED BY <1>2, <2>1, Zenon DEF IssuesSyn
<1>5. Moves(e, sock[e], t)
  BY <1>2, <1>3, <1>4 DEF Moves
<1>6. sock[Peer(e)].state # "GONE" => Knows(t, sock[Peer(e)])
  BY <1>2, <1>3, KnowsStill
<1>7. Good(e, Quiet(t))
  BY <1>2, GoodQuiet
<1>8. Allowed(e, t)
  BY <1>5, <1>6, <1>7, AllowedIf
<1> QED BY <1>8 DEF t

LEMMA TimeWaitProgress ==
    ASSUME TcpInv, NEW e \in Node, TimeWaitOver(e)
    PROVE  Progress
<1> DEFINE s == sock[e]
<1>1. /\ Typed(s) /\ Tidy(s) /\ s.out = <<>> /\ s.sm = NIL
      /\ s.state \in {"TIME_WAIT", "FIN_WAIT_2"} /\ ControlOf(e, s.state, s.app, Stage(s))
  BY RestsIs DEF TimeWaitOver, Timer
<1>2. ControlOf(e, "GONE", s.app, Stage(s))
  <2>1. Stage(s) = "idle"
    BY <1>1 DEF Stage
  <2>2. s.app = "closed"
    BY <1>1 DEF ControlOf, ClosedByUs
  <2> QED BY <1>1, <2>1, <2>2, ControlClosed DEF ClosedByUs
<1>3. Allowed(e, NutTcpDestroySocket(s))
  BY <1>1, <1>2, DestroyAllowed
<1> QED BY <1>3, TimerProgress DEF TimeWaitOver

LEMMA SynTimeoutProgress ==
    ASSUME TcpInv, NEW e \in Node, SynTimeout(e)
    PROVE  Progress
<1> DEFINE s == sock[e]
           t == [s EXCEPT !.state = "LISTEN"]
<1>1. /\ Typed(s) /\ Good(e, s) /\ s.sm = NIL /\ s.state = "SYN_RECEIVED"
      /\ ControlOf(e, "SYN_RECEIVED", s.app, "idle")
  BY RestsIs DEF SynTimeout, Timer, Stage
<1>2. Served(e, s) /\ s.state = "SYN_RECEIVED"
  BY <1>1 DEF Served
<1>3. Goes(s, t) /\ Same(s, t, {"state"}) /\ t.state = "LISTEN"
  <2>1. "LISTEN" \in State
    BY DEF State
  <2> QED BY <1>1, <2>1, SetStateIs
<1> HIDE DEF t
<1>4. /\ t.una = s.una /\ t.win = s.win /\ t.app = s.app /\ t.sm = s.sm
      /\ t.read = s.read /\ t.rxIsn = s.rxIsn /\ t.rxNxt = s.rxNxt /\ t.rxWin = s.rxWin
      /\ t.skew = s.skew /\ t.rxBuf = s.rxBuf /\ t.adv = s.adv
  BY <1>3 DEF Same, Names
<1>5. Control(e, t)
  <2>1. s.app \in {"user", "pc", "failed"}
    BY <1>2, SynReceivedStage
  <2>2. ControlOf(e, "LISTEN", s.app, "idle")
    BY <1>1, <2>1 DEF ControlOf, Opening, ClosedByUs
  <2> QED BY <1>1, <1>3, <1>4, <2>2 DEF Control, Stage
<1>6. Blank(t)
  <2>1. s.app # "start"
    BY <1>2, ServedIs
  <2> QED BY <1>2, <1>3, <1>4, <2>1, SynReceivedStage DEF Blank, Opening
<1>7. Tidy(t)
  BY <1>1, <1>3, <1>4 DEF Tidy, Good
<1>8. Room(t)
  <2>1. Fits(t)
    BY <1>2, <1>4, SynReceivedStage DEF Fits
  <2> QED BY <1>3, <2>1 DEF Room
<1>9. Good(e, t)
  BY <1>5, <1>6, <1>7, <1>8 DEF Good
<1>10. Allowed(e, t)
  BY <1>1, <1>3, <1>4, <1>9, GoodQuiet, GoesAllowed DEF Goes
<1> QED BY <1>10, TimerProgress DEF SynTimeout, t

-----------------------------------------------------------------------------
(* The calls of the application.                                           *)

LEMMA SetAppIs ==
    ASSUME NEW s, Typed(s), NEW a \in AppPlace
    PROVE  LET t == [s EXCEPT !.app = a]
           IN  Goes(s, t) /\ Typed(t) /\ Same(s, t, {"app"}) /\ t.app = a
<1> DEFINE t == [s EXCEPT !.app = a]
<1>1. Shaped(t) /\ Record(t)
  BY Zenon DEF Typed, Shaped, Record
<1>2. Same(s, t, {"app"}) /\ t.app = a
  BY DEF Typed, Shaped, Names, Same
<1> HIDE DEF t
<1>3. Fields(t) /\ Ordered(t)
  BY <1>2 DEF Same, Fields, Ordered, Names, Typed
<1>4. Typed(t)
  BY <1>1, <1>3 DEF Typed
<1>5. {"app"} \cap {"out", "nbq", "nxt", "rxNxt", "rxWin"} = {}
  OBVIOUS
<1>6. Goes(s, t)
  BY <1>2, <1>4, <1>5, GoesSame
<1> QED BY <1>2, <1>4, <1>6 DEF t

Moved(s, a, x) == [s EXCEPT !.app = a, !.state = x]

LEMMA SetAppStateIs ==
    ASSUME NEW s, Typed(s), NEW a \in AppPlace, NEW x \in State
    PROVE  LET t == Moved(s, a, x)
           IN  Goes(s, t) /\ Same(s, t, {"app", "state"}) /\ t.app = a /\ t.state = x
<1> DEFINE t == Moved(s, a, x)
<1>1. Shaped(t) /\ Record(t)
  BY Zenon DEF Typed, Shaped, Record, Moved
<1>2. Same(s, t, {"app", "state"}) /\ t.app = a /\ t.state = x
  BY DEF Typed, Shaped, Names, Same, Moved
<1> HIDE DEF t
<1>3. Fields(t) /\ Ordered(t)
  BY <1>2 DEF Same, Fields, Ordered, Names, Typed
<1>4. Typed(t)
  BY <1>1, <1>3 DEF Typed
<1>5. {"app", "state"} \cap {"out", "nbq", "nxt", "rxNxt", "rxWin"} = {}
  OBVIOUS
<1>6. Goes(s, t)
  BY <1>2, <1>4, <1>5, GoesSame
<1> QED BY <1>2, <1>6 DEF t

\* The connection is not made: the SYN is neither kept back nor sent.
LEMMA SetFailedIs ==
    ASSUME NEW s, Typed(s), NEW a \in AppPlace
    PROVE  LET t == [s EXCEPT !.app = a, !.out = <<>>]
           IN  Typed(t) /\ Same(s, t, {"app", "out"}) /\ t.app = a /\ t.out = <<>>
<1> DEFINE t == [s EXCEPT !.app = a, !.out = <<>>]
<1>1. Shaped(t) /\ Record(t)
  BY Zenon DEF Typed, Shaped, Record
<1>2. Same(s, t, {"app", "out"}) /\ t.app = a /\ t.out = <<>>
  BY DEF Typed, Shaped, Names, Same
<1> HIDE DEF t
<1>3. Fields(t) /\ Ordered(t)
  <2>1. t.out \in Seq(Segment)
    BY <1>2
  <2> QED BY <1>2, <2>1 DEF Same, Fields, Ordered, Names, Typed
<1>4. Typed(t)
  BY <1>1, <1>3 DEF Typed
<1> QED BY <1>2, <1>4 DEF t

LEMMA AppProgress ==
    ASSUME TcpInv, NEW e \in Node, NEW t, App(e, t), Allowed(e, t)
    PROVE  Progress
  BY DEF App, Progress, BacklogStep

\* A socket that is being opened.
LEMMA OpeningGood ==
    ASSUME NEW e \in Node, NEW s, s.state \in Opening, s.sm = NIL,
           ControlOf(e, s.state, s.app, "idle"), s.read = <<>>, s.rxBuf = <<>>, s.adv = <<>>,
           s.rxWin = WinSize, s.una = 0, s.rxIsn = 0,
           s.rxNxt = IF s.state = "SYN_RECEIVED" THEN 1 ELSE 0
    PROVE  Good(e, s)
<1>1. Control(e, s)
  BY DEF Control, Stage
<1>2. s.app # "start"
  BY DEF ControlOf, Opening
<1>3. Blank(s)
  BY <1>2 DEF Blank, Opening
<1>4. Tidy(s)
  <2>1. Len(s.read) = 0 /\ Len(s.rxBuf) = 0
    OBVIOUS
  <2>2. DOMAIN s.read = {} /\ DOMAIN s.rxBuf = {}
    OBVIOUS
  <2>3. s.state = "SYN_RECEIVED" => s.rxNxt = s.rxIsn + Len(s.read) + Len(s.rxBuf) + 1
    BY <2>1
  <2> QED BY <2>2, <2>3 DEF Tidy, Opening
<1>5. Room(s)
  <2>1. WinSize \in Nat /\ Len(s.rxBuf) = 0 /\ Len(s.adv) = 0
    BY TcpAssumption
  <2>2. Len(s.rxBuf) + s.rxWin <= WinSize /\ Len(s.adv) <= s.rxWin
    BY <2>1
  <2>3. s.app # "closed"
    BY DEF ControlOf, Opening
  <2>4. Fits(s)
    BY <2>2, <2>3 DEF Fits
  <2> QED BY <2>4 DEF Room, Opening
<1> QED BY <1>1, <1>3, <1>4, <1>5 DEF Good

LEMMA ConnectProgress ==
    ASSUME TcpInv, NutTcpConnect
    PROVE  Progress
<1> DEFINE e == Active
           s == sock[e]
           t == NutTcpStateChange(s, "SYN_SENT")
           a == [t EXCEPT !.app = "opening"]
           b == [t EXCEPT !.app = "failed", !.out = <<>>]
<1>0. e \in Node /\ Typed(s) /\ s = NewSocket /\ s.out = <<>>
  <2>1. e \in Node
    BY DEF Node
  <2> QED BY <2>1, RestsIs DEF NutTcpConnect, Blank
<1>1. /\ Typed(t) /\ Same(s, t, {"state", "ack", "force", "out", "nxt", "nbq"})
      /\ t.state = "SYN_SENT" /\ \E what : what = "SYN" /\ Emitted(s, t, what)
  <2>1. s.state = "CLOSED" /\ "SYN_SENT" \in State
    BY <1>0 DEF NewSocket, State
  <2>2. Follows(s.state, "SYN_SENT")
    BY <2>1 DEF Follows
  <2>3. /\ Typed(t) /\ Same(s, t, {"state", "ack", "force", "out", "nxt", "nbq"})
        /\ t.state = "SYN_SENT"
        /\ \E what : Sends(s.state, "SYN_SENT", what) /\ Emitted(s, t, what)
    BY <1>0, <2>1, <2>2, StateChangeIs
  <2> QED BY <2>3 DEF Sends
<1> HIDE DEF t
<1>2. /\ t.una = 0 /\ t.win = 0 /\ t.sm = NIL /\ t.read = <<>> /\ t.rxBuf = <<>> /\ t.adv = <<>>
      /\ t.rxWin = WinSize /\ t.rxNxt = 0 /\ t.rxIsn = 0
      /\ t.rxNxt = s.rxNxt /\ t.rxWin = s.rxWin /\ s.nxt = 0
  BY <1>0, <1>1 DEF Same, Names, NewSocket
<1>3. IssuesSyn(e, s, t) /\ Grows(s, t)
  <2>1. PICK what : what = "SYN" /\ Emitted(s, t, what)
    BY <1>1
  <2> QED BY <1>0, <1>1, <1>2, <2>1, SynSent
<1>4. /\ Typed(a) /\ Same(t, a, {"app"}) /\ a.app = "opening"
      /\ Typed(b) /\ Same(t, b, {"app", "out"}) /\ b.app = "failed" /\ b.out = <<>>
  <2>1. "opening" \in AppPlace /\ "failed" \in AppPlace
    BY DEF AppPlace
  <2> QED BY <1>1, <2>1, SetAppIs, SetFailedIs
<1> HIDE DEF a, b
<1>5. ASSUME NEW u, Typed(u), Same(t, u, {"app", "out"}), u.out = t.out \/ u.out = <<>>,
             u.app \in {"opening", "failed"}
      PROVE  Allowed(e, u)
  <2>1. /\ u.una = 0 /\ u.win = 0 /\ u.sm = NIL /\ u.read = <<>> /\ u.rxBuf = <<>> /\ u.adv = <<>>
        /\ u.rxWin = WinSize /\ u.rxNxt = 0 /\ u.rxIsn = 0 /\ u.state = "SYN_SENT"
        /\ u.nbq = t.nbq /\ u.nxt = t.nxt /\ u.rxNxt = t.rxNxt /\ u.rxWin = t.rxWin
    BY <1>1, <1>2, <1>5 DEF Same, Names
  <2>2. ControlOf(e, "SYN_SENT", u.app, "idle")
    BY <1>5, TcpAssumption DEF ControlOf, Opening, ClosedByUs
  <2>3. Good(e, u)
    BY <1>0, <2>1, <2>2, OpeningGood DEF Opening
  <2>4. IssuesSyn(e, s, u)
    <3> SUFFICES ASSUME NEW o, Member(u.out, o) \/ Member(u.nbq, o)
                 PROVE  Member(s.out, o) \/ Member(s.nbq, o) \/ New(u, o) \/ NewSyn(e, u, o)
      BY Zenon DEF IssuesSyn
    <3>1. Member(t.out, o) \/ Member(t.nbq, o)
      BY <1>5, <2>1 DEF Member
    <3>2. Member(s.out, o) \/ Member(s.nbq, o) \/ New(t, o) \/ NewSyn(e, t, o)
      BY <1>3, <3>1 DEF IssuesSyn
    <3> QED BY <2>1, <3>2 DEF New, NewSyn
  <2>5. Moves(e, s, u)
    BY <1>0, <1>3, <1>5, <2>1, <2>4 DEF Moves, Grows, NewSocket
  <2>6. sock[Peer(e)].state # "GONE" => Knows(u, sock[Peer(e)])
    BY <1>0, <1>5, <2>1, KnowsStill
  <2> QED BY <1>0, <1>5, <2>1, <2>3, <2>5, <2>6, GoodQuiet, AllowedIf
<1>6. Allowed(e, a) /\ Allowed(e, b)
  <2>1. Same(t, a, {"app", "out"}) /\ a.out = t.out
    BY <1>4 DEF Same, Names
  <2> QED BY <1>4, <1>5, <2>1
<1>7. App(e, a) \/ App(e, b)
  BY DEF NutTcpConnect, a, b, t
<1> QED BY <1>0, <1>6, <1>7, AppProgress

LEMMA ConnectWaitProgress ==
    ASSUME TcpInv, ConnectWait
    PROVE  Progress
<1> DEFINE e == Active
           s == sock[e]
           a == IF s.state = "SYN_SENT" THEN "ac" ELSE "user"
           t == [s EXCEPT !.app = a]
<1>0. /\ e \in Node /\ Typed(s) /\ Good(e, s) /\ s.app = "opening"
      /\ ControlOf(e, s.state, s.app, Stage(s))
  <2>1. e \in Node
    BY DEF Node
  <2> QED BY <2>1, RestsIs DEF ConnectWait
<1>1. ControlOf(e, s.state, a, Stage(s)) /\ a \in {"ac", "user"} /\ a \in AppPlace
  <2>1. CASE s.state = "SYN_SENT"
    BY <1>0, <2>1, TcpAssumption DEF ControlOf, Opening, ClosedByUs, AppPlace
  <2>2. CASE s.state # "SYN_SENT"
    BY <1>0, <2>2 DEF ControlOf, Opening, ClosedByUs, AppPlace
  <2> QED BY <2>1, <2>2
<1>2. Goes(s, t) /\ Typed(t) /\ Same(s, t, {"app"}) /\ t.app = a
  BY <1>0, <1>1, SetAppIs
<1>3. App(e, t)
  BY DEF ConnectWait
<1> HIDE DEF a, t
<1>4. /\ Same(s, t, IdleFields) /\ t.nbq = s.nbq /\ t.state = s.state
      /\ t.una = s.una /\ t.win = s.win
  BY <1>2 DEF Same, Names, IdleFields
<1>5. Good(e, t)
  <2>1. t.app # "start" /\ (t.app = "closed" <=> s.app = "closed")
    BY <1>0, <1>1, <1>2
  <2> QED BY <1>0, <1>1, <1>2, <1>4, <2>1, GoodStill
<1>6. Allowed(e, t)
  BY <1>0, <1>2, <1>4, <1>5, GoodQuiet, GoesAllowed
<1> QED BY <1>0, <1>3, <1>6, AppProgress

LEMMA IssuesAfter ==
    ASSUME NEW e, NEW s, NEW t, NEW u, Typed(s), Goes(s, t), Typed(u), IssuesSyn(e, t, u),
           Grows(t, u)
    PROVE  IssuesSyn(e, s, u) /\ Grows(s, u)
<1>0. Typed(t) /\ Issues(s, t) /\ Grows(s, t)
  BY DEF Goes
<1>1. /\ s.rxNxt \in Nat /\ s.rxWin \in Nat /\ s.nxt \in Nat
      /\ t.rxNxt \in Nat /\ t.rxWin \in Nat /\ t.nxt \in Nat
      /\ u.rxNxt \in Nat /\ u.rxWin \in Nat /\ u.nxt \in Nat
  BY <1>0, Numbers
<1>2. /\ t.rxNxt <= u.rxNxt /\ t.rxNxt + t.rxWin <= u.rxNxt + u.rxWin /\ t.nxt <= u.nxt
      /\ s.rxNxt <= t.rxNxt /\ s.rxNxt + s.rxWin <= t.rxNxt + t.rxWin /\ s.nxt <= t.nxt
  BY <1>0 DEF Grows
<1>3. Grows(s, u)
  BY <1>1, <1>2 DEF Grows
<1>4. ASSUME NEW o, New(t, o) PROVE New(u, o)
  <2>1. o \in Segment /\ o.data = FALSE
    BY <1>4 DEF New
  <2>2. ASSUME "RST" \notin o.flags
        PROVE  /\ o.ack <= u.rxNxt /\ o.ack + o.win <= u.rxNxt + u.rxWin
               /\ \/ o.seq < u.nxt
                  \/ o.seq = u.nxt /\ o.flags \subseteq {"ACK"}
               /\ "SYN" \notin o.flags
    <3>1. o.ack \in Nat /\ o.win \in Nat /\ o.seq \in Nat
      BY <2>1, TcpAssumption DEF Segment
    <3> QED BY <1>1, <1>2, <1>4, <2>2, <3>1 DEF New
  <2> QED BY <2>1, <2>2 DEF New
<1>5. IssuesSyn(e, s, u)
  <2> SUFFICES ASSUME NEW o, Member(u.out, o) \/ Member(u.nbq, o)
               PROVE  Member(s.out, o) \/ Member(s.nbq, o) \/ New(u, o) \/ NewSyn(e, u, o)
    BY Zenon DEF IssuesSyn
  <2>1. Member(t.out, o) \/ Member(t.nbq, o) \/ New(u, o) \/ NewSyn(e, u, o)
    BY Zenon DEF IssuesSyn
  <2>2. Member(s.out, o) \/ Member(s.nbq, o) \/ New(t, o) \/ New(u, o) \/ NewSyn(e, u, o)
    BY <1>0, <2>1, Zenon DEF Issues
  <2> QED BY <1>4, <2>2
<1> QED BY <1>3, <1>5

LEMMA AcceptProgress ==
    ASSUME TcpInv, NutTcpAccept
    PROVE  Progress
<1> DEFINE e == Passive
           s == sock[e]
           t == NutTcpStateChange(s, "LISTEN")
           g == backlog
           w == NutTcpStateListen(t, g)
           a == [t EXCEPT !.app = "pc"]
           b == [w EXCEPT !.app = "user"]
<1>0. e \in Node /\ Typed(s) /\ s = NewSocket /\ s.out = <<>>
  <2>1. e \in Node
    BY DEF Node
  <2> QED BY <2>1, RestsIs DEF NutTcpAccept, Blank
<1>1. Goes(s, t) /\ Same(s, t, {"state", "ack", "force", "out", "nxt", "nbq"}) /\ t.state = "LISTEN"
  <2>1. s.state = "CLOSED" /\ "LISTEN" \in State \ {"SYN_SENT", "SYN_RECEIVED"}
    BY <1>0 DEF NewSocket, State
  <2>2. Follows(s.state, "LISTEN")
    BY <2>1 DEF Follows
  <2> QED BY <1>0, <2>1, <2>2, StateChangeGoes
<1>s. IF backlog = NIL THEN Step(e, a, {}) ELSE Step(e, b, {})
  BY DEF NutTcpAccept
<1> HIDE DEF t
<1>2. /\ t.una = 0 /\ t.win = 0 /\ t.sm = NIL /\ t.read = <<>> /\ t.rxBuf = <<>> /\ t.adv = <<>>
      /\ t.rxWin = WinSize /\ t.rxNxt = 0 /\ t.rxIsn = 0 /\ Typed(t)
  BY <1>0, <1>1 DEF Same, Names, NewSocket, Goes
<1>p. "pc" \in AppPlace /\ "user" \in AppPlace
  BY DEF AppPlace
<1>3. ASSUME backlog = NIL PROVE Allowed(e, a)
  <2>1. Goes(t, a) /\ Typed(a) /\ Same(t, a, {"app"}) /\ a.app = "pc"
    BY <1>2, <1>p, SetAppIs
  <2> HIDE DEF a
  <2>2. /\ a.una = 0 /\ a.win = 0 /\ a.sm = NIL /\ a.read = <<>> /\ a.rxBuf = <<>> /\ a.adv = <<>>
        /\ a.rxWin = WinSize /\ a.rxNxt = 0 /\ a.rxIsn = 0 /\ a.state = "LISTEN"
    BY <1>1, <1>2, <2>1 DEF Same, Names
  <2>3. ControlOf(e, "LISTEN", "pc", "idle")
    BY TcpAssumption DEF ControlOf, Opening, ClosedByUs
  <2>4. Good(e, a)
    BY <1>0, <2>1, <2>2, <2>3, OpeningGood DEF Opening
  <2>5. Goes(s, a)
    BY <1>0, <1>1, <2>1, GoesTrans
  <2>6. s.una = 0 /\ s.win = 0 /\ s.state = "CLOSED"
    BY <1>0 DEF NewSocket
  <2> QED BY <1>0, <2>1, <2>2, <2>4, <2>5, <2>6, GoodQuiet, GoesAllowed
<1>4. ASSUME backlog # NIL PROVE Allowed(e, b)
  <2>1. /\ g \in Segment /\ g.flags = {"SYN"} /\ Theirs(Active, g) /\ Peer(e) = Active
    BY <1>4, TcpAssumption DEF TcpInv, BacklogOK, Theirs, Peer
  <2>2. g.seq = 0
    <3>1. Sound(Active, g)
      BY <2>1 DEF TcpInv, Node
    <3> QED BY <2>1, <3>1 DEF Sound
  <2>3. w = NutTcpStateChange(NutTcpProcessSyn(t, g), "SYN_RECEIVED")
    BY <2>1 DEF NutTcpStateListen
  <2>4. /\ Typed(w) /\ IssuesSyn(e, t, w) /\ Grows(t, w) /\ Same(t, w, SynFields)
        /\ w.state = "SYN_RECEIVED" /\ w.rxNxt = 1 /\ w.rxIsn = 0 /\ w.win = g.win
    <3>1. t.rxNxt \in {0, 1}
      BY <1>2
    <3> QED BY <1>1, <1>2, <2>1, <2>2, <2>3, <3>1, ListenSyn
  <2> HIDE DEF w
  <2>5. Goes(w, b) /\ Typed(b) /\ Same(w, b, {"app"}) /\ b.app = "user"
    BY <1>p, <2>4, SetAppIs
  <2> HIDE DEF b
  <2>6. /\ b.una = 0 /\ b.win = g.win /\ b.sm = NIL /\ b.read = <<>> /\ b.rxBuf = <<>>
        /\ b.adv = <<>> /\ b.rxWin = WinSize /\ b.rxNxt = 1 /\ b.rxIsn = 0
        /\ b.state = "SYN_RECEIVED" /\ b.out = w.out /\ b.nbq = w.nbq
        /\ b.nxt = w.nxt /\ b.rxNxt = w.rxNxt /\ b.rxWin = w.rxWin
    BY <1>2, <2>4, <2>5 DEF Same, Names, SynFields
  <2>7. ControlOf(e, "SYN_RECEIVED", "user", "idle")
    BY TcpAssumption DEF ControlOf, Opening, ClosedByUs
  <2>8. Good(e, b)
    BY <1>0, <2>5, <2>6, <2>7, OpeningGood DEF Opening
  <2>9. IssuesSyn(e, t, b) /\ Grows(t, b)
    BY <2>4, <2>6, Zenon DEF IssuesSyn, Grows, New, NewSyn
  <2>10. IssuesSyn(e, s, b) /\ Grows(s, b)
    BY <1>0, <1>1, <2>5, <2>9, IssuesAfter
  <2>11. Moves(e, s, b)
    BY <1>0, <2>5, <2>10 DEF Moves, NewSocket
  <2>12. sock[Peer(e)].state # "GONE" => Knows(b, sock[Peer(e)])
    <3>1. Heard(s, b, g)
      BY <2>1, <2>6 DEF Heard
    <3> QED BY <1>0, <2>1, <2>5, <3>1, KnowsHeard
  <2> QED BY <1>0, <2>5, <2>6, <2>8, <2>11, <2>12, GoodQuiet, AllowedIf
<1>5. BacklogStep
  BY DEF NutTcpAccept, BacklogStep
<1>6. CASE backlog = NIL
  <2>1. Step(e, a, {})
    BY <1>s, <1>6
  <2> QED BY <1>0, <1>3, <1>5, <1>6, <2>1 DEF Progress
<1>7. CASE backlog # NIL
  <2>1. Step(e, b, {})
    BY <1>s, <1>7
  <2> QED BY <1>0, <1>4, <1>5, <1>7, <2>1 DEF Progress
<1> QED BY <1>6, <1>7

LEMMA AcceptTimeoutProgress ==
    ASSUME TcpInv, AcceptTimeout
    PROVE  Progress
<1> DEFINE e == Passive
           s == sock[e]
           t == Moved(s, "user", "CLOSED")
<1>0. /\ e \in Node /\ Typed(s) /\ Good(e, s) /\ s.app = "pc" /\ Tidy(s) /\ Fits(s)
      /\ ControlOf(e, s.state, "pc", Stage(s))
  <2>1. e \in Node
    BY DEF Node
  <2> QED BY <2>1, RestsIs DEF AcceptTimeout, Room
<1>1. Goes(s, t) /\ Same(s, t, {"app", "state"}) /\ t.app = "user" /\ t.state = "CLOSED"
  <2>1. "user" \in AppPlace /\ "CLOSED" \in State
    BY DEF AppPlace, State
  <2> QED BY <1>0, <2>1, SetAppStateIs
<1>2. App(e, t)
  BY DEF AcceptTimeout, Moved
<1> HIDE DEF t
<1>3. /\ t.una = s.una /\ t.win = s.win /\ t.sm = s.sm
      /\ t.read = s.read /\ t.rxIsn = s.rxIsn /\ t.rxNxt = s.rxNxt /\ t.rxWin = s.rxWin
      /\ t.skew = s.skew /\ t.rxBuf = s.rxBuf /\ t.adv = s.adv
  BY <1>1 DEF Same, Names
<1>4. Control(e, t)
  <2>1. ControlOf(e, "CLOSED", "user", Stage(s))
    BY <1>0 DEF ControlOf, Opening, ClosedByUs
  <2> QED BY <1>1, <1>3, <2>1 DEF Control, Stage
<1>5. Blank(t)
  BY <1>1 DEF Blank, Opening
<1>6. Tidy(t)
  BY <1>0, <1>1, <1>3 DEF Tidy
<1>7. Room(t)
  <2>1. Fits(t)
    BY <1>0, <1>1, <1>3 DEF Fits
  <2> QED BY <1>1, <2>1 DEF Room
<1>8. Good(e, t) /\ s.state # "GONE"
  BY <1>0, <1>4, <1>5, <1>6, <1>7 DEF Good, ControlOf
<1>9. Allowed(e, t)
  BY <1>0, <1>1, <1>3, <1>8, GoodQuiet, GoesAllowed DEF Goes
<1> QED BY <1>0, <1>2, <1>9, AppProgress

\* A call of the application returns.
LEMMA ControlUser ==
    ASSUME NEW e \in Node, NEW x, NEW a, NEW p, ControlOf(e, x, a, p), a \notin {"start", "closed"}
    PROVE  /\ ControlOf(e, x, "user", p)
           /\ x \notin Opening => ControlOf(e, x, "fault", p)
           /\ x = "ESTABLISHED" => ControlOf(e, x, "tx", p) /\ ControlOf(e, x, "rx", p)
  BY DEF ControlOf, Opening, ClosedByUs

\* Only the place of the application changes.
LEMMA PlaceAllowed ==
    ASSUME TcpInv, NEW e \in Node, NEW a \in AppPlace,
           ControlOf(e, sock[e].state, a, Stage(sock[e])),
           sock[e].app \notin {"start", "closed"}, a \notin {"start", "closed"}
    PROVE  Allowed(e, [sock[e] EXCEPT !.app = a])
<1> DEFINE s == sock[e]
           t == [s EXCEPT !.app = a]
<1>0. Typed(s) /\ Good(e, s)
  BY RestsIs
<1>1. Goes(s, t) /\ Typed(t) /\ Same(s, t, {"app"}) /\ t.app = a
  BY <1>0, SetAppIs
<1> HIDE DEF t
<1>2. /\ Same(s, t, IdleFields) /\ t.nbq = s.nbq /\ t.state = s.state
      /\ t.una = s.una /\ t.win = s.win
  BY <1>1 DEF Same, Names, IdleFields
<1>3. Good(e, t)
  <2>1. t.app # "start" /\ (t.app = "closed" <=> s.app = "closed")
    BY <1>1
  <2> QED BY <1>0, <1>1, <1>2, <2>1, GoodStill
<1>4. Allowed(e, t)
  BY <1>1, <1>2, <1>3, GoodQuiet, GoesAllowed
<1> QED BY <1>4 DEF t

Sending(s) == [s EXCEPT !.app = "user", !.ack = TRUE]

LEMMA SendingIs ==
    ASSUME NEW s, Typed(s)
    PROVE  LET t == Sending(s)
           IN  Typed(t) /\ Same(s, t, {"app", "ack"}) /\ t.app = "user" /\ t.ack = TRUE
<1> DEFINE t == Sending(s)
<1>1. Shaped(t) /\ Record(t)
  BY Zenon DEF Typed, Shaped, Record, Sending
<1>2. Same(s, t, {"app", "ack"}) /\ t.app = "user" /\ t.ack = TRUE
  BY DEF Typed, Shaped, Names, Same, Sending
<1> HIDE DEF t
<1>3. Fields(t) /\ Ordered(t)
  BY <1>2 DEF Same, Fields, Ordered, Names, Typed, AppPlace
<1>4. Typed(t)
  BY <1>1, <1>3 DEF Typed
<1> QED BY <1>2, <1>4 DEF t

\* A byte is sent when the peer has room for it.
LEMMA DataAllowed ==
    ASSUME TcpInv, NEW e \in Node, sock[e].state = "ESTABLISHED", WindowOpen(sock[e])
    PROVE  Allowed(e, NutTcpOutput(Sending(sock[e]), "DATA"))
<1> DEFINE s == sock[e]
           k == Sending(s)
           t == NutTcpOutput(k, "DATA")
<1>0. /\ Typed(s) /\ Good(e, s) /\ s.out = <<>>
      /\ ControlOf(e, "ESTABLISHED", s.app, Stage(s))
  BY RestsIs
<1>1. Typed(k) /\ Same(s, k, {"app", "ack"}) /\ k.app = "user" /\ k.ack = TRUE
  BY <1>0, SendingIs
<1> HIDE DEF k
<1>2. /\ k.nxt = s.nxt /\ k.rxNxt = s.rxNxt /\ k.rxWin = s.rxWin /\ k.out = <<>> /\ k.nbq = s.nbq
  BY <1>0, <1>1 DEF Same, Names
<1>3. /\ Typed(t) /\ Same(k, t, {"ack", "force", "out", "nxt", "nbq"}) /\ t.nxt = k.nxt + 1
      /\ \E o \in Made(k, "DATA") :
            /\ "ACK" \in o.flags
            /\ t.out = Append(<<>>, o) /\ t.nbq = Append(s.nbq, o)
  <2>1. "DATA" \in Kind /\ "DATA" # "nothing"
    BY DEF Kind
  <2>2. /\ Typed(t) /\ Same(k, t, {"ack", "force", "out", "nxt", "nbq"})
        /\ Emitted(k, t, "DATA")
        /\ \E o \in Made(k, "DATA") :
              /\ "ACK" \in o.flags <=> k.ack = TRUE
              /\ t.out = Append(k.out, o)
              /\ t.nbq = Append(k.nbq, o)
    <3>1. /\ Typed(t) /\ Same(k, t, {"ack", "force", "out", "nxt", "nbq"})
          /\ Emitted(k, t, "DATA")
      BY <1>1, <2>1, Emits
    <3>2. Acks(k, t)
      BY <1>1, <2>1, EmitsAck
    <3> HIDE DEF t
    <3>3. PICK o \in Made(k, "DATA") : t.out = Append(k.out, o) /\ t.nbq = Append(k.nbq, o)
      BY <2>1, <3>1 DEF Emitted
    <3>4. PICK x \in Segment : "ACK" \in x.flags /\ t.out = Append(k.out, x)
      BY <3>2 DEF Acks
    <3>5. o = x
      <4>1. Append(<<>>, o) = Append(<<>>, x)
        BY <1>2, <3>3, <3>4
      <4> QED BY <4>1
    <3> QED BY <1>1, <3>1, <3>3, <3>4, <3>5
  <2> HIDE DEF t
  <2>3. t.nxt = k.nxt + 1
    BY <2>2 DEF Emitted
  <2> QED BY <1>1, <1>2, <2>2, <2>3
<1> HIDE DEF t
<1>4. PICK o \in Made(k, "DATA") :
            /\ "ACK" \in o.flags
            /\ t.out = Append(<<>>, o) /\ t.nbq = Append(s.nbq, o)
  BY <1>3
<1>5. /\ o \in Segment /\ o.seq = s.nxt /\ o.win = s.rxWin /\ o.ack \in {0, s.rxNxt}
      /\ o.data = TRUE /\ o.flags = {"ACK"}
  <2>1. /\ o \in Segment /\ o.seq = s.nxt /\ o.win = s.rxWin /\ o.ack \in {0, s.rxNxt}
        /\ "RST" \notin o.flags /\ "SYN" \notin o.flags /\ "FIN" \notin o.flags
    BY <1>2 DEF Made
  <2>2. o.data
    BY DEF Made
  <2>3. o.data \in BOOLEAN /\ o.flags \subseteq {"SYN", "FIN", "ACK", "RST"}
    BY <2>1, SegmentFields
  <2>4. o.data = TRUE
    BY <2>2, <2>3
  <2>5. o.flags = {"ACK"}
    BY <1>4, <2>1, <2>3
  <2> QED BY <2>1, <2>4, <2>5
<1>6. /\ t.rxNxt = s.rxNxt /\ t.rxWin = s.rxWin /\ t.nxt = s.nxt + 1 /\ t.state = "ESTABLISHED"
      /\ t.una = s.una /\ t.win = s.win /\ t.app = "user"
  BY <1>1, <1>2, <1>3 DEF Same, Names
<1>7. /\ s.una \in Nat /\ s.nxt \in Nat /\ s.una <= s.nxt /\ s.win \in Nat
      /\ s.rxNxt \in Nat /\ s.rxWin \in Nat
  BY <1>0, Numbers
<1>8. Grows(s, t)
  BY <1>6, <1>7 DEF Grows
<1>9. sock[Peer(e)].state # "GONE" => Knows(t, sock[Peer(e)]) /\ o.seq < Edge(sock[Peer(e)])
  <2> SUFFICES ASSUME sock[Peer(e)].state # "GONE"
               PROVE  Knows(t, sock[Peer(e)]) /\ o.seq < Edge(sock[Peer(e)])
    OBVIOUS
  <2>1. Knows(s, sock[Peer(e)])
    BY <1>0, KnowsStill
  <2>2. s.nxt < s.una + s.win
    BY <1>7 DEF WindowOpen
  <2>3. sock[Peer(e)].rxNxt \in Nat /\ sock[Peer(e)].rxWin \in Nat
    BY PeerIs, RestsIs, Numbers
  <2>4. Edge(sock[Peer(e)]) \in Nat
    BY <2>3 DEF Edge
  <2>5. Knows(t, sock[Peer(e)])
    BY <1>6, <2>1 DEF Knows
  <2> QED BY <1>5, <1>7, <2>1, <2>2, <2>4, <2>5 DEF Knows
<1>10. Fresh(e, t, o)
  <2>1. Sound(e, o)
    BY <1>5 DEF Sound
  <2>2. Offers(t, o)
    BY <1>5, <1>6, <1>7 DEF Offers, Edge
  <2> QED BY <1>9, <2>1, <2>2 DEF Fresh
<1>11. ASSUME NEW x, Member(t.out, x) \/ Member(t.nbq, x)
       PROVE  Theirs(e, x) \/ Fresh(e, t, x)
  <2>1. s.nbq \in Seq(Segment) /\ <<>> \in Seq(Segment)
    BY <1>0 DEF Typed, Fields
  <2>2. Member(<<>>, x) \/ Member(s.nbq, x) \/ x = o
    <3>1. Member(Append(<<>>, o), x) => Member(<<>>, x) \/ x = o
      BY <1>5, <2>1, AppendMember
    <3>2. Member(Append(s.nbq, o), x) => Member(s.nbq, x) \/ x = o
      BY <1>5, <2>1, AppendMember
    <3> QED BY <1>4, <1>11, <3>1, <3>2
  <2>3. ~Member(<<>>, x)
    BY DEF Member
  <2> QED BY <1>10, <2>2, <2>3 DEF Theirs
<1>12. Good(e, t)
  <2>1. Same(s, t, IdleFields)
    BY <1>1, <1>3 DEF Same, Names, IdleFields
  <2>2. s.app \notin {"start", "closed"}
    BY <1>0 DEF ControlOf, ClosedByUs
  <2>3. ControlOf(e, s.state, "user", Stage(s))
    BY <1>0, <2>2, ControlUser
  <2> QED BY <1>0, <1>6, <2>1, <2>2, <2>3, GoodStill
<1>13. Good(e, Quiet(t))
  BY <1>3, <1>12, GoodQuiet
<1>14. Allowed(e, t)
  BY <1>3, <1>6, <1>8, <1>9, <1>11, <1>13 DEF Allowed
<1> QED BY <1>14 DEF t, k

LEMMA SendProgress ==
    ASSUME TcpInv, NEW e \in Node, NutTcpSend(e)
    PROVE  Progress
<1> DEFINE s == sock[e]
<1>0. /\ s.app \in {"user", "txw"} /\ ControlOf(e, s.state, s.app, Stage(s))
      /\ "user" \in AppPlace /\ "tx" \in AppPlace
  BY RestsIs DEF NutTcpSend, AppPlace
<1>1. s.app \notin {"start", "closed"}
  BY <1>0
<1>2. CASE s.state # "ESTABLISHED"
  <2>1. App(e, [s EXCEPT !.app = "user"])
    BY <1>2 DEF NutTcpSend
  <2>2. ControlOf(e, s.state, "user", Stage(s))
    BY <1>0, <1>1, ControlUser
  <2>3. Allowed(e, [s EXCEPT !.app = "user"])
    BY <1>0, <1>1, <2>2, PlaceAllowed
  <2> QED BY <2>1, <2>3, AppProgress
<1>3. CASE s.state = "ESTABLISHED" /\ WindowOpen(s)
  <2>1. App(e, NutTcpOutput(Sending(s), "DATA"))
    BY <1>3 DEF NutTcpSend, Sending
  <2> QED BY <1>3, <2>1, DataAllowed, AppProgress
<1>4. CASE s.state = "ESTABLISHED" /\ ~WindowOpen(s)
  <2>1. App(e, [s EXCEPT !.app = "tx"])
    BY <1>4 DEF NutTcpSend
  <2>2. ControlOf(e, s.state, "tx", Stage(s))
    BY <1>0, <1>1, <1>4, ControlUser
  <2>3. Allowed(e, [s EXCEPT !.app = "tx"])
    BY <1>0, <1>1, <2>2, PlaceAllowed
  <2> QED BY <2>1, <2>3, AppProgress
<1> QED BY <1>2, <1>3, <1>4

\* The application copies the first bytes of the input buffer.
Drawn(s, n) ==
    [s EXCEPT !.read = @ \o SubSeq(s.rxBuf, 1, n), !.rxCnt = @ - n,
              !.rxBuf = SubSeq(@, n + 1, Len(@)), !.app = "user"]

LEMMA SubSeqIs ==
    ASSUME NEW q \in Seq(Nat), NEW i \in Nat \ {0}, NEW j \in Nat, j <= Len(q), i <= j + 1
    PROVE  /\ SubSeq(q, i, j) \in Seq(Nat) /\ Len(SubSeq(q, i, j)) = j - i + 1
           /\ \A k \in 1 .. (j - i + 1) : SubSeq(q, i, j)[k] = q[i + k - 1]
<1>1. \A k \in 1 .. (j - i + 1) : i + k - 1 \in 1 .. Len(q)
  OBVIOUS
<1>2. \A k \in 1 .. (j - i + 1) : q[i + k - 1] \in Nat
  BY <1>1
<1> QED BY <1>1, <1>2

LEMMA DrawnIs ==
    ASSUME NEW s, Typed(s), NEW n \in 1 .. s.rxCnt, n <= Len(s.rxBuf)
    PROVE  LET t == Drawn(s, n)
           IN  /\ Typed(t) /\ Same(s, t, {"read", "rxCnt", "rxBuf", "app"}) /\ t.app = "user"
               /\ t.read = s.read \o SubSeq(s.rxBuf, 1, n)
               /\ t.rxBuf = SubSeq(s.rxBuf, n + 1, Len(s.rxBuf))
<1> DEFINE t == Drawn(s, n)
<1>1. Shaped(t) /\ Record(t)
  BY Zenon DEF Typed, Shaped, Record, Drawn
<1>2. /\ Same(s, t, {"read", "rxCnt", "rxBuf", "app"}) /\ t.app = "user"
      /\ t.read = s.read \o SubSeq(s.rxBuf, 1, n) /\ t.rxCnt = s.rxCnt - n
      /\ t.rxBuf = SubSeq(s.rxBuf, n + 1, Len(s.rxBuf))
  BY DEF Typed, Shaped, Names, Same, Drawn
<1> HIDE DEF t
<1>3. s.rxBuf \in Seq(Nat) /\ s.read \in Seq(Nat) /\ s.rxCnt \in Nat
  BY DEF Typed, Fields
<1>4. Len(s.rxBuf) \in Nat /\ n \in Nat /\ n >= 1
  BY <1>3
<1>5. SubSeq(s.rxBuf, 1, n) \in Seq(Nat) /\ SubSeq(s.rxBuf, n + 1, Len(s.rxBuf)) \in Seq(Nat)
  BY <1>3, <1>4, SubSeqIs
<1>6. t.read \in Seq(Nat) /\ t.rxBuf \in Seq(Nat) /\ t.rxCnt \in Nat
  BY <1>2, <1>3, <1>5
<1>7. Fields(t) /\ Ordered(t)
  BY <1>2, <1>6 DEF Same, Fields, Ordered, Names, Typed, AppPlace
<1>8. Typed(t)
  BY <1>1, <1>7 DEF Typed
<1> QED BY <1>2, <1>8 DEF t

\* Bytes move from the input buffer to what has been read.
LEMMA TidyMoved ==
    ASSUME NEW s, NEW t, Typed(s), Tidy(s),
           t.skew = s.skew, t.rxIsn = s.rxIsn, t.rxNxt = s.rxNxt, t.state = s.state,
           Len(t.read) + Len(t.rxBuf) = Len(s.read) + Len(s.rxBuf),
           Len(t.read) \in Nat, Len(t.rxBuf) \in Nat,
           s.skew = FALSE =>
              /\ \A k \in DOMAIN t.read : t.read[k] = s.rxIsn + k
              /\ \A k \in DOMAIN t.rxBuf : t.rxBuf[k] = s.rxIsn + Len(t.read) + k
    PROVE  Tidy(t)
<1>1. s.rxIsn \in Nat /\ Len(s.read) \in Nat /\ Len(s.rxBuf) \in Nat
  <2>1. s.rxIsn \in Nat /\ s.read \in Seq(Nat) /\ s.rxBuf \in Seq(Nat)
    BY DEF Typed, Fields
  <2> QED BY <2>1
<1>2. /\ s.rxIsn + Len(s.read) + Len(s.rxBuf) + 1 = s.rxIsn + Len(t.read) + Len(t.rxBuf) + 1
      /\ s.rxIsn + Len(s.read) + Len(s.rxBuf) + 2 = s.rxIsn + Len(t.read) + Len(t.rxBuf) + 2
  <2> DEFINE i == s.rxIsn
             x == Len(t.read)
             y == Len(t.rxBuf)
             v == Len(s.read)
             w == Len(s.rxBuf)
  <2>1. i \in Nat /\ x \in Nat /\ y \in Nat /\ v \in Nat /\ w \in Nat /\ x + y = v + w
    BY <1>1
  <2> HIDE DEF i, x, y, v, w
  <2>2. i + v + w + 1 = i + x + y + 1 /\ i + v + w + 2 = i + x + y + 2
    BY <2>1
  <2> QED BY <2>2 DEF i, x, y, v, w
<1> QED BY <1>2, Zenon DEF Tidy

\* What has been copied goes on from what has been read.
LEMMA DrawnTidy ==
    ASSUME NEW s, NEW t, Typed(s), Tidy(s), s.app # "closed", NEW n \in Nat, n <= Len(s.rxBuf),
           t.read = s.read \o SubSeq(s.rxBuf, 1, n),
           t.rxBuf = SubSeq(s.rxBuf, n + 1, Len(s.rxBuf)),
           t.skew = s.skew, t.rxIsn = s.rxIsn, t.rxNxt = s.rxNxt, t.state = s.state
    PROVE  /\ Tidy(t)
           /\ Len(t.rxBuf) = Len(s.rxBuf) - n
<1> DEFINE b == s.rxBuf
           r == s.read
           c == t.rxBuf
           d == t.read
           p == SubSeq(b, 1, n)
           i0 == s.rxIsn
<1>1. b \in Seq(Nat) /\ r \in Seq(Nat) /\ i0 \in Nat
  BY DEF Typed, Fields
<1>2. d = r \o p /\ c = SubSeq(b, n + 1, Len(b)) /\ n <= Len(b)
  OBVIOUS
<1> HIDE DEF b, r, c, d, i0
<1>3. /\ p \in Seq(Nat) /\ Len(p) = n /\ \A k \in 1 .. n : p[k] = b[k]
      /\ c \in Seq(Nat) /\ Len(c) = Len(b) - n /\ \A k \in 1 .. (Len(b) - n) : c[k] = b[n + k]
  <2>1. Len(b) \in Nat /\ 1 \in Nat \ {0} /\ n + 1 \in Nat \ {0}
    BY <1>1
  <2>2. /\ p \in Seq(Nat) /\ Len(p) = n - 1 + 1 /\ \A k \in 1 .. (n - 1 + 1) : p[k] = b[1 + k - 1]
    BY <1>1, <1>2, <2>1, SubSeqIs
  <2>3. /\ c \in Seq(Nat) /\ Len(c) = Len(b) - (n + 1) + 1
        /\ \A k \in 1 .. (Len(b) - (n + 1) + 1) : c[k] = b[(n + 1) + k - 1]
    BY <1>1, <1>2, <2>1, SubSeqIs
  <2>4. /\ n - 1 + 1 = n /\ Len(b) - (n + 1) + 1 = Len(b) - n
        /\ \A k \in Nat : 1 + k - 1 = k /\ (n + 1) + k - 1 = n + k
    BY <2>1
  <2> QED BY <2>2, <2>3, <2>4
<1> HIDE DEF p
<1>4. /\ d \in Seq(Nat) /\ Len(d) = Len(r) + n
      /\ \A k \in 1 .. Len(d) : d[k] = IF k <= Len(r) THEN r[k] ELSE p[k - Len(r)]
  BY <1>1, <1>2, <1>3
<1>5. ASSUME s.skew = FALSE
      PROVE  /\ \A k \in DOMAIN d : d[k] = i0 + k
             /\ \A k \in DOMAIN c : c[k] = i0 + Len(d) + k
  <2>1. /\ \A k \in DOMAIN r : r[k] = i0 + k
        /\ \A k \in DOMAIN b : b[k] = i0 + Len(r) + k
    BY <1>5 DEF Tidy, r, b, i0
  <2>2. Len(r) \in Nat /\ Len(b) \in Nat /\ DOMAIN r = 1 .. Len(r) /\ DOMAIN b = 1 .. Len(b)
        /\ DOMAIN d = 1 .. Len(d) /\ DOMAIN c = 1 .. Len(c)
    BY <1>1, <1>3, <1>4
  <2>3. ASSUME NEW k \in DOMAIN d PROVE d[k] = i0 + k
    <3>1. CASE k <= Len(r)
      BY <1>4, <2>1, <2>2, <2>3, <3>1
    <3>2. CASE ~(k <= Len(r))
      <4>0. k \in 1 .. Len(d) /\ Len(d) = Len(r) + n /\ Len(r) \in Nat /\ Len(b) \in Nat
            /\ n <= Len(b)
        BY <1>2, <1>4, <2>2, <2>3, Zenon
      <4>1. k - Len(r) \in 1 .. n /\ k - Len(r) \in 1 .. Len(b)
        BY <4>0, <3>2
      <4>2. d[k] = b[k - Len(r)]
        BY <1>3, <1>4, <2>2, <2>3, <3>2, <4>1
      <4>3. b[k - Len(r)] = i0 + Len(r) + (k - Len(r))
        BY <2>1, <2>2, <4>1
      <4> QED BY <1>1, <2>2, <2>3, <4>2, <4>3
    <3> QED BY <3>1, <3>2
  <2>4. ASSUME NEW k \in DOMAIN c PROVE c[k] = i0 + Len(d) + k
    <3>1. n + k \in 1 .. Len(b) /\ k \in 1 .. (Len(b) - n)
      BY <1>3, <2>2, <2>4
    <3>2. c[k] = b[n + k]
      BY <1>3, <3>1
    <3>3. b[n + k] = i0 + Len(r) + (n + k)
      BY <2>1, <2>2, <3>1
    <3> QED BY <1>1, <1>4, <2>2, <2>4, <3>1, <3>2, <3>3
  <2> QED BY <2>3, <2>4
<1>6. Len(d) + Len(c) = Len(r) + Len(b) /\ Len(d) \in Nat /\ Len(c) \in Nat
      /\ Len(r) \in Nat /\ Len(b) \in Nat
  BY <1>1, <1>3, <1>4
<1>7. Tidy(t)
  <2>1. Len(t.read) + Len(t.rxBuf) = Len(s.read) + Len(s.rxBuf)
        /\ Len(t.read) \in Nat /\ Len(t.rxBuf) \in Nat
    BY <1>6 DEF b, r, c, d
  <2>2. s.skew = FALSE =>
           /\ \A k \in DOMAIN t.read : t.read[k] = s.rxIsn + k
           /\ \A k \in DOMAIN t.rxBuf : t.rxBuf[k] = s.rxIsn + Len(t.read) + k
    BY <1>5, Zenon DEF c, d, i0
  <2> QED BY <2>1, <2>2, TidyMoved, Zenon
<1> QED BY <1>3, <1>7 DEF b, c

\* NutTcpReceive opens the window.
LEMMA WidenedIs ==
    ASSUME NEW s, Typed(s), NEW w \in 0 .. WinSize, s.rxWin <= w
    PROVE  LET t == [s EXCEPT !.rxWin = w]
           IN  Goes(s, t) /\ Same(s, t, {"rxWin"}) /\ t.rxWin = w
<1> DEFINE t == [s EXCEPT !.rxWin = w]
<1>1. Shaped(t) /\ Record(t)
  BY Zenon DEF Typed, Shaped, Record
<1>2. Same(s, t, {"rxWin"}) /\ t.rxWin = w
  BY DEF Typed, Shaped, Names, Same
<1> HIDE DEF t
<1>3. Fields(t) /\ Ordered(t)
  BY <1>2 DEF Same, Fields, Ordered, Names, Typed
<1>4. Typed(t)
  BY <1>1, <1>3 DEF Typed
<1>5. t.out = s.out /\ t.nbq = s.nbq /\ t.rxNxt = s.rxNxt /\ t.nxt = s.nxt
  BY <1>2 DEF Same, Names
<1>6. Grows(s, t)
  <2>1. s.nxt \in Nat /\ s.rxNxt \in Nat /\ s.rxWin \in Nat /\ w \in Nat
    BY Numbers, TcpAssumption
  <2>2. s.rxNxt + s.rxWin <= s.rxNxt + w
    BY <2>1
  <2> QED BY <1>2, <1>5, <2>1, <2>2 DEF Grows
<1>7. Goes(s, t)
  BY <1>4, <1>5, <1>6, GoesQuietly
<1> QED BY <1>2, <1>7 DEF t

\* The window opens by no more than is taken out of the buffer.
LEMMA WidenedRoom ==
    ASSUME NEW s, NEW k, Typed(s), Typed(k), Room(s), s.app # "closed", k.app # "closed",
           Same(s, k, {"read", "rxCnt", "rxBuf", "app", "rxWin"}),
           NEW n \in Nat, n <= Len(s.rxBuf), Len(k.rxBuf) = Len(s.rxBuf) - n,
           s.rxWin <= k.rxWin, k.rxWin <= s.rxWin + n
    PROVE  Room(k)
<1>1. k.adv = s.adv /\ k.rxNxt = s.rxNxt /\ k.state = s.state /\ k.sm = s.sm
  BY DEF Same, Names
<1>2. /\ s.rxNxt \in Nat /\ s.rxWin \in Nat /\ k.rxWin \in Nat /\ WinSize \in Nat
      /\ Len(s.rxBuf) \in Nat /\ Len(s.adv) \in Nat
  <2>1. s.rxBuf \in Seq(Nat) /\ s.adv \in Seq(Segment)
    BY DEF Typed, Fields
  <2>2. Len(s.rxBuf) \in Nat /\ Len(s.adv) \in Nat
    BY <2>1
  <2>3. s.rxNxt \in Nat /\ s.rxWin \in Nat /\ k.rxWin \in Nat
    BY Numbers, Zenon
  <2>4. WinSize \in Nat
    BY TcpAssumption
  <2> QED BY <2>2, <2>3, <2>4
<1>3. Fits(k)
  <2>1. Len(s.rxBuf) + s.rxWin <= WinSize /\ Len(s.adv) <= s.rxWin
    BY DEF Room, Fits
  <2>2. (Len(s.rxBuf) - n) + k.rxWin <= WinSize /\ Len(s.adv) <= k.rxWin
    BY <1>2, <2>1
  <2> QED BY <1>1, <2>2 DEF Fits
<1>4. Edge(s) <= Edge(k)
  BY <1>1, <1>2 DEF Edge
<1>5. Edge(s) \in Nat /\ Edge(k) \in Nat
  BY <1>1, <1>2 DEF Edge
<1>6. \A i \in DOMAIN k.adv : k.adv[i].seq \in Nat
  <2>1. k.adv \in Seq(Segment)
    BY DEF Typed, Fields
  <2> QED BY <2>1, QueueFields
<1>7. /\ Within(s) => Within(k)
      /\ Beyond(s) => Beyond(k)
  BY <1>1, <1>4, <1>5, <1>6 DEF Within, Beyond
<1>8. At(k, "absorb") <=> At(s, "absorb")
  BY <1>1 DEF At
<1> QED BY <1>1, <1>3, <1>7, <1>8 DEF Room

\* NutTcpReceive copies n bytes.
LEMMA CopiedAllowed ==
    ASSUME TcpInv, NEW e \in Node, NEW n \in 1 .. sock[e].rxCnt, n <= Len(sock[e].rxBuf),
           sock[e].app \in {"user", "rxw"}, sock[e].state \notin Opening
    PROVE  Allowed(e, Copied(sock[e], n))
<1> DEFINE s == sock[e]
           k == Drawn(s, n)
           w == IF s.rxWin + n > WinSize THEN WinSize ELSE s.rxWin + n
           t == Copied(s, n)
<1>0. /\ Typed(s) /\ Good(e, s) /\ Tidy(s) /\ Room(s)
      /\ ControlOf(e, s.state, s.app, Stage(s))
  BY RestsIs
<1>1. /\ s.rxWin \in Nat /\ s.rxWin <= WinSize /\ WinSize \in Nat /\ s.rxCnt \in Nat /\ n \in Nat
  <2>1. s.rxWin \in 0 .. WinSize /\ s.rxCnt \in Nat
    BY <1>0 DEF Typed, Fields
  <2>2. WinSize \in Nat
    BY TcpAssumption
  <2> QED BY <2>1, <2>2
<1>2. s.app \notin {"start", "closed"} /\ s.state # "GONE"
  BY <1>0 DEF ControlOf
<1>3. /\ Typed(k) /\ Same(s, k, {"read", "rxCnt", "rxBuf", "app"}) /\ k.app = "user"
      /\ k.read = s.read \o SubSeq(s.rxBuf, 1, n)
      /\ k.rxBuf = SubSeq(s.rxBuf, n + 1, Len(s.rxBuf))
  BY <1>0, DrawnIs
<1>4. w \in 0 .. WinSize /\ s.rxWin <= w /\ w <= s.rxWin + n
  BY <1>1
<1>5. t \in {k, [k EXCEPT !.rxWin = w], ForceAck([k EXCEPT !.rxWin = w])}
  BY DEF Copied, Drawn
<1> HIDE DEF k, w, t
<1>6. Goes(s, k)
  <2>1. {"read", "rxCnt", "rxBuf", "app"} \cap {"out", "nbq", "nxt", "rxNxt", "rxWin"} = {}
    OBVIOUS
  <2> QED BY <1>0, <1>3, <2>1, GoesSame
<1> DEFINE Widened(x) ==
              /\ Goes(s, x) /\ Typed(x) /\ Same(s, x, {"read", "rxCnt", "rxBuf", "app", "rxWin"})
              /\ s.rxWin <= x.rxWin /\ x.rxWin <= s.rxWin + n
              /\ x.app = "user" /\ x.read = k.read /\ x.rxBuf = k.rxBuf
<1>7. Widened(k)
  <2>1. k.rxWin = s.rxWin /\ Same(s, k, {"read", "rxCnt", "rxBuf", "app", "rxWin"})
    BY <1>3 DEF Same, Names
  <2>2. s.rxWin <= s.rxWin /\ s.rxWin <= s.rxWin + n
    BY <1>1
  <2> QED BY <1>3, <1>6, <2>1, <2>2
<1>8. Widened([k EXCEPT !.rxWin = w])
  <2> DEFINE x == [k EXCEPT !.rxWin = w]
  <2>1. k.rxWin = s.rxWin
    BY <1>3 DEF Same, Names
  <2>2. Goes(k, x) /\ Same(k, x, {"rxWin"}) /\ x.rxWin = w
    BY <1>3, <1>4, <2>1, WidenedIs
  <2> HIDE DEF x
  <2>3. Goes(s, x) /\ Typed(x)
    BY <1>0, <1>6, <2>2, GoesTrans DEF Goes
  <2>4. /\ Same(s, x, {"read", "rxCnt", "rxBuf", "app", "rxWin"})
        /\ x.app = "user" /\ x.read = k.read /\ x.rxBuf = k.rxBuf
    BY <1>3, <2>2 DEF Same, Names
  <2>5. Widened(x)
    BY <1>4, <2>2, <2>3, <2>4
  <2> QED BY <2>5 DEF x
<1>9. PICK x : Widened(x) /\ t \in {x, ForceAck(x)}
  BY <1>5, <1>7, <1>8
<1>10. /\ x.state = s.state /\ x.sm = s.sm /\ x.una = s.una /\ x.win = s.win /\ x.adv = s.adv
       /\ x.nbq = s.nbq /\ x.skew = s.skew /\ x.rxIsn = s.rxIsn /\ x.rxNxt = s.rxNxt
  BY <1>9 DEF Same, Names
<1>11. Good(e, x)
  <2>1. Control(e, x)
    <3>1. ControlOf(e, s.state, "user", Stage(s))
      BY <1>0, <1>2, ControlUser
    <3>2. x.app = "user" /\ Stage(x) = Stage(s)
      BY <1>9, <1>10 DEF Stage
    <3> QED BY <1>10, <3>1, <3>2 DEF Control
  <2>2. Blank(x)
    <3>1. x.app = "user"
      BY <1>9
    <3> QED BY <1>2, <1>10, <3>1 DEF Blank, Opening
  <2>3. /\ x.read = s.read \o SubSeq(s.rxBuf, 1, n)
        /\ x.rxBuf = SubSeq(s.rxBuf, n + 1, Len(s.rxBuf))
    BY <1>3, <1>9
  <2>4. Tidy(x) /\ Len(x.rxBuf) = Len(s.rxBuf) - n
    BY <1>0, <1>1, <1>2, <1>10, <2>3, DrawnTidy
  <2>5. Room(x)
    <3>1. x.app # "closed"
      BY <1>9
    <3> QED BY <1>0, <1>1, <1>2, <1>9, <2>4, <3>1, WidenedRoom
  <2> QED BY <2>1, <2>2, <2>4, <2>5 DEF Good
<1>12. /\ Goes(s, t) /\ Typed(t) /\ Good(e, t) /\ t.una = s.una /\ t.win = s.win
       /\ t.state = s.state
  <2>1. CASE t = x
    BY <1>9, <1>10, <1>11, <2>1
  <2>2. CASE t = ForceAck(x)
    <3>1. Goes(x, t) /\ Same(x, t, {"ack", "force", "out"})
      BY <1>9, <2>2, ForceAckGoes
    <3>2. Goes(s, t) /\ Typed(t)
      BY <1>0, <1>9, <3>1, GoesTrans DEF Goes
    <3>3. /\ Same(x, t, IdleFields) /\ t.app = x.app /\ t.state = x.state /\ t.una = x.una
          /\ t.win = x.win /\ t.nbq = x.nbq
      BY <3>1 DEF Same, Names, IdleFields
    <3>4. ControlOf(e, x.state, x.app, Stage(x))
      BY <1>11 DEF Good, Control
    <3>5. Good(e, t)
      BY <1>9, <1>11, <3>3, <3>4, GoodStill
    <3> QED BY <1>10, <3>2, <3>3, <3>5
  <2> QED BY <1>9, <2>1, <2>2
<1>13. Good(e, Quiet(t))
  BY <1>12, GoodQuiet
<1>14. Allowed(e, t)
  BY <1>12, <1>13, GoesAllowed
<1> QED BY <1>14 DEF t

LEMMA ReceiveCallProgress ==
    ASSUME TcpInv, NEW e \in Node, NutTcpReceive(e)
    PROVE  Progress
<1> DEFINE s == sock[e]
<1>0. /\ ControlOf(e, s.state, s.app, Stage(s)) /\ s.app \in {"user", "rxw"}
      /\ s.app = "user" => s.state \in {"ESTABLISHED", "CLOSE_WAIT"}
      /\ {"user", "rx", "fault"} \subseteq AppPlace
  BY RestsIs DEF NutTcpReceive, AppPlace
<1>1. s.app \notin {"start", "closed"} /\ s.state \notin Opening
  BY <1>0 DEF ControlOf, Opening
<1>2. ASSUME NEW a \in {"user", "rx", "fault"}, App(e, [s EXCEPT !.app = a]),
             a = "rx" => s.state = "ESTABLISHED"
      PROVE  Progress
  <2>1. ControlOf(e, s.state, a, Stage(s))
    BY <1>0, <1>1, <1>2, ControlUser
  <2>2. Allowed(e, [s EXCEPT !.app = a])
    BY <1>0, <1>1, <2>1, PlaceAllowed
  <2> QED BY <1>2, <2>2, AppProgress
<1>3. CASE s.rxCnt = 0
  <2>1. PICK a \in {"user", "rx"} :
           App(e, [s EXCEPT !.app = a]) /\ (a = "rx" => s.state = "ESTABLISHED")
    BY <1>3 DEF NutTcpReceive
  <2> QED BY <1>2, <2>1
<1>4. CASE s.rxCnt # 0
  <2>1. PICK n \in 1 .. s.rxCnt :
           App(e, IF n > Len(s.rxBuf) THEN [s EXCEPT !.app = "fault"] ELSE Copied(s, n))
    BY <1>4 DEF NutTcpReceive
  <2>2. CASE n > Len(s.rxBuf)
    <3>1. App(e, [s EXCEPT !.app = "fault"])
      BY <2>1, <2>2
    <3> QED BY <1>2, <3>1
  <2>3. CASE ~(n > Len(s.rxBuf))
    <3>1. App(e, Copied(s, n))
      BY <2>1, <2>3
    <3>2. n <= Len(s.rxBuf)
      <4>1. s.rxBuf \in Seq(Nat) /\ s.rxCnt \in Nat
        BY RestsIs DEF Typed, Fields
      <4> QED BY <2>3, <4>1
    <3>3. Allowed(e, Copied(s, n))
      BY <1>0, <1>1, <3>2, CopiedAllowed
    <3> QED BY <3>1, <3>3, AppProgress
  <2> QED BY <2>2, <2>3
<1> QED BY <1>3, <1>4

LEMMA ControlClose ==
    ASSUME NEW e \in Node, NEW x, NEW a, NEW p, ControlOf(e, x, a, p), a \in {"user", "failed"}
    PROVE  /\ x \notin ClosedByUs \cup {"GONE"}
           /\ x \in {"LISTEN", "SYN_SENT", "CLOSED"} => ControlOf(e, "GONE", "closed", p)
           /\ x \in {"SYN_RECEIVED", "ESTABLISHED"} => ControlOf(e, "FIN_WAIT_1", "closed", p)
           /\ x = "CLOSE_WAIT" => ControlOf(e, "LAST_ACK", "closed", p)
           /\ x \in {"LISTEN", "SYN_SENT"} =>
                 p \notin {"absorb", "post", "finish", "closewait", "opened", "synacked", "finwait"}
  BY DEF ControlOf, Opening, ClosedByUs

\* The application closes a connection: a FIN is sent.
LEMMA CloseChangeAllowed ==
    ASSUME TcpInv, NEW e \in Node, sock[e].app \in {"user", "failed"},
           NEW x, \/ x = "FIN_WAIT_1" /\ sock[e].state \in {"SYN_RECEIVED", "ESTABLISHED"}
                  \/ x = "LAST_ACK" /\ sock[e].state = "CLOSE_WAIT"
    PROVE  Allowed(e, NutTcpStateChange([sock[e] EXCEPT !.app = "closed"], x))
<1> DEFINE s == sock[e]
           k == [s EXCEPT !.app = "closed"]
           t == NutTcpStateChange(k, x)
<1>0. /\ Typed(s) /\ Good(e, s) /\ Tidy(s) /\ Room(s)
      /\ ControlOf(e, s.state, s.app, Stage(s)) /\ "closed" \in AppPlace
  BY RestsIs DEF AppPlace
<1>1. x \in State \ {"SYN_SENT", "SYN_RECEIVED"} /\ Follows(s.state, x) /\ x \in ClosedByUs
  BY DEF State, ClosedByUs, Follows
<1>2. ControlOf(e, x, "closed", Stage(s))
  BY <1>0, ControlClose
<1>3. Goes(s, k) /\ Typed(k) /\ Same(s, k, {"app"}) /\ k.app = "closed"
  BY <1>0, SetAppIs
<1> HIDE DEF k
<1>4. k.state = s.state
  BY <1>3 DEF Same, Names
<1>5. Goes(k, t) /\ Same(k, t, {"state", "ack", "force", "out", "nxt", "nbq"}) /\ t.state = x
  BY <1>1, <1>3, <1>4, StateChangeGoes
<1> HIDE DEF t
<1>6. Goes(s, t) /\ Typed(t)
  BY <1>0, <1>3, <1>5, GoesTrans DEF Goes
<1>7. /\ t.app = "closed" /\ t.sm = s.sm /\ t.una = s.una /\ t.win = s.win /\ t.adv = s.adv
      /\ t.rxNxt = s.rxNxt /\ t.rxWin = s.rxWin
      /\ Same(s, t, {"app", "state", "ack", "force", "out", "nxt", "nbq"})
  BY <1>3, <1>5 DEF Same, Names
<1>8. Good(e, t)
  <2>1. Control(e, t)
    <3>1. Stage(t) = Stage(s)
      BY <1>7 DEF Stage
    <3> QED BY <1>2, <1>5, <1>7, <3>1 DEF Control
  <2>2. Blank(t)
    BY <1>1, <1>5, <1>7 DEF Blank, Opening, ClosedByUs
  <2>3. Tidy(t)
    <3>1. {"app", "state", "ack", "force", "out", "nxt", "nbq"} \cap StreamFields = {}
      BY DEF StreamFields
    <3>2. t.state \notin {"SYN_RECEIVED", "ESTABLISHED", "CLOSE_WAIT"}
      BY <1>1, <1>5 DEF ClosedByUs
    <3> QED BY <1>0, <1>7, <3>1, <3>2, TidySame
  <2>4. Room(t)
    <3>1. s.app # "closed"
      OBVIOUS
    <3>2. Len(s.adv) <= s.rxWin
      BY <1>0, <3>1 DEF Room, Fits
    <3>3. s.rxWin \in 0 .. WinSize /\ s.adv \in Seq(Segment)
      BY <1>0 DEF Typed, Fields
    <3>4. WinSize \in Nat /\ Len(s.adv) \in Nat
      BY <3>3, TcpAssumption
    <3>5. Len(s.adv) <= WinSize
      BY <3>2, <3>3, <3>4
    <3>6. Fits(t)
      BY <1>7, <3>5 DEF Fits
    <3>7. t.state # "ESTABLISHED"
      BY <1>1, <1>5 DEF ClosedByUs
    <3> QED BY <3>6, <3>7 DEF Room
  <2> QED BY <2>1, <2>2, <2>3, <2>4 DEF Good
<1>9. Good(e, Quiet(t))
  BY <1>6, <1>8, GoodQuiet
<1>10. t.state # "GONE" /\ s.state # "GONE"
  BY <1>1, <1>5 DEF ClosedByUs
<1>11. Allowed(e, t)
  BY <1>6, <1>7, <1>9, <1>10, GoesAllowed
<1> QED BY <1>11 DEF t, k

LEMMA CloseProgress ==
    ASSUME TcpInv, NEW e \in Node, NutTcpCloseSocket(e)
    PROVE  Progress
<1> DEFINE s == sock[e]
           k == [s EXCEPT !.app = "closed"]
<1>0. /\ Typed(s) /\ Tidy(s) /\ s.out = <<>> /\ s.app \in {"user", "failed"}
      /\ ControlOf(e, s.state, s.app, Stage(s)) /\ "closed" \in AppPlace
  BY RestsIs DEF AppPlace, NutTcpCloseSocket
<1>1. Goes(s, k) /\ Typed(k) /\ Same(s, k, {"app"}) /\ k.app = "closed"
  BY <1>0, SetAppIs
<1>2. App(e, CASE k.state \in {"LISTEN", "SYN_SENT", "CLOSED"} -> NutTcpDestroySocket(k)
               [] k.state \in {"SYN_RECEIVED", "ESTABLISHED"} -> NutTcpStateChange(k, "FIN_WAIT_1")
               [] k.state = "CLOSE_WAIT" -> NutTcpStateChange(k, "LAST_ACK"))
  BY DEF NutTcpCloseSocket
<1>3. /\ s.state \notin ClosedByUs \cup {"GONE"} /\ s.state \in State
      /\ s.sm \in Place \cup {NIL}
  <2>1. s.state \notin ClosedByUs \cup {"GONE"}
    BY <1>0, ControlClose
  <2> QED BY <1>0, <2>1 DEF Typed, Fields
<1>4. ASSUME NEW x, \/ x = "FIN_WAIT_1" /\ s.state \in {"SYN_RECEIVED", "ESTABLISHED"}
                    \/ x = "LAST_ACK" /\ s.state = "CLOSE_WAIT"
      PROVE  Allowed(e, NutTcpStateChange(k, x))
  BY <1>0, <1>4, CloseChangeAllowed
<1> HIDE DEF k
<1>5. k.state = s.state /\ k.sm = s.sm /\ k.nbq = s.nbq /\ k.out = s.out
  BY <1>1 DEF Same, Names
<1>6. CASE s.state \in {"LISTEN", "SYN_SENT", "CLOSED"}
  <2>1. App(e, NutTcpDestroySocket(k))
    BY <1>2, <1>5, <1>6
  <2>2. ControlOf(e, "GONE", k.app, Stage(k))
    <3>1. Stage(k) = Stage(s)
      BY <1>5 DEF Stage
    <3> QED BY <1>0, <1>1, <1>6, <3>1, ControlClose
  <2>3. Tidy(k)
    <3>1. {"app"} \cap StreamFields = {}
      BY DEF StreamFields
    <3> QED BY <1>0, <1>1, <1>5, <3>1, TidySame
  <2>4. s.sm = NIL \/ s.state = "CLOSED"
    <3> SUFFICES ASSUME s.sm # NIL, s.state \in {"LISTEN", "SYN_SENT"} PROVE FALSE
      BY <1>6
    <3>1. s.sm.at \in {"absorb", "post", "finish", "closewait", "opened", "synacked", "finwait"}
      BY <1>3 DEF Place
    <3>2. Stage(s) = s.sm.at
      BY DEF Stage
    <3> QED BY <1>0, <3>1, <3>2, ControlClose
  <2>5. Allowed(e, NutTcpDestroySocket(k))
    BY <1>0, <1>1, <1>5, <2>2, <2>3, <2>4, DestroyAllowed
  <2> QED BY <2>1, <2>5, AppProgress
<1>7. CASE s.state \in {"SYN_RECEIVED", "ESTABLISHED"}
  <2>1. App(e, NutTcpStateChange(k, "FIN_WAIT_1"))
    BY <1>2, <1>5, <1>7
  <2> QED BY <1>4, <1>7, <2>1, AppProgress
<1>8. CASE s.state = "CLOSE_WAIT"
  <2>1. App(e, NutTcpStateChange(k, "LAST_ACK"))
    BY <1>2, <1>5, <1>8
  <2> QED BY <1>4, <1>8, <2>1, AppProgress
<1> QED BY <1>3, <1>6, <1>7, <1>8 DEF State

-----------------------------------------------------------------------------
(* The invariant of the specification.                                     *)

LEMMA NextProgress ==
    ASSUME TcpInv, Next
    PROVE  Progress
<1>1. ASSUME NEW e \in Node, SmStep(e) PROVE Progress
  BY <1>1, ContinueProgress, LateAckProgress, RetransmitProgress, RetransmitFailsProgress,
     TimeWaitProgress, SynTimeoutProgress DEF SmStep
<1>2. ASSUME NEW e \in Node, NetStep(e) PROVE Progress
  BY <1>2, ReceiveProgress, ReceiveNoSocketProgress DEF NetStep
<1>3. ASSUME NEW e \in Node, AppStep(e) PROVE Progress
  BY <1>3, SendProgress, ReceiveCallProgress, CloseProgress DEF AppStep
<1>4. ASSUME NutTcpConnect \/ ConnectWait \/ NutTcpAccept \/ AcceptTimeout \/ NutTcpBacklogTimer
      PROVE  Progress
  BY <1>4, ConnectProgress, ConnectWaitProgress, AcceptProgress, AcceptTimeoutProgress,
     BacklogTimerProgress
<1> QED BY <1>1, <1>2, <1>3, <1>4 DEF Next

LEMMA NextKeeps ==
    ASSUME TcpInv, [Next]_vars
    PROVE  TcpInv'
<1>1. CASE Next
  <2>1. Progress
    BY <1>1, NextProgress
  <2>2. PICK e \in Node : \E t, gone : Step(e, t, gone) /\ Allowed(e, t)
    BY <2>1 DEF Progress
  <2>3. PICK t, gone : Step(e, t, gone) /\ Allowed(e, t)
    BY <2>2
  <2> QED BY <2>1, <2>3, StepKeeps DEF Progress
<1>2. CASE UNCHANGED vars
  <2>1. sock' = sock /\ net' = net /\ backlog' = backlog
    BY <1>2 DEF vars
  <2> QED BY <2>1 DEF TcpInv, BacklogOK, Agree, Theirs
<1> QED BY <1>1, <1>2

LEMMA NewSocketIs ==
    /\ NewSocket.state = "CLOSED" /\ NewSocket.app = "start" /\ NewSocket.sm = NIL
    /\ NewSocket.una = 0 /\ NewSocket.win = 0 /\ NewSocket.rxNxt = 0 /\ NewSocket.rxIsn = 0
    /\ NewSocket.rxWin = WinSize /\ NewSocket.nbq = <<>> /\ NewSocket.out = <<>>
    /\ NewSocket.rxBuf = <<>> /\ NewSocket.read = <<>> /\ NewSocket.adv = <<>>
  BY DEF NewSocket

LEMMA NewSocketRests ==
    ASSUME NEW e \in Node
    PROVE  Rests(e, NewSocket)
<1> DEFINE s == NewSocket
<1>0. s = NewSocket
  OBVIOUS
<1>1. /\ s.state = "CLOSED" /\ s.app = "start" /\ s.sm = NIL
      /\ s.rxWin = WinSize /\ s.out = <<>>
      /\ s.rxBuf = <<>> /\ s.read = <<>> /\ s.adv = <<>>
  BY NewSocketIs
<1> HIDE DEF s
<1>2. Control(e, s)
  BY <1>1 DEF Control, ControlOf, Stage, Opening, ClosedByUs, Node
<1>3. Blank(s)
  BY <1>0, <1>1 DEF Blank, Opening
<1>4. Tidy(s)
  <2>1. DOMAIN s.read = {} /\ DOMAIN s.rxBuf = {}
    BY <1>1
  <2> QED BY <1>1, <2>1 DEF Tidy
<1>5. Room(s)
  <2>1. Len(s.rxBuf) = 0 /\ Len(s.adv) = 0 /\ WinSize \in Nat
    BY <1>1, TcpAssumption
  <2>2. Len(s.rxBuf) + s.rxWin <= WinSize /\ Len(s.adv) <= s.rxWin
    BY <1>1, <2>1
  <2> QED BY <1>1, <2>2 DEF Room, Fits
<1>6. Typed(s)
  BY <1>0, NewSocketTyped
<1>7. Rests(e, s)
  BY <1>1, <1>2, <1>3, <1>4, <1>5, <1>6 DEF Rests, Good
<1> QED BY <1>0, <1>7

LEMMA InitInv == Init => TcpInv
<1> SUFFICES ASSUME Init PROVE TcpInv
  OBVIOUS
<1>1. /\ \A e \in Node : sock[e] = NewSocket /\ net[e] = {}
      /\ sock = [e \in Node |-> NewSocket] /\ net = [e \in Node |-> {}]
      /\ backlog = NIL
  BY DEF Init
<1>2. NewSocket \in Socket
  BY NewSocketTyped, TypedSocket
<1>3. sock \in [Node -> Socket] /\ net \in [Node -> SUBSET Segment] /\ BacklogOK
  BY <1>1, <1>2 DEF BacklogOK
<1>4. ASSUME NEW e \in Node PROVE Rests(e, sock[e])
  BY <1>1, NewSocketRests
<1>5. ASSUME NEW p \in Node, NEW o PROVE ~Theirs(p, o)
  <2>1. net[Peer(p)] = {}
    BY <1>1, PeerIs
  <2>2. sock[p].nbq = <<>>
    BY <1>1, NewSocketIs
  <2>3. ~Member(sock[p].nbq, o)
    BY <2>2 DEF Member
  <2> QED BY <1>1, <2>1, <2>3 DEF Theirs
<1>6. ASSUME NEW p \in Node PROVE Agree(p)
  <2>1. sock[p] = NewSocket /\ sock[Peer(p)] = NewSocket /\ Peer(p) \in Node
    BY <1>1, PeerIs
  <2>2. Knows(NewSocket, NewSocket)
    <3>1. WinSize \in Nat
      BY TcpAssumption
    <3> QED BY <3>1, NewSocketIs DEF Knows, Edge
  <2> QED BY <1>5, <2>1, <2>2 DEF Agree
<1> QED BY <1>3, <1>4, <1>5, <1>6 DEF TcpInv

\* The inductive invariant: how the two sockets, the segments on their way, those to be
\* retransmitted and the SYN in the backlog agree, whatever the network and the
\* applications do.
THEOREM TcpInvariant == Spec => []TcpInv
<1>1. Init => TcpInv
  BY InitInv
<1>2. TcpInv /\ [Next]_vars => TcpInv'
  BY NextKeeps
<1> QED BY <1>1, <1>2, PTL DEF Spec

-----------------------------------------------------------------------------
(* The properties.                                                         *)

\* Sockets, segments and the backlog are what the code keeps; nothing is acknowledged
\* that has not been sent (so_tx_una and so_tx_nxt), and only a SYN waits in tcp_backlog.
THEOREM TcpTypes == Spec => []TypeOK
<1>1. TcpInv => TypeOK
  <2> SUFFICES ASSUME TcpInv PROVE TypeOK
    OBVIOUS
  <2>1. ASSUME NEW e \in Node PROVE sock[e].una <= sock[e].nxt /\ sock[e].out = <<>>
    BY RestsIs, Numbers
  <2>2. backlog \in Segment \cup {NIL} /\ (backlog = NIL \/ backlog.flags = {"SYN"})
    BY DEF TcpInv, BacklogOK
  <2>3. sock \in [Node -> Socket] /\ net \in [Node -> SUBSET Segment]
    BY DEF TcpInv
  <2> QED BY <2>1, <2>2, <2>3 DEF TypeOK
<1> QED BY <1>1, TcpInvariant, PTL

\* Whatever the network loses, delays or repeats, an application reads the bytes its peer
\* has sent in order and once, unless NutTcpStateSynReceived has taken one out of
\* sequence: NutTcpStateEstablished, its queue of segments received in advance,
\* NutTcpReceive and the retransmission keep so_rx_nxt and the input buffer together.
THEOREM TcpStreamIntact == Spec => []StreamIntact
<1>1. TcpInv => StreamIntact
  <2> SUFFICES ASSUME TcpInv, NEW e \in Node, ~sock[e].skew PROVE InOrder(e)
    BY DEF StreamIntact
  <2>1. sock[e].skew = FALSE
    BY RestsIs DEF Typed, Fields
  <2> QED BY <2>1, RestsIs DEF Tidy, InOrder
<1> QED BY <1>1, TcpInvariant, PTL

\* What a node has dropped from its transmission queue has arrived (NutTcpProcessAck),
\* and what has arrived has been read or waits in the input buffer of the peer.
THEOREM TcpAckedIsKept == Spec => []AckedIsKept
<1>1. TcpInv => AckedIsKept
  <2> SUFFICES ASSUME TcpInv, NEW e \in Node, sock[e].state \in Open, ~sock[e].skew
               PROVE  /\ sock[Peer(e)].una <= sock[e].rxNxt
                      /\ Len(sock[e].read) + Len(sock[e].rxBuf)
                            = sock[e].rxNxt - sock[e].rxIsn
                              - (IF sock[e].state = "CLOSE_WAIT" THEN 2 ELSE 1)
    BY DEF AckedIsKept
  <2> DEFINE s == sock[e]
             x == Len(s.read)
             y == Len(s.rxBuf)
             i == s.rxIsn
             n == s.rxNxt
             k == IF s.state = "CLOSE_WAIT" THEN 2 ELSE 1
  <2>1. s.skew = FALSE /\ Tidy(s) /\ Typed(s) /\ s.state \in Open /\ s.state # "GONE"
    BY RestsIs DEF Typed, Fields, Open
  <2>2. sock[Peer(e)].una <= s.rxNxt
    BY <2>1 DEF TcpInv, Agree, Knows
  <2>3. s.read \in Seq(Nat) /\ s.rxBuf \in Seq(Nat) /\ i \in Nat /\ n \in Nat
    BY <2>1 DEF Typed, Fields
  <2>4. x \in Nat /\ y \in Nat
    BY <2>3
  <2>5. n = i + x + y + k /\ k \in {1, 2}
    BY <2>1 DEF Tidy, Open
  <2> HIDE DEF s, x, y, i, n, k
  <2>6. x + y = n - i - k
    BY <2>3, <2>4, <2>5
  <2> QED BY <2>2, <2>6 DEF s, x, y, i, n, k
<1> QED BY <1>1, TcpInvariant, PTL

\* The bytes of the input buffer and the segments received in advance are never more than
\* the window of the socket: NutTcpSend keeps to so_tx_win, and what it sends for the window
\* of an old segment is within the window of today.
THEOREM TcpBufferBounded == Spec => []BufferBounded
<1>1. TcpInv => BufferBounded
  <2> SUFFICES ASSUME TcpInv, NEW e \in Node
               PROVE  Len(sock[e].rxBuf) + Len(sock[e].adv) <= WinSize
    BY DEF BufferBounded
  <2> DEFINE b == Len(sock[e].rxBuf)
             v == Len(sock[e].adv)
             w == sock[e].rxWin
  <2>1. /\ sock[e].rxBuf \in Seq(Nat) /\ sock[e].adv \in Seq(Segment) /\ w \in 0 .. WinSize
        /\ Fits(sock[e])
    BY RestsIs DEF Typed, Fields, Room
  <2>2. b \in Nat /\ v \in Nat /\ WinSize \in Nat
    BY <2>1, TcpAssumption
  <2>3. CASE sock[e].app # "closed"
    <3>1. b + w <= WinSize /\ v <= w
      BY <2>1, <2>3 DEF Fits
    <3> HIDE DEF b, v, w
    <3>2. b + v <= WinSize
      BY <2>1, <2>2, <3>1
    <3> QED BY <3>2 DEF b, v
  <2>4. CASE sock[e].app = "closed"
    <3>1. sock[e].rxBuf = <<>> /\ v <= WinSize
      BY <2>1, <2>4 DEF TcpInv, Rests, Fits
    <3>2. b = 0
      BY <3>1
    <3> HIDE DEF b, v
    <3> QED BY <2>2, <3>1, <3>2 DEF b, v
  <2> QED BY <2>3, <2>4
<1> QED BY <1>1, TcpInvariant, PTL

\* Whoever waits in a call of the socket waits in a state in which NutTcpSm will post or
\* broadcast, or NutTcpSm is in the middle of the handler that does.
THEOREM TcpNobodyForgotten == Spec => []NobodyForgotten
<1>1. TcpInv => NobodyForgotten
  <2> SUFFICES ASSUME TcpInv PROVE NobodyForgotten
    OBVIOUS
  <2>1. ASSUME NEW e \in Node
        PROVE  ControlOf(e, sock[e].state, sock[e].app, Stage(sock[e]))
    BY RestsIs
  <2>2. \A e \in Node : sock[e].sm = NIL => Stage(sock[e]) = "idle"
    BY DEF Stage
  <2> QED BY <2>1, <2>2 DEF NobodyForgotten, ControlOf
<1> QED BY <1>1, TcpInvariant, PTL

\* NutTcpSm never comes back from an output to a socket that a call of the application, or a
\* timer, has destroyed meanwhile, unless NutTcpAccept had timed out and closed it.
THEOREM TcpSmKeepsSocket == Spec => SmKeepsSocket
<1> DEFINE Kept == \A e \in Node :
                      sock[e].sm # NIL /\ sock[e].state \notin {"CLOSED", "GONE"}
                      => sock'[e].state # "GONE"
<1>1. TcpInv /\ [Next]_vars => [Kept]_vars
  <2> SUFFICES ASSUME TcpInv, Next PROVE Kept
    OBVIOUS
  <2>1. Progress
    BY NextProgress
  <2>2. PICK n \in Node : \E t, gone : Step(n, t, gone) /\ Allowed(n, t)
    BY <2>1 DEF Progress
  <2>3. PICK t, gone : Step(n, t, gone) /\ Allowed(n, t)
    BY <2>2
  <2>4. sock' = [sock EXCEPT ![n] = Forget(Quiet(t))] /\ sock \in [Node -> Socket]
    BY <2>3 DEF Step, Quiet, TcpInv
  <2>5. Forget(Quiet(t)).state = t.state
    <3>1. Typed(t) /\ Good(n, Quiet(t))
      BY <2>3 DEF Allowed
    <3>2. Same(t, Forget(Quiet(t)), {"out"} \cup ForgetFields)
      BY <3>1, ForgetRests
    <3> QED BY <3>2 DEF Same, Names, ForgetFields
  <2>6. ASSUME NEW e \in Node, sock[e].sm # NIL, sock[e].state \notin {"CLOSED", "GONE"}
        PROVE  sock'[e].state # "GONE"
    <3>1. CASE e = n
      <4>1. t.state # "GONE"
        BY <2>3, <2>6, <3>1 DEF Allowed
      <4>2. sock'[e] = Forget(Quiet(t))
        BY <2>4, <3>1
      <4> QED BY <2>5, <4>1, <4>2
    <3>2. CASE e # n
      <4>1. sock'[e] = sock[e]
        BY <2>4, <3>2
      <4> QED BY <2>6, <4>1
    <3> QED BY <3>1, <3>2
  <2> QED BY <2>6
<1> QED BY <1>1, TcpInvariant, PTL DEF Spec, SmKeepsSocket

-----------------------------------------------------------------------------
(* The end of the stream.                                                  *)

Receiving == {"LISTEN", "SYN_SENT", "SYN_RECEIVED", "ESTABLISHED"}

\* Segment o uses no sequence number: an acknowledgement or a reset.
Plain(o) == o.data = FALSE /\ "SYN" \notin o.flags /\ "FIN" \notin o.flags

\* What socket s has of its peer p: no more than p has sent, which ends with the FIN once
\* the application of p has closed it.
Level(s, p) ==
    /\ s.rxNxt <= p.nxt
    /\ s.state \in Receiving /\ p.app = "closed" => s.rxNxt < p.nxt
    /\ s.state = "CLOSE_WAIT" => s.rxNxt = p.nxt
    /\ \A i \in DOMAIN s.adv :
          s.adv[i].seq < p.nxt /\ (p.app = "closed" => s.adv[i].seq + 1 < p.nxt)

\* A handler that has stopped with a FIN to deal with has one of the peer; if the FIN was
\* not the segment expected, it is not the end of the stream that counts.
FinHeld(s, p) ==
    s.sm # NIL /\ s.sm.flags # {} =>
       /\ s.sm.at \in {"closewait", "finish"}
       /\ p.app = "closed" \/ s.app = "closed"
       /\ s.sm.at = "finish" => s.skew = TRUE \/ p.state = "GONE" \/ s.app = "closed"

NoFin(s) == \A i \in DOMAIN s.adv : s.adv[i].flags = {"ACK"}

\* Socket s, seen with its peer p.
Seen(s, p) ==
    /\ s.state = "CLOSE_WAIT" => p.app = "closed"
    /\ NoFin(s)
    /\ FinHeld(s, p)
    /\ s.app # "closed" /\ s.skew = FALSE /\ p.state # "GONE" => Level(s, p)

\* Segment o that p has sent to s is below so_tx_nxt; a FIN is what p has sent last.
InStream(s, o, p) ==
    /\ "FIN" \in o.flags => p.app = "closed" \/ s.app = "closed"
    /\ p.state # "GONE" =>
          /\ o.seq < p.nxt \/ (o.seq <= p.nxt /\ Plain(o))
          /\ p.app = "closed" /\ s.app # "closed" =>
                /\ "FIN" \in o.flags => o.seq + 1 = p.nxt
                /\ o.data = TRUE \/ "SYN" \in o.flags => o.seq + 1 < p.nxt

\* Socket t has sent one segment of this kind more than s, and acknowledgements and resets.
Says(s, t, what) ==
    /\ t.nxt = IF what = "nothing" THEN s.nxt ELSE s.nxt + 1
    /\ \A o : Member(t.out, o) \/ Member(t.nbq, o) =>
          \/ Member(s.out, o) \/ Member(s.nbq, o)
          \/ o \in Segment /\ Plain(o) /\ o.seq <= t.nxt
          \/ /\ o \in Segment /\ o.seq = s.nxt /\ what # "nothing"
             /\ o.data = TRUE => what = "DATA"
             /\ "SYN" \in o.flags => what = "SYN"
             /\ "FIN" \in o.flags => what = "FIN"

\* A socket sends one FIN, when the application closes it or when it leaves SYN_RECEIVED
\* for CLOSE_WAIT, and no numbered segment after it has been closed.
Speaks(s, t) ==
    \E what \in Kind :
       /\ Says(s, t, what)
       /\ what = "FIN" => t.state = "CLOSE_WAIT" \/ t.app = "closed"
       /\ t.app = "closed" => what = IF s.app = "closed" THEN "nothing" ELSE "FIN"

\* Socket s with peer p may become t.
Turned(s, t, p) ==
    /\ Typed(t) /\ Seen(t, p)
    /\ s.app = "closed" => t.app = "closed"
    /\ t.state # "GONE" => s.state # "GONE" /\ Speaks(s, t)

Flow(e) ==
    LET s == sock[e]
        p == sock[Peer(e)]
    IN  /\ Seen(s, p)
        /\ \A o : Theirs(Peer(e), o) => InStream(s, o, p)
        /\ s.app = "closed" /\ s.state # "GONE" => s.nxt > 0

FlowInv == \A e \in Node : Flow(e)

LEMMA SeenLater ==
    ASSUME NEW r, Typed(r), NEW s, Typed(s), NEW t, Seen(r, s), s.state # "GONE",
           Speaks(s, t), s.app = "closed" => t.app = "closed"
    PROVE  Seen(r, t)
<1>1. PICK what \in Kind :
         /\ Says(s, t, what)
         /\ t.app = "closed" => what = IF s.app = "closed" THEN "nothing" ELSE "FIN"
  BY DEF Speaks
<1>2. s.nxt \in Nat /\ r.rxNxt \in Nat /\ r.adv \in Seq(Segment)
  BY DEF Typed, Fields
<1>3. t.nxt = IF what = "nothing" THEN s.nxt ELSE s.nxt + 1
  BY <1>1 DEF Says
<1>4. FinHeld(r, t)
  BY DEF Seen, FinHeld
<1>5. ASSUME r.app # "closed", r.skew = FALSE PROVE Level(r, t)
  <2>1. Level(r, s)
    BY <1>5 DEF Seen
  <2>2. ASSUME NEW i \in DOMAIN r.adv
        PROVE  r.adv[i].seq < t.nxt /\ (t.app = "closed" => r.adv[i].seq + 1 < t.nxt)
    <3>1. r.adv[i].seq \in Nat
      BY <1>2, SegmentFields
    <3>2. r.adv[i].seq < s.nxt /\ (s.app = "closed" => r.adv[i].seq + 1 < s.nxt)
      BY <2>1 DEF Level
    <3> QED BY <1>1, <1>2, <1>3, <3>1, <3>2
  <2>3. r.rxNxt <= t.nxt /\ (r.state \in Receiving /\ t.app = "closed" => r.rxNxt < t.nxt)
    <3>1. r.rxNxt <= s.nxt /\ (r.state \in Receiving /\ s.app = "closed" => r.rxNxt < s.nxt)
      BY <2>1 DEF Level
    <3> QED BY <1>1, <1>2, <1>3, <3>1
  <2>4. r.state = "CLOSE_WAIT" => r.rxNxt = t.nxt
    <3>1. r.state = "CLOSE_WAIT" => r.rxNxt = s.nxt /\ s.app = "closed"
      BY <2>1 DEF Level, Seen
    <3> QED BY <1>1, <1>2, <1>3, <3>1
  <2> QED BY <2>2, <2>3, <2>4 DEF Level
<1> QED BY <1>4, <1>5 DEF Seen

LEMMA InStreamLater ==
    ASSUME NEW r, NEW s, Typed(s), NEW t, NEW o \in Segment, InStream(r, o, s), s.state # "GONE",
           Speaks(s, t), s.app = "closed" => t.app = "closed"
    PROVE  InStream(r, o, t)
<1>1. PICK what \in Kind :
         /\ Says(s, t, what)
         /\ t.app = "closed" => what = IF s.app = "closed" THEN "nothing" ELSE "FIN"
  BY DEF Speaks
<1>2. s.nxt \in Nat /\ o.seq \in Nat
  BY SegmentFields DEF Typed, Fields
<1>3. t.nxt = IF what = "nothing" THEN s.nxt ELSE s.nxt + 1
  BY <1>1 DEF Says
<1>4. /\ "FIN" \in o.flags => s.app = "closed" \/ r.app = "closed"
      /\ o.seq < s.nxt \/ (o.seq <= s.nxt /\ Plain(o))
      /\ s.app = "closed" /\ r.app # "closed" =>
            /\ "FIN" \in o.flags => o.seq + 1 = s.nxt
            /\ o.data = TRUE \/ "SYN" \in o.flags => o.seq + 1 < s.nxt
  BY DEF InStream
<1>5. o.seq < t.nxt \/ (o.seq <= t.nxt /\ Plain(o))
  BY <1>2, <1>3, <1>4
<1>6. ASSUME t.app = "closed", r.app # "closed"
      PROVE  /\ "FIN" \in o.flags => o.seq + 1 = t.nxt
             /\ o.data = TRUE \/ "SYN" \in o.flags => o.seq + 1 < t.nxt
  <2>1. CASE s.app = "closed"
    BY <1>1, <1>3, <1>4, <1>6, <2>1
  <2>2. CASE s.app # "closed"
    <3>1. t.nxt = s.nxt + 1
      BY <1>1, <1>3, <1>6, <2>2
    <3>2. o.data = TRUE \/ "SYN" \in o.flags => o.seq < s.nxt
      BY <1>4 DEF Plain
    <3> QED BY <1>2, <1>4, <1>6, <2>2, <3>1, <3>2
  <2> QED BY <2>1, <2>2
<1> QED BY <1>4, <1>5, <1>6 DEF InStream

LEMMA InStreamNew ==
    ASSUME NEW r, NEW s, Typed(s), NEW t, NEW o, Seen(t, r), Speaks(s, t),
           Member(t.out, o) \/ Member(t.nbq, o)
    PROVE  Member(s.out, o) \/ Member(s.nbq, o) \/ InStream(r, o, t)
<1>1. PICK what \in Kind :
         /\ Says(s, t, what)
         /\ what = "FIN" => t.state = "CLOSE_WAIT" \/ t.app = "closed"
         /\ t.app = "closed" => what = IF s.app = "closed" THEN "nothing" ELSE "FIN"
  BY DEF Speaks
<1>2. t.nxt = (IF what = "nothing" THEN s.nxt ELSE s.nxt + 1) /\ s.nxt \in Nat
  BY <1>1 DEF Says, Typed, Fields
<1>3. CASE o \in Segment /\ Plain(o) /\ o.seq <= t.nxt
  BY <1>3 DEF Plain, InStream
<1>4. CASE /\ o \in Segment /\ o.seq = s.nxt /\ what # "nothing"
           /\ o.data = TRUE => what = "DATA"
           /\ "SYN" \in o.flags => what = "SYN"
           /\ "FIN" \in o.flags => what = "FIN"
  <2>1. "FIN" \in o.flags => t.app = "closed" \/ r.app = "closed"
    BY <1>1, <1>4 DEF Seen
  <2>2. o.seq < t.nxt /\ o.seq + 1 = t.nxt
    BY <1>2, <1>4
  <2>3. t.app = "closed" => ~(o.data = TRUE \/ "SYN" \in o.flags)
    BY <1>1, <1>4
  <2> QED BY <2>1, <2>2, <2>3 DEF InStream
<1> QED BY <1>1, <1>3, <1>4 DEF Says

\* A step of node e keeps the relation if its socket may become what it becomes.
LEMMA FlowKeeps ==
    ASSUME TcpInv, TcpInv', FlowInv, NEW e \in Node, NEW t, NEW gone,
           Turned(sock[e], t, sock[Peer(e)]), Step(e, t, gone), BacklogStep
    PROVE  FlowInv'
<1> DEFINE q == Peer(e)
<1>1. PICK s : s = sock[e]
  OBVIOUS
<1>2. PICK r : r = sock[q]
  OBVIOUS
<1>3. PICK u : u = sock'[e]
  OBVIOUS
<1>4. /\ sock \in [Node -> Socket] /\ net \in [Node -> SUBSET Segment]
      /\ q \in Node /\ q # e /\ Peer(q) = e /\ Typed(t) /\ Typed(s) /\ Typed(r)
  BY <1>1, <1>2, PeerIs, RestsIs DEF TcpInv, Turned
<1>5. sock'[e] = Forget(Quiet(t)) /\ sock'[q] = r
  BY <1>2, <1>4 DEF Step, Quiet
<1>6. /\ u.state = t.state /\ u.nbq = t.nbq /\ u.rxNxt = t.rxNxt /\ u.nxt = t.nxt /\ u.adv = t.adv
      /\ u.sm = t.sm /\ u.skew = t.skew /\ u.app = t.app /\ Typed(u)
  <2>1. Typed(Quiet(t)) /\ Same(t, Quiet(t), {"out"})
    BY <1>4, QuietIs
  <2>2. Typed(u) /\ Same(Quiet(t), u, ForgetFields)
    BY <1>3, <1>5, <2>1, ForgetIs
  <2> QED BY <2>1, <2>2 DEF Same, Names, ForgetFields
<1>7. u.state = "GONE" => u.app = "closed"
  <2>1. \A x \in Node : Rests(x, sock'[x])
    BY DEF TcpInv
  <2> QED BY <1>3, <2>1 DEF Rests, Good, Control, ControlOf
<1>8. ASSUME NEW o, Theirs(e, o)'
      PROVE  Theirs(e, o) \/ Member(t.out, o) \/ Member(t.nbq, o)
  <2>1. CASE o \in net'[q]
    <3>1. PICK n \in Travel(net[q], q, t.out) :
                 net' = [net EXCEPT ![q] = n, ![e] = @ \ gone]
      BY DEF Step
    <3>2. n \subseteq net[q] \cup ToSet(t.out)
      BY DEF Travel
    <3>3. net'[q] = n
      BY <1>4, <3>1
    <3>4. o \in ToSet(t.out) => Member(t.out, o)
      <4>1. t.out \in Seq(Segment)
        BY <1>4 DEF Typed, Fields
      <4> QED BY <4>1 DEF ToSet, Member
    <3> QED BY <2>1, <3>2, <3>3, <3>4 DEF Theirs
  <2>2. CASE Member(sock'[e].nbq, o)
    BY <1>3, <1>6, <2>2
  <2>3. CASE e = Active /\ backlog' # NIL /\ o = backlog'
    <3>1. Peer(Active) = Passive
      BY DEF Peer
    <3> QED BY <2>3, <3>1 DEF Theirs, BacklogStep
  <2> QED BY <1>8, <2>1, <2>2, <2>3 DEF Theirs
<1>9. ASSUME NEW o, Theirs(q, o)' PROVE Theirs(q, o)
  <2>1. CASE o \in net'[e]
    <3>1. PICK n : net' = [net EXCEPT ![q] = n, ![e] = @ \ gone]
      BY DEF Step
    <3>2. net'[e] = net[e] \ gone
      BY <1>4, <3>1
    <3> QED BY <1>4, <2>1, <3>2 DEF Theirs
  <2>2. CASE Member(sock'[q].nbq, o)
    BY <1>2, <1>5, <2>2 DEF Theirs
  <2>3. CASE q = Active /\ backlog' # NIL /\ o = backlog'
    <3>1. Peer(Active) = Passive
      BY DEF Peer
    <3> QED BY <2>3, <3>1 DEF Theirs, BacklogStep
  <2> QED BY <1>4, <1>9, <2>1, <2>2, <2>3 DEF Theirs
<1>10. /\ Seen(s, r) /\ (\A o : Theirs(q, o) => InStream(s, o, r))
       /\ (s.app = "closed" /\ s.state # "GONE" => s.nxt > 0)
       /\ Seen(r, s) /\ (\A o : Theirs(e, o) => InStream(r, o, s))
       /\ (r.app = "closed" /\ r.state # "GONE" => r.nxt > 0)
  <2>1. Flow(e) /\ Flow(q)
    BY <1>4 DEF FlowInv
  <2> QED BY <1>1, <1>2, <1>4, <2>1 DEF Flow
<1>11. /\ Seen(t, r) /\ (s.app = "closed" => t.app = "closed")
       /\ t.state # "GONE" => s.state # "GONE" /\ Speaks(s, t)
  BY <1>1, <1>2 DEF Turned
<1>12. Flow(e)'
  <2>1. Seen(u, r)
    BY <1>6, <1>11, Zenon DEF Seen, NoFin, FinHeld, Level
  <2>2. ASSUME NEW o, Theirs(q, o)' PROVE InStream(u, o, r)
    <3>1. InStream(s, o, r)
      BY <1>9, <1>10, <2>2
    <3> QED BY <1>6, <1>11, <3>1 DEF InStream
  <2>3. u.app = "closed" /\ u.state # "GONE" => u.nxt > 0
    <3> SUFFICES ASSUME t.app = "closed", t.state # "GONE" PROVE t.nxt > 0
      BY <1>6
    <3>1. PICK what : Says(s, t, what) /\ what = IF s.app = "closed" THEN "nothing" ELSE "FIN"
      BY <1>11 DEF Speaks
    <3>2. s.nxt \in Nat /\ t.nxt = IF what = "nothing" THEN s.nxt ELSE s.nxt + 1
      BY <1>4, <3>1 DEF Says, Typed, Fields
    <3> QED BY <1>10, <1>11, <3>1, <3>2
  <2> QED BY <1>3, <1>5, <2>1, <2>2, <2>3 DEF Flow
<1>13. Flow(q)'
  <2>1. Seen(r, t) /\ \A o : Theirs(e, o)' => InStream(r, o, t)
    <3>1. CASE t.state = "GONE"
      <4>1. t.app = "closed"
        BY <1>6, <1>7, <3>1
      <4>2. Seen(r, t)
        BY <1>10, <3>1, <4>1 DEF Seen, FinHeld
      <4> QED BY <3>1, <4>1, <4>2 DEF InStream
    <3>2. CASE t.state # "GONE"
      <4>1. Seen(r, t)
        BY <1>4, <1>10, <1>11, <3>2, SeenLater
      <4>2. ASSUME NEW o, Theirs(e, o)' PROVE InStream(r, o, t)
        <5>1. CASE Theirs(e, o)
          <6>1. o \in Segment /\ InStream(r, o, s)
            BY <1>10, <5>1 DEF TcpInv, Sound
          <6> QED BY <1>4, <1>11, <3>2, <6>1, InStreamLater
        <5>2. CASE ~Theirs(e, o)
          <6>1. ~Member(s.out, o) /\ ~Member(s.nbq, o)
            <7>1. s.out = <<>>
              BY <1>1, RestsIs
            <7> QED BY <1>1, <5>2, <7>1 DEF Theirs, Member
          <6>2. Member(t.out, o) \/ Member(t.nbq, o)
            BY <1>8, <4>2, <5>2
          <6> QED BY <1>4, <1>11, <3>2, <6>1, <6>2, InStreamNew
        <5> QED BY <5>1, <5>2
      <4> QED BY <4>1, <4>2
    <3> QED BY <3>1, <3>2
  <2>2. Seen(r, u)
    BY <1>6, <2>1 DEF Seen, FinHeld, Level
  <2>3. \A o : Theirs(e, o)' => InStream(r, o, u)
    BY <1>6, <2>1 DEF InStream
  <2>4. sock'[e] = u /\ sock'[Peer(q)] = u
    BY <1>3, <1>4
  <2> QED BY <1>4, <1>5, <1>10, <2>2, <2>3, <2>4 DEF Flow
<1> QED BY <1>12, <1>13, PeerIs DEF FlowInv

-----------------------------------------------------------------------------
(* What the calls send.                                                    *)

\* Socket t has sent nothing with a number since s.
Mute(s, t) == Typed(t) /\ Says(s, t, "nothing")

LEMMA MuteQuietly ==
    ASSUME NEW s, NEW t, Typed(t), t.out = s.out, t.nxt = s.nxt,
           \A o : Member(t.nbq, o) => Member(s.nbq, o)
    PROVE  Mute(s, t)
BY DEF Mute, Says

LEMMA MuteSame ==
    ASSUME NEW s, NEW t, NEW F, Typed(t), Same(s, t, F), F \cap {"out", "nbq", "nxt"} = {}
    PROVE  Mute(s, t)
<1>1. t.out = s.out /\ t.nbq = s.nbq /\ t.nxt = s.nxt
  BY DEF Same, Names
<1> QED BY <1>1, MuteQuietly

LEMMA SaysEmitted ==
    ASSUME NEW s, NEW t, Typed(s), NEW what \in Kind, Emitted(s, t, what)
    PROVE  Says(s, t, what)
<1>1. s.out \in Seq(Segment) /\ s.nbq \in Seq(Segment) /\ s.nxt \in Nat
  BY DEF Typed, Fields
<1>2. CASE t.out = s.out /\ t.nxt = s.nxt /\ t.nbq = s.nbq /\ what = "nothing"
  BY <1>2 DEF Says
<1>3. ASSUME NEW o \in Made(s, what), t.out = Append(s.out, o),
             what = "nothing" => t.nxt = s.nxt /\ t.nbq = s.nbq,
             what # "nothing" => t.nxt = s.nxt + 1 /\ t.nbq = Append(s.nbq, o)
      PROVE  Says(s, t, what)
  <2>1. /\ o \in Segment /\ o.seq = s.nxt
        /\ o.data <=> what = "DATA"
        /\ "SYN" \in o.flags <=> what = "SYN"
        /\ "FIN" \in o.flags <=> what = "FIN"
    BY DEF Made
  <2>2. o.data \in BOOLEAN
    BY <2>1, SegmentFields
  <2>3. \A x : Member(t.out, x) => Member(s.out, x) \/ x = o
    BY <1>1, <1>3, <2>1, AppendMember
  <2>4. \A x : Member(t.nbq, x) => Member(s.nbq, x) \/ x = o
    BY <1>1, <1>3, <2>1, AppendMember
  <2>5. CASE what = "nothing"
    <3>1. Plain(o) /\ o.seq <= t.nxt /\ t.nxt = s.nxt
      BY <1>1, <1>3, <2>1, <2>2, <2>5 DEF Plain
    <3> QED BY <2>1, <2>3, <2>4, <2>5, <3>1 DEF Says
  <2>6. CASE what # "nothing"
    BY <1>3, <2>1, <2>3, <2>4, <2>6 DEF Says
  <2> QED BY <2>5, <2>6
<1> QED BY <1>2, <1>3 DEF Emitted

LEMMA MuteThen ==
    ASSUME NEW s, NEW t, NEW u, Typed(s), Mute(s, t), NEW what \in Kind, Says(t, u, what)
    PROVE  Says(s, u, what)
<1>1. t.nxt = s.nxt /\ s.nxt \in Nat /\ u.nxt = IF what = "nothing" THEN t.nxt ELSE t.nxt + 1
  BY DEF Mute, Says, Typed, Fields
<1>2. ASSUME NEW o, Member(u.out, o) \/ Member(u.nbq, o)
      PROVE  \/ Member(s.out, o) \/ Member(s.nbq, o)
             \/ o \in Segment /\ Plain(o) /\ o.seq <= u.nxt
             \/ /\ o \in Segment /\ o.seq = s.nxt /\ what # "nothing"
                /\ o.data = TRUE => what = "DATA"
                /\ "SYN" \in o.flags => what = "SYN"
                /\ "FIN" \in o.flags => what = "FIN"
  <2>1. CASE Member(t.out, o) \/ Member(t.nbq, o)
    <3>1. Member(s.out, o) \/ Member(s.nbq, o) \/ (o \in Segment /\ Plain(o) /\ o.seq <= t.nxt)
      BY <2>1 DEF Mute, Says
    <3>2. CASE o \in Segment /\ Plain(o) /\ o.seq <= t.nxt
      <4>1. o.seq \in Nat
        BY <3>2, SegmentFields
      <4> QED BY <1>1, <3>2, <4>1
    <3> QED BY <3>1, <3>2
  <2>2. CASE ~(Member(t.out, o) \/ Member(t.nbq, o))
    BY <1>1, <1>2, <2>2 DEF Says
  <2> QED BY <2>1, <2>2
<1>3. u.nxt = IF what = "nothing" THEN s.nxt ELSE s.nxt + 1
  BY <1>1
<1> QED BY <1>2, <1>3 DEF Says

LEMMA ThenMute ==
    ASSUME NEW s, NEW t, NEW u, Typed(s), NEW what \in Kind, Says(s, t, what), Mute(t, u)
    PROVE  Says(s, u, what)
<1>1. s.nxt \in Nat /\ t.nxt = (IF what = "nothing" THEN s.nxt ELSE s.nxt + 1) /\ u.nxt = t.nxt
  BY DEF Mute, Says, Typed, Fields
<1>2. ASSUME NEW o, Member(u.out, o) \/ Member(u.nbq, o)
      PROVE  \/ Member(s.out, o) \/ Member(s.nbq, o)
             \/ o \in Segment /\ Plain(o) /\ o.seq <= u.nxt
             \/ /\ o \in Segment /\ o.seq = s.nxt /\ what # "nothing"
                /\ o.data = TRUE => what = "DATA"
                /\ "SYN" \in o.flags => what = "SYN"
                /\ "FIN" \in o.flags => what = "FIN"
  <2>1. CASE Member(t.out, o) \/ Member(t.nbq, o)
    BY <1>1, <2>1 DEF Says
  <2>2. CASE ~(Member(t.out, o) \/ Member(t.nbq, o))
    BY <1>1, <1>2, <2>2 DEF Mute, Says
  <2> QED BY <2>1, <2>2
<1>3. u.nxt = IF what = "nothing" THEN s.nxt ELSE s.nxt + 1
  BY <1>1
<1> QED BY <1>2, <1>3 DEF Says

LEMMA MuteTrans ==
    ASSUME NEW s, NEW t, NEW u, Typed(s), Mute(s, t), Mute(t, u)
    PROVE  Mute(s, u)
<1>1. "nothing" \in Kind
  BY DEF Kind
<1> QED BY <1>1, MuteThen DEF Mute

LEMMA EmittedMute ==
    ASSUME NEW s, NEW t, Typed(s), Typed(t), Emitted(s, t, "nothing")
    PROVE  Mute(s, t)
<1>1. "nothing" \in Kind
  BY DEF Kind
<1> QED BY <1>1, SaysEmitted DEF Mute

LEMMA ForceAckMute ==
    ASSUME NEW s, Typed(s)
    PROVE  Mute(s, ForceAck(s))
BY ForceAckIs, EmittedMute

\* A reset has no number.
LEMMA RejectIs ==
    ASSUME NEW g \in Segment
    PROVE  \/ NutTcpReject(g) = <<>>
           \/ \E r \in Segment : NutTcpReject(g) = <<r>> /\ Plain(r) /\ r.seq = 0
<1> DEFINE r1 == [flags |-> {"RST"}, seq |-> 0, ack |-> 0, win |-> 0, data |-> FALSE]
           n == IF "SYN" \in g.flags THEN g.seq + 1 ELSE g.seq
           r2 == [r1 EXCEPT !.flags = {"RST", "ACK"}, !.ack = n]
<1>0. n \in Nat
  BY SegmentFields
<1> HIDE DEF n
<1>1. r1 \in Segment /\ r1.flags = {"RST"} /\ r1.data = FALSE /\ r1.seq = 0
  BY TcpAssumption DEF Segment
<1> HIDE DEF r1
<1>2. r2 \in Segment /\ r2.flags = {"RST", "ACK"} /\ r2.data = r1.data /\ r2.seq = r1.seq
  BY <1>0, <1>1 DEF Segment
<1>3. CASE "RST" \in g.flags
  BY <1>3 DEF NutTcpReject
<1>4. CASE "RST" \notin g.flags /\ "ACK" \in g.flags
  <2>1. NutTcpReject(g) = <<r1>>
    BY <1>4 DEF NutTcpReject, r1
  <2> QED BY <1>1, <2>1 DEF Plain
<1>5. CASE "RST" \notin g.flags /\ "ACK" \notin g.flags
  <2>1. NutTcpReject(g) = <<r2>>
    BY <1>5 DEF NutTcpReject, n, r1
  <2> HIDE DEF r2
  <2> QED BY <1>1, <1>2, <2>1 DEF Plain
<1> QED BY <1>3, <1>4, <1>5

LEMMA RejectedMute ==
    ASSUME NEW s, Typed(s), NEW g \in Segment
    PROVE  Mute(s, Rejected(s, g))
<1> DEFINE t == Rejected(s, g)
<1>1. Typed(t) /\ Same(s, t, {"out"})
  BY RejectedIs DEF Goes
<1>2. t.out = s.out \o NutTcpReject(g)
  BY DEF Rejected, Typed, Shaped, Names
<1> HIDE DEF t
<1>3. t.nbq = s.nbq /\ t.nxt = s.nxt /\ s.out \in Seq(Segment) /\ s.nxt \in Nat
  BY <1>1 DEF Same, Names, Typed, Fields
<1>4. CASE NutTcpReject(g) = <<>>
  <2>1. t.out = s.out
    BY <1>2, <1>3, <1>4
  <2> QED BY <1>1, <1>3, <2>1, MuteQuietly DEF t
<1>5. ASSUME NEW r \in Segment, NutTcpReject(g) = <<r>>, Plain(r), r.seq = 0
      PROVE  Mute(s, t)
  <2>1. t.out = Append(s.out, r)
    BY <1>2, <1>3, <1>5
  <2>2. \A x : Member(t.out, x) => Member(s.out, x) \/ x = r
    BY <1>3, <2>1, AppendMember
  <2>3. r.seq <= t.nxt
    BY <1>3, <1>5
  <2> QED BY <1>1, <1>3, <1>5, <2>2, <2>3 DEF Mute, Says
<1> QED BY <1>4, <1>5, RejectIs DEF t

LEMMA AbortMute ==
    ASSUME NEW s, Typed(s)
    PROVE  Mute(s, NutTcpAbortSocket(s))
<1> DEFINE t == NutTcpAbortSocket(s)
<1>1. Typed(t) /\ Same(s, t, {"state", "app", "rxBuf", "nbq", "adv"}) /\ t.nbq = <<>>
  BY AbortIs DEF Goes
<1> HIDE DEF t
<1>2. t.out = s.out /\ t.nxt = s.nxt /\ \A o : ~Member(t.nbq, o)
  BY <1>1 DEF Same, Names, Member
<1> QED BY <1>1, <1>2, MuteQuietly DEF t

LEMMA DiscardMute ==
    ASSUME NEW s, Typed(s)
    PROVE  Mute(s, NutTcpDiscardBuffers(s))
<1> DEFINE t == NutTcpDiscardBuffers(s)
<1>1. Typed(t) /\ Same(s, t, {"rxBuf", "nbq", "adv"}) /\ t.nbq = <<>>
  BY DiscardIs DEF Goes
<1> HIDE DEF t
<1>2. t.out = s.out /\ t.nxt = s.nxt /\ \A o : ~Member(t.nbq, o)
  BY <1>1 DEF Same, Names, Member
<1> QED BY <1>1, <1>2, MuteQuietly DEF t

LEMMA ProcessAckMute ==
    ASSUME NEW s, Typed(s), NEW g \in Segment
    PROVE  Mute(s, NutTcpProcessAck(s, g))
<1> DEFINE t == NutTcpProcessAck(s, g)
           b == Later(s.nbq, g.ack)
<1>1. Typed(t) /\ Same(s, t, {"ack", "force", "win", "wl1", "wl2", "una", "nbq"})
  BY ProcessAckIs DEF Goes
<1>2. t.out = s.out /\ t.nxt = s.nxt
  BY <1>1 DEF Same, Names
<1>3. g.ack \in Nat /\ s.una \in Nat /\ s.nxt \in Nat /\ s.una <= s.nxt
  BY SegmentFields DEF Typed, Fields, Ordered
<1>4. CASE g.ack > s.nxt \/ g.ack <= s.una
  <2>1. t.nbq = s.nbq
    BY <1>3, <1>4 DEF NutTcpProcessAck, Typed, Shaped, Names
  <2> QED BY <1>1, <1>2, <2>1, MuteQuietly
<1>5. CASE s.una < g.ack /\ g.ack <= s.nxt
  <2>1. t.nbq = b
    BY <1>3, <1>5 DEF NutTcpProcessAck, Typed, Shaped, Names
  <2>2. s.nbq \in Seq(Segment) /\ Ascending(s.nbq)
    BY DEF Typed, Fields, Ordered
  <2>3. \A i \in DOMAIN b : \E j \in DOMAIN s.nbq : b[i] = s.nbq[j]
    BY <1>3, <2>2, LaterIs
  <2> HIDE DEF b, t
  <2>4. \A o : Member(t.nbq, o) => Member(s.nbq, o)
    BY <2>1, <2>3 DEF Member
  <2> QED BY <1>1, <1>2, <2>4, MuteQuietly DEF t
<1> QED BY <1>3, <1>4, <1>5

LEMMA TakenMute ==
    ASSUME NEW s, Typed(s), NEW bytes \in Seq(Nat), NEW last \in BOOLEAN
    PROVE  Mute(s, NutTcpOutput(Buffered(s, bytes, last), "nothing"))
<1> DEFINE u == Buffered(s, bytes, last)
           t == NutTcpOutput(u, "nothing")
<1>1. Typed(u) /\ Same(s, u, {"rxBuf", "rxCnt", "rxNxt", "rxWin", "ack", "force"})
  BY BufferedIs
<1> HIDE DEF u
<1>2. Mute(s, u)
  <2>1. {"rxBuf", "rxCnt", "rxNxt", "rxWin", "ack", "force"} \cap {"out", "nbq", "nxt"} = {}
    OBVIOUS
  <2> QED BY <1>1, <2>1, MuteSame
<1>3. Typed(t) /\ Emitted(u, t, "nothing") /\ "nothing" \in Kind
  BY <1>1, Emits DEF Kind
<1>4. Mute(u, t)
  BY <1>1, <1>3, EmittedMute
<1> QED BY <1>2, <1>4, MuteTrans DEF u

\* What a change of state sends.
LEMMA ChangeSays ==
    ASSUME NEW s, Typed(s), NEW x \in State
    PROVE  \E what \in Kind : /\ Says(s, NutTcpStateChange(s, x), what)
                              /\ IF Follows(s.state, x) THEN Sends(s.state, x, what)
                                 ELSE what = "nothing"
<1> DEFINE t == NutTcpStateChange(s, x)
<1>1. Typed(t)
  BY StateChangeIs
<1>2. Follows(s.state, x) => \E what : Sends(s.state, x, what) /\ Emitted(s, t, what)
  BY StateChangeIs
<1>3. ~Follows(s.state, x) => t.out = s.out /\ t.nxt = s.nxt /\ t.nbq = s.nbq
  BY StateChangeIs
<1> HIDE DEF t
<1>4. CASE Follows(s.state, x)
  <2>1. PICK what : Sends(s.state, x, what) /\ Emitted(s, t, what)
    BY <1>2, <1>4
  <2>2. what \in Kind
    BY <2>1 DEF Sends
  <2> QED BY <1>4, <2>1, <2>2, SaysEmitted DEF t
<1>5. CASE ~Follows(s.state, x)
  <2>1. Mute(s, t)
    BY <1>1, <1>3, <1>5, MuteQuietly
  <2>2. "nothing" \in Kind
    BY DEF Kind
  <2> QED BY <1>5, <2>1, <2>2 DEF Mute, t
<1> QED BY <1>4, <1>5

-----------------------------------------------------------------------------
(* What the calls do to the relation.                                      *)

\* The application has closed the socket or has not, as its state says.
ClosedState(s) == s.app = "closed" => s.state \in ClosedByUs \cup {"GONE"}

Alike(s, t) == /\ s.app = "closed" <=> t.app = "closed"
               /\ s.state = "GONE" <=> t.state = "GONE"

Stays(s, t, p) == Mute(s, t) /\ Alike(s, t) /\ Seen(t, p)

LEMMA StaysTurned ==
    ASSUME NEW s, NEW t, NEW p, Stays(s, t, p)
    PROVE  Turned(s, t, p)
<1>1. "nothing" \in Kind
  BY DEF Kind
<1> QED BY <1>1 DEF Stays, Alike, Mute, Turned, Speaks

LEMMA MuteTurned ==
    ASSUME NEW s, NEW t, NEW u, NEW p, Typed(s), Mute(s, t), Alike(s, t), Turned(t, u, p)
    PROVE  Turned(s, u, p)
<1>1. ASSUME u.state # "GONE" PROVE s.state # "GONE" /\ Speaks(s, u)
  <2>1. PICK what \in Kind :
           /\ Says(t, u, what)
           /\ what = "FIN" => u.state = "CLOSE_WAIT" \/ u.app = "closed"
           /\ u.app = "closed" => what = IF t.app = "closed" THEN "nothing" ELSE "FIN"
    BY <1>1 DEF Turned, Speaks
  <2>2. Says(s, u, what)
    BY <2>1, MuteThen
  <2> QED BY <1>1, <2>1, <2>2 DEF Turned, Speaks, Alike
<1> QED BY <1>1 DEF Turned, Alike

\* What is left to do after an output.
LEMMA TurnedMute ==
    ASSUME NEW s, NEW t, NEW u, NEW p, Typed(s), Turned(s, t, p), Mute(t, u), Alike(t, u), Seen(u, p),
           u.state = t.state
    PROVE  Turned(s, u, p)
<1>1. ASSUME u.state # "GONE" PROVE s.state # "GONE" /\ Speaks(s, u)
  <2>1. PICK what \in Kind :
           /\ Says(s, t, what)
           /\ what = "FIN" => t.state = "CLOSE_WAIT" \/ t.app = "closed"
           /\ t.app = "closed" => what = IF s.app = "closed" THEN "nothing" ELSE "FIN"
    BY <1>1 DEF Turned, Speaks
  <2>2. Says(s, u, what)
    BY <2>1, ThenMute
  <2> QED BY <1>1, <2>1, <2>2 DEF Turned, Speaks, Alike
<1> QED BY <1>1 DEF Turned, Alike, Mute

\* A change of state in a handler.
LEMMA ChangeTurned ==
    ASSUME NEW s, Typed(s), ClosedState(s), NEW x \in State \ {"FIN_WAIT_1", "LAST_ACK"},
           NEW p, Seen(NutTcpStateChange(s, x), p)
    PROVE  Turned(s, NutTcpStateChange(s, x), p)
<1> DEFINE t == NutTcpStateChange(s, x)
<1>1. /\ Typed(t) /\ Same(s, t, {"state", "ack", "force", "out", "nxt", "nbq"})
      /\ Follows(s.state, x) => t.state = x
      /\ ~Follows(s.state, x) => t.state = s.state
  BY StateChangeIs
<1>2. PICK what \in Kind : /\ Says(s, t, what)
                           /\ IF Follows(s.state, x) THEN Sends(s.state, x, what)
                              ELSE what = "nothing"
  BY ChangeSays
<1> HIDE DEF t
<1>3. t.app = s.app
  BY <1>1 DEF Same, Names
<1>4. what = "FIN" => t.state = "CLOSE_WAIT"
  BY <1>1, <1>2 DEF Sends
<1>5. s.app = "closed" => what = "nothing"
  <2>1. ASSUME s.app = "closed", Follows(s.state, x) PROVE what = "nothing"
    <3>1. x \in {"FIN_WAIT_2", "CLOSING", "TIME_WAIT"}
      BY <2>1 DEF ClosedState, ClosedByUs, Follows
    <3> QED BY <1>2, <2>1, <3>1 DEF Sends, Kind
  <2> QED BY <1>2, <2>1
<1>6. t.state # "GONE" => s.state # "GONE"
  BY <1>1 DEF Follows
<1>7. Speaks(s, t)
  BY <1>2, <1>3, <1>4, <1>5 DEF Speaks
<1> QED BY <1>1, <1>3, <1>6, <1>7 DEF Turned, t

SeenFields == {"state", "app", "skew", "rxNxt", "adv", "sm"}

LEMMA SeenSame ==
    ASSUME NEW s, NEW t, NEW F, NEW p, Seen(s, p), Same(s, t, F), F \cap SeenFields = {}
    PROVE  Seen(t, p)
<1>1. /\ t.state = s.state /\ t.app = s.app /\ t.skew = s.skew /\ t.rxNxt = s.rxNxt
      /\ t.adv = s.adv /\ t.sm = s.sm
  BY DEF Same, Names, SeenFields
<1> QED BY <1>1, Zenon DEF Seen, NoFin, FinHeld, Level

\* The socket of a closed application has nothing to find out about its peer.
LEMMA SeenClosed ==
    ASSUME NEW s, NEW p, s.app = "closed", s.state # "CLOSE_WAIT", NoFin(s),
           s.sm = NIL \/ s.sm.flags = {} \/ s.sm.at \in {"closewait", "finish"}
    PROVE  Seen(s, p)
BY DEF Seen, FinHeld

\* What socket t has of its peer is what s has, or less.
LEMMA SeenLess ==
    ASSUME NEW s, NEW t, NEW p, Seen(s, p), t.rxNxt = s.rxNxt, t.adv = s.adv \/ t.adv = <<>>,
           t.app # "closed" => s.app # "closed",
           t.skew = FALSE => s.skew = FALSE,
           \/ t.sm = NIL
           \/ t.sm # NIL /\ t.sm.flags = {}
           \/ t.sm = s.sm /\ t.skew = s.skew,
           \/ t.state = s.state
           \/ t.state \notin Receiving \cup {"CLOSE_WAIT"}
           \/ t.state \in Receiving /\ s.state \in Receiving
    PROVE  Seen(t, p)
<1>1. t.state = "CLOSE_WAIT" => s.state = "CLOSE_WAIT"
  BY DEF Receiving
<1>2. t.state \in Receiving => s.state \in Receiving
  OBVIOUS
<1>3. NoFin(t)
  BY DEF Seen, NoFin
<1>4. FinHeld(t, p)
  BY DEF Seen, FinHeld
<1>5. Level(s, p) => Level(t, p)
  BY <1>1, <1>2 DEF Level
<1> QED BY <1>1, <1>3, <1>4, <1>5 DEF Seen

\* The FIN of the peer, expected or not, ends the stream.
Ending(s, p) ==
    \/ s.app = "closed"
    \/ /\ s.state \in {"SYN_RECEIVED", "ESTABLISHED"} /\ p.app = "closed"
       /\ s.skew = FALSE /\ p.state # "GONE" => s.rxNxt + 1 = p.nxt

LEMMA EnterCloseWaitTurned ==
    ASSUME NEW s, Typed(s), ClosedState(s), NEW p, Seen(s, p), Ending(s, p)
    PROVE  Turned(s, EnterCloseWait(s), p)
<1> DEFINE m == [s EXCEPT !.rxNxt = @ + 1]
           t == NutTcpStateChange(m, "CLOSE_WAIT")
           u == EnterCloseWait(s)
<1>0. s.state # "CLOSE_WAIT"
  BY DEF Ending, ClosedState, ClosedByUs
<1>1. Typed(u) /\ Same(s, u, EndFields) /\ Ends(s, u) /\ u.rxNxt = s.rxNxt + 1
  BY <1>0, EnterCloseWaitIs DEF Goes
<1>2. Typed(m) /\ Same(s, m, {"rxNxt"})
  BY MoveOnIs DEF Goes
<1>3. "CLOSE_WAIT" \in State \ {"FIN_WAIT_1", "LAST_ACK"}
  BY DEF State
<1>4. u = IF t.state = "CLOSE_WAIT" THEN Then(t, "closewait", {"FIN"}) ELSE Done(t)
  BY DEF EnterCloseWait
<1> HIDE DEF m, u
<1>5. /\ Typed(t) /\ Same(m, t, {"state", "ack", "force", "out", "nxt", "nbq"})
      /\ Follows(m.state, "CLOSE_WAIT") => t.state = "CLOSE_WAIT"
      /\ ~Follows(m.state, "CLOSE_WAIT") => t.state = m.state
  BY <1>2, <1>3, StateChangeIs
<1>6. PICK what \in Kind : /\ Says(m, t, what)
                           /\ IF Follows(m.state, "CLOSE_WAIT") THEN Sends(m.state, "CLOSE_WAIT", what)
                              ELSE what = "nothing"
  BY <1>2, <1>3, ChangeSays
<1> HIDE DEF t
<1>7. Mute(s, m) /\ m.state = s.state /\ m.app = s.app
  <2>1. {"rxNxt"} \cap {"out", "nbq", "nxt"} = {}
    OBVIOUS
  <2> QED BY <1>2, <2>1, MuteSame DEF Same, Names
<1>8. Same(t, u, {"sm"}) /\ Typed(u)
  <2>1. CASE t.state = "CLOSE_WAIT"
    <3>1. u = Then(t, "closewait", {"FIN"})
      BY <1>4, <2>1
    <3>2. Same(t, Then(t, "closewait", {"FIN"}), {"sm"})
      BY <1>5, ThenIs
    <3> QED BY <1>1, <3>1, <3>2
  <2>2. CASE t.state # "CLOSE_WAIT"
    BY <1>1, <1>4, <1>5, <2>2, DoneIs
  <2> QED BY <2>1, <2>2
<1>9. Says(s, u, what)
  <2>1. Says(s, t, what)
    BY <1>6, <1>7, MuteThen
  <2>2. {"sm"} \cap {"out", "nbq", "nxt"} = {}
    OBVIOUS
  <2>3. Mute(t, u)
    BY <1>8, <2>2, MuteSame
  <2> QED BY <2>1, <2>3, ThenMute
<1>10. u.app = s.app /\ u.adv = s.adv /\ u.skew = s.skew /\ u.state = t.state
  BY <1>1, <1>8 DEF Same, Names, EndFields
<1>11. Seen(u, p)
  <2>1. NoFin(u)
    BY <1>10 DEF Seen, NoFin
  <2>2. CASE s.app = "closed"
    <3>1. u.state # "CLOSE_WAIT" /\ u.sm = NIL
      BY <1>1, <2>2 DEF Ends, ClosedState, ClosedByUs
    <3> QED BY <1>10, <2>1, <2>2, <3>1, SeenClosed
  <2>3. CASE s.app # "closed"
    <3>1. /\ p.app = "closed" /\ s.state \in {"SYN_RECEIVED", "ESTABLISHED"}
          /\ s.skew = FALSE /\ p.state # "GONE" => s.rxNxt + 1 = p.nxt
      BY <2>3 DEF Ending
    <3>2. u.state = "CLOSE_WAIT"
      BY <1>5, <1>7, <1>10, <3>1 DEF Follows
    <3>3. u.sm # NIL /\ u.sm.at = "closewait"
      BY <1>1, <3>1, <3>2 DEF Ends
    <3>4. ASSUME s.skew = FALSE, p.state # "GONE" PROVE Level(u, p)
      <4>1. Level(s, p)
        BY <2>3, <3>4 DEF Seen
      <4>2. u.rxNxt = p.nxt /\ u.rxNxt \in Nat
        BY <1>1, <3>1, <3>4 DEF Typed, Fields
      <4> QED BY <1>10, <3>2, <4>1, <4>2 DEF Level, Receiving
    <3> QED BY <1>10, <2>1, <3>1, <3>3, <3>4 DEF Seen, FinHeld
  <2> QED BY <2>2, <2>3
<1>12. u.state # "GONE" => s.state # "GONE"
  BY <1>5, <1>7, <1>10 DEF Follows
<1>13. what = "FIN" => u.state = "CLOSE_WAIT"
  BY <1>5, <1>6, <1>10 DEF Sends
<1>14. u.app = "closed" => s.app = "closed" /\ what = "nothing"
  BY <1>6, <1>7, <1>10 DEF ClosedState, ClosedByUs, Follows
<1> QED BY <1>1, <1>9, <1>10, <1>11, <1>12, <1>13, <1>14 DEF Turned, Speaks, u

LEMMA StaysTrans ==
    ASSUME NEW s, NEW t, NEW u, NEW p, Typed(s), Stays(s, t, p), Stays(t, u, p)
    PROVE  Stays(s, u, p)
BY MuteTrans DEF Stays, Alike

LEMMA StaysNothing ==
    ASSUME NEW s, NEW p, Typed(s), Seen(s, p)
    PROVE  Stays(s, s, p)
BY MuteQuietly DEF Stays, Alike

LEMMA DoneStays ==
    ASSUME NEW s, NEW p, Typed(s), Seen(s, p)
    PROVE  Stays(s, Done(s), p)
<1> DEFINE t == Done(s)
<1>1. Typed(t) /\ Same(s, t, {"sm"}) /\ t.sm = NIL
  BY DoneIs DEF Goes
<1> HIDE DEF t
<1>2. Mute(s, t)
  <2>1. {"sm"} \cap {"out", "nbq", "nxt"} = {}
    OBVIOUS
  <2> QED BY <1>1, <2>1, MuteSame
<1>3. t.state = s.state /\ t.app = s.app /\ t.skew = s.skew /\ t.rxNxt = s.rxNxt /\ t.adv = s.adv
  BY <1>1 DEF Same, Names
<1>4. Seen(t, p)
  BY <1>1, <1>3, SeenLess
<1> QED BY <1>2, <1>3, <1>4 DEF Stays, Alike, t

LEMMA ThenStays ==
    ASSUME NEW s, NEW p, Typed(s), Seen(s, p),
           NEW at \in {"absorb", "post", "finish", "closewait", "opened", "synacked", "finwait"}
    PROVE  Stays(s, Then(s, at, {}), p)
<1> DEFINE t == Then(s, at, {})
<1>1. Typed(t) /\ Same(s, t, {"sm"}) /\ t.sm # NIL /\ t.sm.flags = {}
  BY ThenIs DEF Goes
<1> HIDE DEF t
<1>2. Mute(s, t)
  <2>1. {"sm"} \cap {"out", "nbq", "nxt"} = {}
    OBVIOUS
  <2> QED BY <1>1, <2>1, MuteSame
<1>3. t.state = s.state /\ t.app = s.app /\ t.skew = s.skew /\ t.rxNxt = s.rxNxt /\ t.adv = s.adv
  BY <1>1 DEF Same, Names
<1>4. Seen(t, p)
  BY <1>1, <1>3, SeenLess
<1> QED BY <1>2, <1>3, <1>4 DEF Stays, Alike, t

\* The application goes on, or waits, but has not closed the socket.
LEMMA AppStays ==
    ASSUME NEW s, NEW t, NEW p, Typed(s), Seen(s, p), Typed(t), Same(s, t, {"app"}),
           t.app = "closed" <=> s.app = "closed"
    PROVE  Stays(s, t, p)
<1>1. Mute(s, t)
  <2>1. {"app"} \cap {"out", "nbq", "nxt"} = {}
    OBVIOUS
  <2> QED BY <2>1, MuteSame
<1>2. t.state = s.state /\ t.sm = s.sm /\ t.skew = s.skew /\ t.rxNxt = s.rxNxt /\ t.adv = s.adv
  BY DEF Same, Names
<1>3. Seen(t, p)
  BY <1>2, SeenLess
<1> QED BY <1>1, <1>2, <1>3 DEF Stays, Alike

LEMMA WakeStays ==
    ASSUME NEW s, NEW p, Typed(s), Seen(s, p)
    PROVE  Stays(s, WakeRx(s), p) /\ Stays(s, WakeTx(s), p) /\ Stays(s, WakeOpen(s), p)
BY WakeIs, AppStays

LEMMA CheckFinTurned ==
    ASSUME NEW s, Typed(s), ClosedState(s), NEW p, Seen(s, p), NEW f, f # {} => Ending(s, p)
    PROVE  Turned(s, CheckFin(s, f), p)
<1>1. CASE f = {}
  <2>1. CheckFin(s, f) = Done(s)
    BY <1>1 DEF CheckFin
  <2> QED BY <2>1, DoneStays, StaysTurned
<1>2. CASE f # {}
  <2>1. CheckFin(s, f) = EnterCloseWait(s)
    BY <1>2 DEF CheckFin
  <2> QED BY <1>2, <2>1, EnterCloseWaitTurned
<1> QED BY <1>1, <1>2

\* No segment received in advance has a FIN.
LEMMA NoFinTaken ==
    ASSUME NEW s, NoFin(s), NEW take, \A i \in DOMAIN take : Member(s.adv, take[i])
    PROVE  UNION {Fin(take[i]) : i \in DOMAIN take} = {}
<1>1. ASSUME NEW i \in DOMAIN take PROVE Fin(take[i]) = {}
  <2>1. take[i].flags = {"ACK"}
    BY DEF NoFin, Member
  <2> QED BY <2>1 DEF Fin
<1> QED BY <1>1

LEMMA AbsorbStays ==
    ASSUME NEW s, Typed(s), NEW p, Typed(p), Seen(s, p), s.state # "CLOSE_WAIT"
    PROVE  Stays(s, Absorb(s, {}), p)
<1> DEFINE take  == InSequence(s)
           k     == Len(take)
           rest  == Later(s.adv, s.rxNxt + k)
           all   == {} \cup UNION {Fin(take[i]) : i \in DOMAIN take}
           bytes == [i \in DOMAIN take |-> take[i].seq]
           got   == IF take = <<>> THEN s
                    ELSE NutTcpOutput(Buffered(s, bytes, rest = <<>>), "nothing")
           u     == [got EXCEPT !.adv = rest]
           t     == IF rest = <<>> /\ take # <<>> THEN Then(u, "post", all)
                    ELSE CheckFin(WakeRx(u), all)
<1>0. Absorb(s, {}) = t
  BY DEF Absorb
<1>1. /\ take \in Seq(Segment)
      /\ \A i \in DOMAIN take : take[i].seq = s.rxNxt + i - 1 /\ Member(s.adv, take[i])
      /\ rest \in Seq(Segment) /\ Ascending(rest)
      /\ \A i \in DOMAIN rest : Member(s.adv, rest[i])
  BY InSequenceIs
<1> HIDE DEF take, rest
<1>2. all = {}
  BY <1>1, NoFinTaken DEF Seen
<1> HIDE DEF all
<1>3. k \in Nat /\ bytes \in Seq(Nat) /\ Len(bytes) = k
  <2>1. \A i \in 1 .. k : take[i].seq \in Nat
    BY <1>1, QueueFields
  <2> QED BY <1>1, <2>1
<1> HIDE DEF bytes
<1>4. /\ Typed(got) /\ Mute(s, got) /\ got.rxNxt = s.rxNxt + k
      /\ Same(s, got, {"rxBuf", "rxCnt", "rxNxt", "rxWin", "ack", "force", "out"})
  <2>0. s.rxNxt \in Nat
    BY Numbers
  <2>1. CASE take = <<>>
    <3>1. got = s /\ k = 0
      BY <2>1
    <3>2. Mute(s, s) /\ Same(s, s, {"rxBuf", "rxCnt", "rxNxt", "rxWin", "ack", "force", "out"})
      BY MuteQuietly DEF Same
    <3> HIDE DEF got, k
    <3> QED BY <2>0, <3>1, <3>2
  <2>2. CASE take # <<>>
    <3>1. PICK l \in BOOLEAN : l <=> rest = <<>>
      OBVIOUS
    <3> DEFINE v == NutTcpOutput(Buffered(s, bytes, l), "nothing")
    <3>2. got = v
      BY <2>2, <3>1 DEF Buffered
    <3>3. /\ Typed(v) /\ v.rxNxt = s.rxNxt + Len(bytes) /\ Mute(s, v)
          /\ Same(s, v, {"rxBuf", "rxCnt", "rxNxt", "rxWin", "ack", "force", "out"})
      BY <1>3, TakenIs, TakenMute DEF Goes
    <3> HIDE DEF v, got
    <3> QED BY <1>3, <3>2, <3>3
  <2> QED BY <2>1, <2>2
<1> HIDE DEF got
<1>5. Typed(u) /\ Same(got, u, {"adv"}) /\ u.adv = rest
  BY <1>1, <1>4, SetAdvIs DEF Goes
<1> HIDE DEF u
<1>6. Mute(s, u)
  <2>1. {"adv"} \cap {"out", "nbq", "nxt"} = {}
    OBVIOUS
  <2>2. Mute(got, u)
    BY <1>5, <2>1, MuteSame
  <2> QED BY <1>4, <2>2, MuteTrans
<1>7. /\ u.state = s.state /\ u.app = s.app /\ u.skew = s.skew /\ u.sm = s.sm
      /\ u.rxNxt = s.rxNxt + k
  BY <1>4, <1>5 DEF Same, Names
<1>8. Seen(u, p)
  <2>1. ASSUME NEW i \in DOMAIN u.adv PROVE Member(s.adv, u.adv[i])
    BY <1>1, <1>5, <2>1
  <2>2. NoFin(u)
    BY <2>1 DEF Seen, NoFin, Member
  <2>3. FinHeld(u, p)
    BY <1>7 DEF Seen, FinHeld
  <2>4. ASSUME s.app # "closed", s.skew = FALSE, p.state # "GONE" PROVE Level(u, p)
    <3>1. Level(s, p)
      BY <2>4 DEF Seen
    <3>2. s.rxNxt \in Nat /\ p.nxt \in Nat
      BY Numbers
    <3>3. \A i \in DOMAIN u.adv : u.adv[i].seq < p.nxt /\ (p.app = "closed" => u.adv[i].seq + 1 < p.nxt)
      BY <2>1, <3>1 DEF Level, Member
    <3>4. s.rxNxt + k <= p.nxt /\ (s.state \in Receiving /\ p.app = "closed" => s.rxNxt + k < p.nxt)
      <4>1. CASE k = 0
        BY <3>1, <3>2, <4>1 DEF Level
      <4>2. CASE k # 0
        <5>1. k \in DOMAIN take /\ k >= 1
          BY <1>1, <1>3, <4>2
        <5>2. take[k].seq = s.rxNxt + k - 1 /\ Member(s.adv, take[k])
          BY <1>1, <5>1
        <5>3. take[k].seq < p.nxt /\ (p.app = "closed" => take[k].seq + 1 < p.nxt)
          BY <3>1, <5>2 DEF Level, Member
        <5> HIDE DEF k
        <5> QED BY <1>3, <3>2, <5>1, <5>2, <5>3
      <4> QED BY <4>1, <4>2
    <3> HIDE DEF k
    <3> QED BY <1>7, <3>3, <3>4 DEF Level
  <2>5. s.app # "closed" /\ s.skew = FALSE /\ p.state # "GONE" => Level(u, p)
    BY <2>4
  <2> HIDE DEF k
  <2> QED BY <1>7, <2>2, <2>3, <2>5 DEF Seen
<1>9. Stays(s, u, p)
  BY <1>6, <1>7, <1>8 DEF Stays, Alike
<1>10. CASE rest = <<>> /\ take # <<>>
  <2>1. t = Then(u, "post", {})
    BY <1>2, <1>10
  <2>2. Stays(u, Then(u, "post", {}), p)
    BY <1>5, <1>8, ThenStays
  <2> QED BY <1>0, <1>9, <2>1, <2>2, StaysTrans
<1>11. CASE ~(rest = <<>> /\ take # <<>>)
  <2>1. t = Done(WakeRx(u))
    BY <1>2, <1>11 DEF CheckFin
  <2>2. Stays(u, WakeRx(u), p) /\ Typed(WakeRx(u))
    BY <1>5, <1>8, WakeStays, WakeIs
  <2>3. Stays(WakeRx(u), Done(WakeRx(u)), p)
    BY <2>2, DoneStays DEF Stays
  <2> QED BY <1>0, <1>9, <2>1, <2>2, <2>3, StaysTrans
<1> QED BY <1>10, <1>11

-----------------------------------------------------------------------------
(* What the handlers do to the relation.                                   *)

LEMMA AckStays ==
    ASSUME NEW s, NEW p, Typed(s), Seen(s, p), NEW g \in Segment
    PROVE  Stays(s, NutTcpProcessAck(s, g), p)
<1> DEFINE t == NutTcpProcessAck(s, g)
           F == {"ack", "force", "win", "wl1", "wl2", "una", "nbq"}
<1>1. Mute(s, t) /\ Same(s, t, F)
  BY ProcessAckMute, ProcessAckIs
<1> HIDE DEF t
<1>2. F \cap SeenFields = {}
  BY DEF SeenFields
<1>3. Seen(t, p)
  BY <1>1, <1>2, SeenSame
<1>4. t.app = s.app /\ t.state = s.state
  BY <1>1 DEF Same, Names
<1> QED BY <1>1, <1>3, <1>4 DEF Stays, Alike, t

LEMMA AckedStays ==
    ASSUME NEW s, NEW p, Typed(s), Seen(s, p), NEW g \in Segment
    PROVE  Stays(s, Acked(s, g), p)
<1> DEFINE k == NutTcpProcessAck(s, g)
<1>1. Stays(s, k, p) /\ Typed(k)
  BY AckStays, ProcessAckIs DEF Goes
<1>2. Acked(s, g) = WakeTx(k) \/ Acked(s, g) = k
  BY DEF Acked
<1> HIDE DEF k
<1>3. Stays(k, WakeTx(k), p)
  BY <1>1, WakeStays DEF Stays
<1>4. Stays(s, WakeTx(k), p)
  BY <1>1, <1>3, StaysTrans
<1> QED BY <1>1, <1>2, <1>4

LEMMA ForceAckStays ==
    ASSUME NEW s, NEW p, Typed(s), Seen(s, p)
    PROVE  Stays(s, ForceAck(s), p)
<1> DEFINE t == ForceAck(s)
<1>1. Mute(s, t) /\ Same(s, t, {"ack", "force", "out"})
  BY ForceAckMute, ForceAckIs
<1> HIDE DEF t
<1>2. {"ack", "force", "out"} \cap SeenFields = {}
  BY DEF SeenFields
<1>3. Seen(t, p)
  BY <1>1, <1>2, SeenSame
<1>4. t.app = s.app /\ t.state = s.state
  BY <1>1 DEF Same, Names
<1> QED BY <1>1, <1>3, <1>4 DEF Stays, Alike, t

LEMMA RejectedStays ==
    ASSUME NEW s, NEW p, Typed(s), Seen(s, p), NEW g \in Segment
    PROVE  Stays(s, Rejected(s, g), p)
<1> DEFINE t == Rejected(s, g)
<1>1. Mute(s, t) /\ Same(s, t, {"out"})
  BY RejectedMute, RejectedIs
<1> HIDE DEF t
<1>2. {"out"} \cap SeenFields = {}
  BY DEF SeenFields
<1>3. Seen(t, p)
  BY <1>1, <1>2, SeenSame
<1>4. t.app = s.app /\ t.state = s.state
  BY <1>1 DEF Same, Names
<1> QED BY <1>1, <1>3, <1>4 DEF Stays, Alike, t

LEMMA AbortStays ==
    ASSUME NEW s, NEW p, Typed(s), Seen(s, p), s.state # "GONE"
    PROVE  Stays(s, NutTcpAbortSocket(s), p)
<1> DEFINE t == NutTcpAbortSocket(s)
<1>1. /\ Mute(s, t) /\ Same(s, t, {"state", "app", "rxBuf", "nbq", "adv"}) /\ t.adv = <<>>
      /\ t.state = (IF s.state \in ClosedByUs THEN "TIME_WAIT" ELSE "CLOSED")
      /\ t.app = Woken(s.app)
  BY AbortMute, AbortIs
<1> HIDE DEF t
<1>2. t.app = "closed" <=> s.app = "closed"
  BY <1>1 DEF Woken
<1>3. t.sm = s.sm /\ t.skew = s.skew /\ t.rxNxt = s.rxNxt
  BY <1>1 DEF Same, Names
<1>4. t.state \notin Receiving \cup {"CLOSE_WAIT"}
  BY <1>1 DEF Receiving
<1>5. Seen(t, p)
  BY <1>1, <1>2, <1>3, <1>4, SeenLess
<1> QED BY <1>1, <1>2, <1>5 DEF Stays, Alike, t

LEMMA DiscardStays ==
    ASSUME NEW s, NEW p, Typed(s), Seen(s, p)
    PROVE  Stays(s, NutTcpDiscardBuffers(s), p)
<1> DEFINE t == NutTcpDiscardBuffers(s)
<1>1. Mute(s, t) /\ Same(s, t, {"rxBuf", "nbq", "adv"}) /\ t.adv = <<>>
  BY DiscardMute, DiscardIs
<1> HIDE DEF t
<1>2. t.sm = s.sm /\ t.skew = s.skew /\ t.rxNxt = s.rxNxt /\ t.state = s.state /\ t.app = s.app
  BY <1>1 DEF Same, Names
<1>3. Seen(t, p)
  BY <1>1, <1>2, SeenLess
<1> QED BY <1>1, <1>2, <1>3 DEF Stays, Alike, t

\* Bytes from the stream of the peer.
LEMMA AppDataStays ==
    ASSUME NEW s, NEW p, Typed(s), Typed(p), Seen(s, p), s.state # "CLOSE_WAIT",
           NEW g \in Segment, NEW more \in BOOLEAN,
           s.app # "closed" /\ s.skew = FALSE /\ p.state # "GONE" =>
              g.seq = s.rxNxt /\ g.seq < p.nxt /\ (p.app = "closed" => g.seq + 1 < p.nxt)
    PROVE  Stays(s, NutTcpProcessAppData(s, g, more), p)
<1> DEFINE q == <<g.seq>>
           t == NutTcpProcessAppData(s, g, more)
<1>0. q \in Seq(Nat)
  BY SegmentFields
<1>1. \E l \in BOOLEAN : t = NutTcpOutput(Buffered(s, q, l), "nothing")
  <2>1. CASE more = TRUE
    <3>1. t = NutTcpOutput(Buffered(s, q, FALSE), "nothing")
      BY <2>1 DEF NutTcpProcessAppData, Buffered
    <3> QED BY <3>1
  <2>2. CASE more = FALSE
    <3>1. t = NutTcpOutput(Buffered(s, q, TRUE), "nothing")
      BY <2>2 DEF NutTcpProcessAppData, Buffered
    <3> QED BY <3>1
  <2> QED BY <2>1, <2>2
<1>2. Mute(s, t)
  <2>1. PICK l \in BOOLEAN : t = NutTcpOutput(Buffered(s, q, l), "nothing")
    BY <1>1
  <2> HIDE DEF q
  <2> QED BY <1>0, <2>1, TakenMute
<1>3. /\ Same(s, t, {"rxBuf", "rxCnt", "rxNxt", "rxWin", "ack", "force", "out"})
      /\ t.rxNxt = s.rxNxt + 1
  BY AppDataIs
<1> HIDE DEF t
<1>4. t.state = s.state /\ t.app = s.app /\ t.skew = s.skew /\ t.sm = s.sm /\ t.adv = s.adv
  BY <1>3 DEF Same, Names
<1>5. s.rxNxt \in Nat /\ p.nxt \in Nat
  BY Numbers
<1>6. ASSUME s.app # "closed", s.skew = FALSE, p.state # "GONE" PROVE Level(t, p)
  <2>1. Level(s, p)
    BY <1>6 DEF Seen
  <2>2. t.rxNxt <= p.nxt /\ (p.app = "closed" => t.rxNxt < p.nxt)
    BY <1>3, <1>5, <1>6
  <2> QED BY <1>4, <2>1, <2>2 DEF Level
<1>7. Seen(t, p)
  BY <1>4, <1>6, Zenon DEF Seen, NoFin, FinHeld
<1> QED BY <1>2, <1>4, <1>7 DEF Stays, Alike, t

\* A segment of the stream, which is kept or is not.
LEMMA InAdvanceStays ==
    ASSUME NEW s, NEW p, Typed(s), Seen(s, p), NEW g \in Segment, InStream(s, g, p),
           g.data = TRUE => g.flags = {"ACK"}, NEW keep \in BOOLEAN
    PROVE  Stays(s, InAdvance(s, g, keep), p)
<1> DEFINE t == InAdvance(s, g, keep)
<1>1. /\ Typed(t) /\ Same(s, t, {"adv"})
      /\ \/ t.adv = s.adv
         \/ /\ g.data = TRUE
            /\ \A i \in DOMAIN t.adv : t.adv[i] = g \/ Member(s.adv, t.adv[i])
  BY InAdvanceIs DEF Goes
<1> HIDE DEF t
<1>2. /\ t.state = s.state /\ t.app = s.app /\ t.skew = s.skew /\ t.sm = s.sm
      /\ t.rxNxt = s.rxNxt
  BY <1>1 DEF Same, Names
<1>3. Mute(s, t)
  <2>1. {"adv"} \cap {"out", "nbq", "nxt"} = {}
    OBVIOUS
  <2> QED BY <1>1, <2>1, MuteSame
<1>4. Seen(t, p)
  <2>1. CASE t.adv = s.adv
    BY <1>2, <2>1, SeenLess
  <2>2. CASE g.data = TRUE /\ \A i \in DOMAIN t.adv : t.adv[i] = g \/ Member(s.adv, t.adv[i])
    <3>1. NoFin(t)
      BY <2>2 DEF Seen, NoFin, Member
    <3>2. FinHeld(t, p)
      BY <1>2 DEF Seen, FinHeld
    <3>3. ASSUME s.app # "closed", s.skew = FALSE, p.state # "GONE" PROVE Level(t, p)
      <4>1. Level(s, p)
        BY <3>3 DEF Seen
      <4>2. g.seq < p.nxt /\ (p.app = "closed" => g.seq + 1 < p.nxt)
        BY <2>2, <3>3 DEF InStream, Plain
      <4>3. \A i \in DOMAIN t.adv : t.adv[i].seq < p.nxt /\ (p.app = "closed" => t.adv[i].seq + 1 < p.nxt)
        BY <2>2, <4>1, <4>2 DEF Level, Member
      <4> QED BY <1>2, <4>1, <4>3 DEF Level
    <3>4. s.app # "closed" /\ s.skew = FALSE /\ p.state # "GONE" => Level(t, p)
      BY <3>3
    <3> QED BY <1>2, <3>1, <3>2, <3>4 DEF Seen
  <2> QED BY <1>1, <2>1, <2>2
<1> QED BY <1>2, <1>3, <1>4 DEF Stays, Alike, t

\* Segment g of the peer p arrives at node e with socket s.
Arrives(e, s, g, p) ==
    Served(e, s) /\ g \in Segment /\ Fitting(e, s, g) /\ Typed(p) /\ Seen(s, p) /\ InStream(s, g, p)

LEMMA ArrivesIs ==
    ASSUME NEW e \in Node, NEW s, NEW g, NEW p, Arrives(e, s, g, p)
    PROVE  /\ Typed(s) /\ Typed(p) /\ g \in Segment /\ Seen(s, p) /\ InStream(s, g, p)
           /\ g.data = TRUE => g.flags = {"ACK"} /\ Fin(g) = {}
           /\ g.data \in BOOLEAN
           /\ s.app = "closed" <=> s.state \in ClosedByUs \cup {"GONE"}
           /\ ClosedState(s) /\ s.state # "GONE" /\ s.sm = NIL
           /\ Fin(g) # {} => "FIN" \in g.flags
           /\ Turned(s, s, p) /\ Turned(s, Rejected(s, g), p)
<1>1. Typed(s) /\ Typed(p) /\ g \in Segment /\ Seen(s, p) /\ InStream(s, g, p) /\ s.sm = NIL
  BY DEF Arrives, Served
<1>2. (g.data = TRUE => g.flags = {"ACK"}) /\ g.data \in BOOLEAN
  BY <1>1, SegmentFields DEF Arrives, Fitting
<1>3. (g.data = TRUE => Fin(g) = {}) /\ (Fin(g) # {} => "FIN" \in g.flags)
  BY <1>2 DEF Fin
<1>4. (s.app = "closed" <=> s.state \in ClosedByUs \cup {"GONE"}) /\ s.state # "GONE"
  BY ServedIs DEF Arrives, ControlOf
<1>5. Turned(s, s, p)
  BY <1>1, StaysNothing, StaysTurned
<1>6. Turned(s, Rejected(s, g), p)
  BY <1>1, RejectedStays, StaysTurned
<1> QED BY <1>1, <1>2, <1>3, <1>4, <1>5, <1>6 DEF ClosedState

\* An old segment is answered, and its FIN, if it has one, is not forgotten.
LEMMA OldStays ==
    ASSUME NEW e \in Node, NEW s, NEW g, NEW p, Arrives(e, s, g, p), s.state = "ESTABLISHED",
           g.seq < s.rxNxt, NEW a, Typed(a), Stays(s, a, p), a.state = s.state, a.app # "closed",
           a.skew = s.skew
    PROVE  Stays(s, Then(a, "finish", Fin(g)), p)
<1> DEFINE t == Then(a, "finish", Fin(g))
<1>0. /\ Typed(s) /\ Typed(p) /\ g \in Segment /\ Seen(s, p) /\ InStream(s, g, p)
      /\ Fin(g) # {} => "FIN" \in g.flags
  BY ArrivesIs
<1>1. s.app # "closed"
  BY ArrivesIs DEF ClosedByUs
<1>2. Typed(t) /\ Same(a, t, {"sm"}) /\ t.sm # NIL /\ t.sm.at = "finish" /\ t.sm.flags = Fin(g)
  <2>1. Fin(g) \in SUBSET {"FIN"}
    BY FinIs
  <2> QED BY <2>1, ThenIs DEF Goes
<1> HIDE DEF t
<1>3. Mute(a, t)
  <2>1. {"sm"} \cap {"out", "nbq", "nxt"} = {}
    OBVIOUS
  <2> QED BY <1>2, <2>1, MuteSame
<1>4. Seen(a, p)
  BY DEF Stays
<1>5. /\ t.state = a.state /\ t.app = a.app /\ t.skew = a.skew /\ t.rxNxt = a.rxNxt
      /\ t.adv = a.adv
  BY <1>2 DEF Same, Names
<1>6. FinHeld(t, p)
  <2> SUFFICES ASSUME Fin(g) # {} PROVE p.app = "closed" /\ (s.skew = TRUE \/ p.state = "GONE")
    BY <1>2, <1>5 DEF FinHeld
  <2>1. "FIN" \in g.flags /\ p.app = "closed"
    BY <1>0, <1>1 DEF InStream
  <2>2. ASSUME s.skew # TRUE, p.state # "GONE" PROVE FALSE
    <3>1. g.seq + 1 = p.nxt
      BY <1>0, <1>1, <2>1, <2>2 DEF InStream
    <3>2. s.skew = FALSE
      BY <1>0, <2>2 DEF Typed, Fields
    <3>3. s.rxNxt < p.nxt
      BY <1>0, <1>1, <2>1, <2>2, <3>2 DEF Seen, Level, Receiving
    <3>4. g.seq \in Nat /\ s.rxNxt \in Nat /\ p.nxt \in Nat
      BY <1>0, SegmentFields, Numbers
    <3> QED BY <3>1, <3>3, <3>4
  <2> QED BY <2>1, <2>2
<1>7. Seen(t, p)
  BY <1>4, <1>5, <1>6, Zenon DEF Seen, NoFin, Level
<1>8. Stays(a, t, p)
  BY <1>3, <1>5, <1>7 DEF Stays, Alike
<1> QED BY <1>0, <1>8, StaysTrans DEF t

\* The next segment of the stream.
LEMMA NextOfStream ==
    ASSUME NEW e \in Node, NEW s, NEW g, NEW p, Arrives(e, s, g, p), s.app # "closed",
           p.state # "GONE", g.data = TRUE
    PROVE  g.seq < p.nxt /\ (p.app = "closed" => g.seq + 1 < p.nxt)
BY ArrivesIs DEF InStream, Plain

LEMMA EstablishedTurned ==
    ASSUME NEW e \in Node, NEW s, NEW g, NEW p, Arrives(e, s, g, p), s.state = "ESTABLISHED",
           NEW more \in BOOLEAN, NEW keep \in BOOLEAN
    PROVE  Turned(s, NutTcpStateEstablished(s, g, more, keep), p)
<1> DEFINE t == NutTcpStateEstablished(s, g, more, keep)
<1>0. /\ Typed(s) /\ Typed(p) /\ g \in Segment /\ Seen(s, p) /\ InStream(s, g, p)
      /\ g.data = TRUE => g.flags = {"ACK"} /\ Fin(g) = {}
      /\ g.data \in BOOLEAN
      /\ Fin(g) # {} => "FIN" \in g.flags
      /\ Turned(s, s, p) /\ Turned(s, Rejected(s, g), p)
  BY ArrivesIs
<1>1. s.app # "closed"
  BY ArrivesIs DEF ClosedByUs
<1>2. CASE "RST" \in g.flags
  <2>1. t = NutTcpAbortSocket(s)
    BY <1>2 DEF NutTcpStateEstablished
  <2>2. Turned(s, NutTcpAbortSocket(s), p)
    BY <1>0, AbortStays, StaysTurned
  <2> QED BY <2>1, <2>2
<1>3. CASE "RST" \notin g.flags /\ "SYN" \in g.flags
  <2>1. t = Rejected(s, g) \/ t = s
    BY <1>3 DEF NutTcpStateEstablished
  <2> QED BY <1>0, <2>1
<1>4. CASE g.flags \cap {"RST", "SYN", "ACK"} = {}
  <2>1. t = s
    BY <1>4 DEF NutTcpStateEstablished
  <2> QED BY <1>0, <2>1
<1>5. CASE "RST" \notin g.flags /\ "SYN" \notin g.flags /\ "ACK" \in g.flags
  <2> DEFINE a == Acked(s, g)
             d == NutTcpProcessAppData(a, g, more)
             f == Fin(g)
             k == InAdvance(a, g, keep)
  <2>1. t = IF Ahead(s, g) THEN ForceAck(k)
            ELSE IF Unexpected(s, g) THEN Then(ForceAck(a), "finish", f)
            ELSE IF ~g.data THEN CheckFin(a, f)
            ELSE IF Sent(d) THEN Then(d, "absorb", f) ELSE Absorb(d, f)
    BY <1>5 DEF NutTcpStateEstablished, Acked
  <2>2. Stays(s, a, p) /\ Typed(a) /\ Same(s, a, AckFields)
    BY <1>0, <1>5, AckedStays, AckedIs DEF Goes
  <2> HIDE DEF t, a
  <2>3. Seen(a, p) /\ Mute(s, a) /\ Alike(s, a) /\ a.app # "closed"
    BY <1>1, <2>2 DEF Stays, Alike
  <2>4. a.state = s.state /\ a.rxNxt = s.rxNxt /\ a.skew = s.skew
    BY <2>2 DEF Same, Names, AckFields
  <2>5. InStream(a, g, p)
    BY <1>0, <1>1, <2>3 DEF InStream
  <2>6. CASE g.seq > s.rxNxt
    <3>1. t = ForceAck(k)
      BY <2>1, <2>6 DEF Ahead
    <3>2. Stays(a, k, p)
      BY <1>0, <2>2, <2>3, <2>5, InAdvanceStays
    <3> HIDE DEF k
    <3>3. Typed(k) /\ Seen(k, p)
      BY <3>2 DEF Stays, Mute
    <3>4. Stays(k, ForceAck(k), p)
      BY <3>3, ForceAckStays
    <3>5. Stays(a, ForceAck(k), p)
      BY <2>2, <3>2, <3>4, StaysTrans
    <3>6. Stays(s, ForceAck(k), p)
      BY <1>0, <2>2, <3>5, StaysTrans
    <3> QED BY <3>1, <3>6, StaysTurned DEF t
  <2>7. CASE ~(g.seq > s.rxNxt) /\ g.seq # s.rxNxt
    <3>1. t = Then(ForceAck(a), "finish", f)
      BY <2>1, <2>7 DEF Ahead, Unexpected
    <3>2. Stays(a, ForceAck(a), p) /\ Same(a, ForceAck(a), {"ack", "force", "out"})
      BY <2>2, <2>3, ForceAckStays, ForceAckIs
    <3>3. Stays(s, ForceAck(a), p) /\ Typed(ForceAck(a))
      BY <1>0, <2>2, <3>2, StaysTrans, ForceAckIs
    <3>4. /\ ForceAck(a).state = s.state /\ ForceAck(a).app # "closed"
          /\ ForceAck(a).skew = s.skew
      BY <2>3, <2>4, <3>2 DEF Same, Names
    <3>5. g.seq < s.rxNxt
      BY <1>0, <2>7, SegmentFields, Numbers
    <3>6. Stays(s, Then(ForceAck(a), "finish", f), p)
      BY <3>3, <3>4, <3>5, OldStays
    <3> QED BY <3>1, <3>6, StaysTurned DEF t
  <2>8. CASE g.seq = s.rxNxt /\ g.data = FALSE
    <3>0. ~(g.seq > s.rxNxt)
      BY <1>0, <2>8, SegmentFields
    <3>1. t = CheckFin(a, f)
      BY <2>1, <2>8, <3>0 DEF Ahead, Unexpected
    <3>2. f # {} => Ending(a, p)
      <4> SUFFICES ASSUME f # {} PROVE Ending(a, p)
        OBVIOUS
      <4>1. "FIN" \in g.flags /\ p.app = "closed"
        BY <1>0, <1>1 DEF InStream
      <4>2. p.state # "GONE" => g.seq + 1 = p.nxt
        BY <1>0, <1>1, <4>1 DEF InStream
      <4> QED BY <2>4, <2>8, <4>1, <4>2 DEF Ending
    <3>3. ClosedState(a)
      BY <2>3 DEF ClosedState
    <3>4. Turned(a, CheckFin(a, f), p)
      BY <2>2, <2>3, <3>2, <3>3, CheckFinTurned
    <3> QED BY <1>0, <2>3, <3>1, <3>4, MuteTurned DEF t
  <2>9. CASE g.seq = s.rxNxt /\ g.data = TRUE
    <3>0. ~(g.seq > s.rxNxt)
      BY <1>0, <2>9, SegmentFields
    <3>1. t = Then(d, "absorb", {}) \/ t = Absorb(d, {})
      BY <1>0, <2>1, <2>9, <3>0 DEF Ahead, Unexpected
    <3>2. Stays(a, d, p) /\ Typed(d)
      <4>1. p.state # "GONE" => g.seq < p.nxt /\ (p.app = "closed" => g.seq + 1 < p.nxt)
        BY <1>1, <2>9, NextOfStream
      <4> QED BY <1>0, <2>2, <2>3, <2>4, <2>9, <4>1, AppDataStays, AppDataIs DEF Goes
    <3>3. d.state = a.state
      <4>1. Same(a, d, {"rxBuf", "rxCnt", "rxNxt", "rxWin", "ack", "force", "out"})
        BY <1>0, <2>2, AppDataIs
      <4> QED BY <4>1 DEF Same, Names
    <3> HIDE DEF d
    <3>4. Stays(s, d, p) /\ Seen(d, p)
      BY <1>0, <2>2, <3>2, StaysTrans DEF Stays
    <3>5. Stays(d, Then(d, "absorb", {}), p)
      BY <3>2, <3>4, ThenStays
    <3>6. Stays(d, Absorb(d, {}), p)
      BY <1>0, <2>4, <3>2, <3>3, <3>4, AbsorbStays
    <3>7. Stays(s, Then(d, "absorb", {}), p) /\ Stays(s, Absorb(d, {}), p)
      BY <1>0, <3>4, <3>5, <3>6, StaysTrans
    <3> QED BY <3>1, <3>7, StaysTurned DEF t
  <2> QED BY <1>0, <2>6, <2>7, <2>8, <2>9 DEF t
<1> QED BY <1>2, <1>3, <1>4, <1>5

-----------------------------------------------------------------------------
(* The states in which the connection is opened.                           *)

\* A SYN is taken from the peer.
LEMMA SynTaken ==
    ASSUME NEW s, Typed(s), NEW p, Typed(p), Seen(s, p), s.adv = <<>>,
           s.state \in {"LISTEN", "SYN_SENT"},
           NEW g \in Segment, InStream(s, g, p), "SYN" \in g.flags
    PROVE  /\ Stays(s, NutTcpProcessSyn(s, g), p) /\ Typed(NutTcpProcessSyn(s, g))
           /\ NutTcpProcessSyn(s, g).app = s.app /\ NutTcpProcessSyn(s, g).state = s.state
<1> DEFINE k == NutTcpProcessSyn(s, g)
           F == {"rxIsn", "rxNxt", "wl1", "win"}
<1>1. Typed(k) /\ Same(s, k, F) /\ k.rxNxt = g.seq + 1
  BY ProcessSynIs
<1> HIDE DEF k
<1>2. Mute(s, k)
  <2>1. F \cap {"out", "nbq", "nxt"} = {}
    OBVIOUS
  <2> QED BY <1>1, <2>1, MuteSame
<1>3. /\ k.state = s.state /\ k.app = s.app /\ k.skew = s.skew /\ k.sm = s.sm /\ k.adv = s.adv
  BY <1>1 DEF Same, Names
<1>4. ASSUME s.app # "closed", p.state # "GONE" PROVE Level(k, p)
  <2>1. g.seq < p.nxt /\ (p.app = "closed" => g.seq + 1 < p.nxt)
    BY <1>4 DEF InStream, Plain
  <2>2. g.seq \in Nat /\ p.nxt \in Nat
    BY SegmentFields, Numbers
  <2>3. k.rxNxt <= p.nxt /\ (p.app = "closed" => k.rxNxt < p.nxt)
    BY <1>1, <2>1, <2>2
  <2> QED BY <1>3, <2>3 DEF Level
<1>5. Seen(k, p)
  BY <1>3, <1>4 DEF Seen, NoFin, FinHeld
<1> QED BY <1>1, <1>2, <1>3, <1>5 DEF Stays, Alike, k

LEMMA SynStays ==
    ASSUME NEW e \in Node, NEW s, NEW g, NEW p, Arrives(e, s, g, p), "SYN" \in g.flags,
           s.state \in {"LISTEN", "SYN_SENT"}
    PROVE  /\ Stays(s, NutTcpProcessSyn(s, g), p) /\ Typed(NutTcpProcessSyn(s, g))
           /\ NutTcpProcessSyn(s, g).app = s.app /\ NutTcpProcessSyn(s, g).state = s.state
<1>1. Typed(s) /\ Typed(p) /\ g \in Segment /\ Seen(s, p) /\ InStream(s, g, p)
  BY ArrivesIs
<1>2. s.adv = <<>>
  BY DEF Arrives, Served, Good, Blank, Opening
<1> QED BY <1>1, <1>2, SynTaken

\* A change to another state of an open connection, whose stream goes on.
LEMMA OpenTurned ==
    ASSUME NEW s, NEW p, Typed(s), ClosedState(s), Seen(s, p),
           NEW x \in {"LISTEN", "SYN_RECEIVED", "ESTABLISHED"}, x = "LISTEN" => s.state # "CLOSED"
    PROVE  Turned(s, NutTcpStateChange(s, x), p)
<1> DEFINE t == NutTcpStateChange(s, x)
<1>0. x \in State \ {"FIN_WAIT_1", "LAST_ACK"}
  BY DEF State
<1>1. /\ Same(s, t, {"state", "ack", "force", "out", "nxt", "nbq"})
      /\ Follows(s.state, x) => t.state = x
      /\ ~Follows(s.state, x) => t.state = s.state
  BY <1>0, StateChangeIs
<1> HIDE DEF t
<1>2. /\ t.app = s.app /\ t.skew = s.skew /\ t.sm = s.sm /\ t.adv = s.adv /\ t.rxNxt = s.rxNxt
  BY <1>1 DEF Same, Names
<1>3. \/ t.state = s.state
      \/ t.state \notin Receiving \cup {"CLOSE_WAIT"}
      \/ t.state \in Receiving /\ s.state \in Receiving
  BY <1>1 DEF Follows, Receiving
<1>4. Seen(t, p)
  BY <1>2, <1>3, SeenLess
<1> QED BY <1>0, <1>4, ChangeTurned DEF t

LEMMA ListenTurned ==
    ASSUME NEW e \in Node, NEW s, NEW g, NEW p, Arrives(e, s, g, p), s.state = "LISTEN"
    PROVE  Turned(s, NutTcpStateListen(s, g), p)
<1> DEFINE k == NutTcpProcessSyn(s, g)
           t == NutTcpStateListen(s, g)
<1>0. Typed(s) /\ ClosedState(s) /\ Turned(s, Rejected(s, g), p)
  BY ArrivesIs
<1>1. CASE g.flags \cap {"SYN", "ACK", "RST"} = {"SYN"}
  <2>1. t = NutTcpStateChange(k, "SYN_RECEIVED")
    BY <1>1 DEF NutTcpStateListen
  <2>2. Stays(s, k, p) /\ Typed(k) /\ k.app = s.app /\ k.state = s.state
    BY <1>1, SynStays
  <2> HIDE DEF k, t
  <2>3. ClosedState(k) /\ Seen(k, p)
    BY <1>0, <2>2 DEF ClosedState, Stays
  <2>4. Turned(k, NutTcpStateChange(k, "SYN_RECEIVED"), p)
    BY <2>2, <2>3, OpenTurned
  <2> QED BY <1>0, <2>1, <2>2, <2>4, MuteTurned DEF t, Stays
<1>2. CASE g.flags \cap {"SYN", "ACK", "RST"} # {"SYN"}
  BY <1>0, <1>2 DEF NutTcpStateListen
<1> QED BY <1>1, <1>2

LEMMA SynSentTurned ==
    ASSUME NEW e \in Node, NEW s, NEW g, NEW p, Arrives(e, s, g, p), s.state = "SYN_SENT"
    PROVE  Turned(s, NutTcpStateSynSent(s, g), p)
<1> DEFINE t == NutTcpStateSynSent(s, g)
           k == NutTcpProcessSyn(s, g)
           a == NutTcpProcessAck(k, g)
           c == NutTcpStateChange(a, "ESTABLISHED")
           u == Then(c, "opened", {})
<1>0. /\ Typed(s) /\ ClosedState(s) /\ g \in Segment /\ Seen(s, p) /\ s.state # "GONE"
      /\ Turned(s, Rejected(s, g), p) /\ Turned(s, s, p)
  BY ArrivesIs
<1>1. Turned(s, NutTcpAbortSocket(s), p)
  BY <1>0, AbortStays, StaysTurned
<1>2. CASE \/ "ACK" \in g.flags /\ g.ack \notin 1 .. s.nxt
           \/ "RST" \in g.flags
           \/ "SYN" \notin g.flags
  <2>1. t = s \/ t = Rejected(s, g) \/ t = NutTcpAbortSocket(s)
    BY <1>2 DEF NutTcpStateSynSent
  <2> QED BY <1>0, <1>1, <2>1
<1>3. CASE /\ ~("ACK" \in g.flags /\ g.ack \notin 1 .. s.nxt)
           /\ "RST" \notin g.flags /\ "SYN" \in g.flags
  <2>1. t = NutTcpStateChange(k, "SYN_RECEIVED") \/ t = u
    BY <1>3 DEF NutTcpStateSynSent
  <2>2. Stays(s, k, p) /\ Typed(k) /\ k.app = s.app /\ k.state = s.state
    BY <1>3, SynStays
  <2> HIDE DEF k, t
  <2>3. ClosedState(k) /\ Seen(k, p) /\ Mute(s, k) /\ Alike(s, k)
    BY <1>0, <2>2 DEF ClosedState, Stays
  <2>4. Turned(s, NutTcpStateChange(k, "SYN_RECEIVED"), p)
    <3>1. Turned(k, NutTcpStateChange(k, "SYN_RECEIVED"), p)
      BY <2>2, <2>3, OpenTurned
    <3> QED BY <1>0, <2>3, <3>1, MuteTurned
  <2>5. Stays(k, a, p) /\ Typed(a) /\ a.app = k.app /\ a.state = k.state
    <3>1. Same(k, a, {"ack", "force", "win", "wl1", "wl2", "una", "nbq"}) /\ Goes(k, a)
      BY <1>0, <2>2, ProcessAckIs
    <3> QED BY <1>0, <2>2, <2>3, <3>1, AckStays DEF Goes, Same, Names
  <2> HIDE DEF a
  <2>6. ClosedState(a) /\ Seen(a, p)
    BY <2>3, <2>5 DEF ClosedState, Stays
  <2>7. Turned(a, c, p)
    BY <2>5, <2>6, OpenTurned
  <2> HIDE DEF c
  <2>8. Turned(s, c, p) /\ Typed(c) /\ Seen(c, p)
    <3>1. Stays(s, a, p)
      BY <1>0, <2>2, <2>5, StaysTrans
    <3> QED BY <1>0, <2>7, <3>1, MuteTurned DEF Stays, Turned
  <2>9. Stays(c, u, p) /\ u.state = c.state
    <3>1. Same(c, u, {"sm"})
      BY <2>8, ThenIs
    <3> QED BY <2>8, <3>1, ThenStays DEF Same, Names
  <2>10. Turned(s, u, p)
    BY <1>0, <2>8, <2>9, TurnedMute DEF Stays
  <2> QED BY <2>1, <2>4, <2>10 DEF t
<1> QED BY <1>2, <1>3

LEMMA SkewedStays ==
    ASSUME NEW e \in Node, NEW s, NEW g, NEW p, Arrives(e, s, g, p)
    PROVE  LET t == Skewed(s, g)
           IN  /\ Stays(s, t, p) /\ Typed(t) /\ Seen(t, p)
               /\ t.rxNxt = s.rxNxt /\ t.state = s.state /\ t.app = s.app
               /\ t.skew = FALSE /\ (g.data = TRUE \/ Fin(g) # {}) => g.seq = s.rxNxt
<1> DEFINE k == NutTcpProcessAck(s, g)
           t == Skewed(s, g)
<1>0. Typed(s) /\ g \in Segment /\ Seen(s, p) /\ s.sm = NIL /\ Tidy(s)
  BY ArrivesIs, ServedIs DEF Arrives
<1>1. Typed(t) /\ Same(s, t, (AckFields \ {"app"}) \cup {"skew"})
  BY <1>0, SkewedIs DEF Goes
<1>2. /\ t.rxNxt = s.rxNxt /\ t.state = s.state /\ t.app = s.app /\ t.sm = s.sm /\ t.adv = s.adv
  BY <1>1 DEF Same, Names, AckFields
<1>3. /\ Typed(k) /\ k.skew = s.skew /\ s.skew \in BOOLEAN /\ Mute(s, k)
  <2>1. Goes(s, k) /\ Same(s, k, {"ack", "force", "win", "wl1", "wl2", "una", "nbq"})
    BY <1>0, ProcessAckIs
  <2> QED BY <1>0, <2>1, ProcessAckMute DEF Goes, Same, Names, Typed, Fields
<1>4. t = [k EXCEPT !.skew = @ \/ ((g.data \/ Fin(g) # {}) /\ g.seq # s.rxNxt)]
  BY DEF Skewed
<1> HIDE DEF k, t
<1>5. t.skew = (k.skew \/ ((g.data \/ Fin(g) # {}) /\ g.seq # s.rxNxt))
  BY <1>3, <1>4 DEF Typed, Shaped, Names
<1>6. t.out = k.out /\ t.nbq = k.nbq /\ t.nxt = k.nxt
  BY <1>3, <1>4 DEF Typed, Shaped, Names
<1>7. Mute(s, t)
  <2>1. Mute(k, t)
    BY <1>1, <1>6, MuteQuietly
  <2> QED BY <1>0, <1>3, <2>1, MuteTrans
<1>8. t.skew = FALSE => s.skew = FALSE /\ (g.data = TRUE \/ Fin(g) # {} => g.seq = s.rxNxt)
  BY <1>3, <1>5
<1>9. Seen(t, p)
  BY <1>0, <1>2, <1>8, SeenLess
<1> QED BY <1>1, <1>2, <1>7, <1>8, <1>9 DEF Stays, Alike, t

LEMMA SynAckedTurned ==
    ASSUME NEW s, NEW p, Typed(s), ClosedState(s), Seen(s, p), NEW f, f # {} => Ending(s, p)
    PROVE  Turned(s, SynAcked(s, f), p)
<1>1. CASE f # {}
  <2>1. SynAcked(s, f) = EnterCloseWait(s)
    BY <1>1 DEF SynAcked
  <2> QED BY <1>1, <2>1, EnterCloseWaitTurned
<1>2. CASE f = {}
  <2> DEFINE c == NutTcpStateChange(s, "ESTABLISHED")
             w == WakeOpen(c)
             d == Done(w)
  <2>1. SynAcked(s, f) = d
    BY <1>2 DEF SynAcked
  <2>2. Turned(s, c, p) /\ Typed(c) /\ Seen(c, p)
    BY OpenTurned DEF Turned
  <2> HIDE DEF c
  <2>3. Stays(c, w, p) /\ Typed(w) /\ Same(c, w, {"app"})
    BY <2>2, WakeStays, WakeIs
  <2> HIDE DEF w
  <2>4. Stays(w, d, p) /\ Same(w, d, {"sm"})
    BY <2>3, DoneStays, DoneIs DEF Stays
  <2>5. Stays(c, d, p) /\ d.state = c.state
    BY <2>2, <2>3, <2>4, StaysTrans DEF Same, Names
  <2> QED BY <2>1, <2>2, <2>5, TurnedMute DEF Stays
<1> QED BY <1>1, <1>2

LEMMA SynReceivedTurned ==
    ASSUME NEW e \in Node, NEW s, NEW g, NEW p, Arrives(e, s, g, p), s.state = "SYN_RECEIVED",
           NEW more \in BOOLEAN
    PROVE  Turned(s, NutTcpStateSynReceived(s, g, more), p)
<1> DEFINE r == NutTcpStateSynReceived(s, g, more)
           a == Skewed(s, g)
           t == NutTcpProcessAppData(a, g, more)
<1>0. /\ Typed(s) /\ Typed(p) /\ g \in Segment /\ Seen(s, p) /\ InStream(s, g, p) /\ ClosedState(s)
      /\ g.data = TRUE => g.flags = {"ACK"} /\ Fin(g) = {}
      /\ g.data \in BOOLEAN /\ s.state # "GONE"
      /\ Fin(g) # {} => "FIN" \in g.flags
      /\ Turned(s, s, p) /\ Turned(s, Rejected(s, g), p)
  BY ArrivesIs
<1>1. s.app # "closed"
  BY ArrivesIs DEF ClosedByUs
<1>2. CASE "RST" \in g.flags
  <2> DEFINE c == NutTcpStateChange(s, "LISTEN")
             b == NutTcpAbortSocket(s)
  <2>1. r = NutTcpDiscardBuffers(c) \/ r = NutTcpDiscardBuffers(b)
    BY <1>2 DEF NutTcpStateSynReceived
  <2>2. Turned(s, c, p)
    BY <1>0, OpenTurned
  <2>3. Turned(s, b, p)
    BY <1>0, AbortStays, StaysTurned
  <2> HIDE DEF c, b
  <2>4. ASSUME NEW x, Turned(s, x, p) PROVE Turned(s, NutTcpDiscardBuffers(x), p)
    <3>1. Typed(x) /\ Seen(x, p)
      BY <2>4 DEF Turned
    <3>2. Stays(x, NutTcpDiscardBuffers(x), p) /\ Same(x, NutTcpDiscardBuffers(x), {"rxBuf", "nbq", "adv"})
      BY <3>1, DiscardStays, DiscardIs
    <3>3. NutTcpDiscardBuffers(x).state = x.state
      BY <3>2 DEF Same, Names
    <3> QED BY <1>0, <2>4, <3>2, <3>3, TurnedMute DEF Stays
  <2> QED BY <2>1, <2>2, <2>3, <2>4
<1>3. CASE "RST" \notin g.flags /\ "SYN" \in g.flags
  <2>1. r = Rejected(s, g)
    BY <1>3 DEF NutTcpStateSynReceived
  <2> QED BY <1>0, <2>1
<1>4. CASE g.flags \cap {"RST", "SYN", "ACK"} = {}
  <2>1. r = s
    BY <1>4 DEF NutTcpStateSynReceived
  <2> QED BY <1>0, <2>1
<1>5. CASE "RST" \notin g.flags /\ "SYN" \notin g.flags /\ "ACK" \in g.flags
  <2>1. r = IF g.ack \notin s.una + 1 .. s.nxt THEN Rejected(s, g)
            ELSE IF ~g.data THEN SynAcked(a, Fin(g))
            ELSE IF Sent(t) THEN Then(t, "synacked", Fin(g)) ELSE SynAcked(t, Fin(g))
    BY <1>5 DEF NutTcpStateSynReceived, Skewed
  <2>2. /\ Stays(s, a, p) /\ Typed(a) /\ Seen(a, p)
        /\ a.rxNxt = s.rxNxt /\ a.state = s.state /\ a.app = s.app
        /\ a.skew = FALSE /\ (g.data = TRUE \/ Fin(g) # {}) => g.seq = s.rxNxt
    BY SkewedStays
  <2> HIDE DEF a, r
  <2>3. ClosedState(a) /\ Mute(s, a) /\ Alike(s, a)
    BY <1>0, <2>2 DEF ClosedState, Stays
  <2>4. CASE g.data = FALSE
    <3>1. Fin(g) # {} => Ending(a, p)
      <4> SUFFICES ASSUME Fin(g) # {} PROVE Ending(a, p)
        OBVIOUS
      <4>1. "FIN" \in g.flags /\ p.app = "closed"
        BY <1>0, <1>1 DEF InStream
      <4>2. p.state # "GONE" => g.seq + 1 = p.nxt
        BY <1>0, <1>1, <4>1 DEF InStream
      <4> QED BY <2>2, <4>1, <4>2 DEF Ending
    <3>2. Turned(a, SynAcked(a, Fin(g)), p)
      BY <2>2, <2>3, <3>1, SynAckedTurned
    <3>3. Turned(s, SynAcked(a, Fin(g)), p)
      BY <1>0, <2>3, <3>2, MuteTurned
    <3> QED BY <1>0, <2>1, <2>4, <3>3 DEF r
  <2>5. CASE g.data = TRUE
    <3>1. Stays(a, t, p) /\ Typed(t) /\ Same(a, t, {"rxBuf", "rxCnt", "rxNxt", "rxWin", "ack", "force", "out"})
      <4>1. p.state # "GONE" => g.seq < p.nxt /\ (p.app = "closed" => g.seq + 1 < p.nxt)
        BY <1>1, <2>5, NextOfStream
      <4> QED BY <1>0, <2>2, <2>5, <4>1, AppDataStays, AppDataIs DEF Goes
    <3> HIDE DEF t
    <3>2. Stays(s, t, p) /\ Seen(t, p)
      BY <1>0, <2>2, <3>1, StaysTrans DEF Stays
    <3>3. ClosedState(t) /\ Mute(s, t) /\ Alike(s, t)
      <4>1. t.app = a.app /\ t.state = a.state
        BY <3>1 DEF Same, Names
      <4> QED BY <2>3, <3>2, <4>1 DEF ClosedState, Stays
    <3>4. Turned(s, SynAcked(t, {}), p)
      <4>1. Turned(t, SynAcked(t, {}), p)
        BY <3>1, <3>2, <3>3, SynAckedTurned
      <4> QED BY <1>0, <3>3, <4>1, MuteTurned
    <3>5. Turned(s, Then(t, "synacked", {}), p)
      <4>1. Stays(t, Then(t, "synacked", {}), p)
        BY <3>1, <3>2, ThenStays
      <4> QED BY <1>0, <3>2, <4>1, StaysTrans, StaysTurned
    <3> QED BY <1>0, <2>1, <2>5, <3>4, <3>5 DEF r
  <2> QED BY <1>0, <2>4, <2>5
<1> QED BY <1>2, <1>3, <1>4, <1>5

-----------------------------------------------------------------------------
(* The states in which the application has closed the socket.               *)

\* Nothing with a number is sent any more.
LEMMA ClosedChangeMute ==
    ASSUME NEW s, Typed(s), s.state \in ClosedByUs, NEW x \in State
    PROVE  Mute(s, NutTcpStateChange(s, x))
<1> DEFINE t == NutTcpStateChange(s, x)
<1>1. Typed(t)
  BY StateChangeIs
<1>2. PICK what \in Kind : /\ Says(s, t, what)
                           /\ IF Follows(s.state, x) THEN Sends(s.state, x, what)
                              ELSE what = "nothing"
  BY ChangeSays
<1> HIDE DEF t
<1>3. what = "nothing"
  <2>1. ASSUME Follows(s.state, x) PROVE what = "nothing"
    <3>1. x \in {"FIN_WAIT_2", "CLOSING", "TIME_WAIT"}
      BY <2>1 DEF ClosedByUs, Follows
    <3> QED BY <1>2, <2>1, <3>1 DEF Sends, Kind
  <2> QED BY <1>2, <2>1
<1> QED BY <1>1, <1>2, <1>3 DEF Mute, t

\* Socket t of a closed application has come from s without a word, and holds no FIN.
Leaves(s, t) ==
    /\ Mute(s, t) /\ NoFin(t)
    /\ t.app = "closed" /\ t.state \in ClosedByUs
    /\ t.sm = NIL \/ t.sm.flags = {}

LEMMA LeavesTurned ==
    ASSUME NEW s, NEW t, NEW p, s.state \in ClosedByUs, s.app = "closed", Leaves(s, t)
    PROVE  Turned(s, t, p)
<1>1. t.state # "CLOSE_WAIT" /\ s.state # "GONE" /\ t.state # "GONE"
  BY DEF Leaves, ClosedByUs
<1>2. Seen(t, p)
  BY <1>1, SeenClosed DEF Leaves
<1>3. Stays(s, t, p)
  BY <1>1, <1>2 DEF Leaves, Stays, Alike
<1> QED BY <1>3, StaysTurned

LEMMA LeavesTrans ==
    ASSUME NEW s, NEW t, NEW u, Typed(s), Leaves(s, t), Leaves(t, u)
    PROVE  Leaves(s, u)
BY MuteTrans DEF Leaves

\* Socket s of a closed application at the end of a handler.
Leaving(s) ==
    /\ Typed(s) /\ NoFin(s)
    /\ s.app = "closed" /\ s.state \in ClosedByUs
    /\ s.sm = NIL \/ s.sm.flags = {}

LEMMA LeavesIs ==
    ASSUME NEW s, NEW t, Leaves(s, t)
    PROVE  Leaving(t)
BY DEF Leaves, Leaving, Mute

LEMMA LeavesSame ==
    ASSUME NEW s, NEW t, NEW F, Leaving(s), Mute(s, t), Same(s, t, F),
           F \cap {"app", "adv", "sm"} = {}, t.state \in ClosedByUs
    PROVE  Leaves(s, t)
<1>1. t.app = s.app /\ t.adv = s.adv /\ t.sm = s.sm
  BY DEF Same, Names
<1> QED BY <1>1 DEF Leaves, Leaving, NoFin

LEMMA LeavesAck ==
    ASSUME NEW s, Leaving(s), NEW g \in Segment
    PROVE  Leaves(s, NutTcpProcessAck(s, g)) /\ NutTcpProcessAck(s, g).state = s.state
<1> DEFINE t == NutTcpProcessAck(s, g)
           F == {"ack", "force", "win", "wl1", "wl2", "una", "nbq"}
<1>1. Mute(s, t) /\ Same(s, t, F)
  BY ProcessAckMute, ProcessAckIs DEF Leaving
<1> HIDE DEF t
<1>2. t.state = s.state /\ F \cap {"app", "adv", "sm"} = {}
  BY <1>1 DEF Same, Names
<1> QED BY <1>1, <1>2, LeavesSame DEF t, Leaving

LEMMA LeavesChange ==
    ASSUME NEW s, Leaving(s), NEW x \in {"FIN_WAIT_2", "CLOSING", "TIME_WAIT"}
    PROVE  Leaves(s, NutTcpStateChange(s, x))
<1> DEFINE t == NutTcpStateChange(s, x)
           F == {"state", "ack", "force", "out", "nxt", "nbq"}
<1>0. x \in State /\ x \in ClosedByUs
  BY DEF State, ClosedByUs
<1>1. /\ Same(s, t, F)
      /\ Follows(s.state, x) => t.state = x
      /\ ~Follows(s.state, x) => t.state = s.state
  BY <1>0, StateChangeIs DEF Leaving
<1>2. Mute(s, t)
  BY <1>0, ClosedChangeMute DEF Leaving
<1> HIDE DEF t
<1>3. t.state \in ClosedByUs
  BY <1>0, <1>1 DEF Leaving
<1>4. F \cap {"app", "adv", "sm"} = {}
  OBVIOUS
<1> QED BY <1>1, <1>2, <1>3, <1>4, LeavesSame DEF t

LEMMA LeavesDone ==
    ASSUME NEW s, Leaving(s)
    PROVE  /\ Leaves(s, Done(s))
           /\ \A at \in {"absorb", "post", "finish", "closewait", "opened", "synacked", "finwait"} :
                 Leaves(s, Then(s, at, {}))
<1>1. ASSUME NEW t, Typed(t), Same(s, t, {"sm"}), t.sm = NIL \/ t.sm.flags = {}
      PROVE  Leaves(s, t)
  <2>1. Mute(s, t)
    <3>1. {"sm"} \cap {"out", "nbq", "nxt"} = {}
      OBVIOUS
    <3> QED BY <1>1, <3>1, MuteSame
  <2>2. t.app = s.app /\ t.adv = s.adv /\ t.state = s.state
    BY <1>1 DEF Same, Names
  <2> QED BY <1>1, <2>1, <2>2 DEF Leaves, Leaving, NoFin
<1>2. Leaves(s, Done(s))
  BY <1>1, DoneIs DEF Leaving, Goes
<1>3. ASSUME NEW at \in {"absorb", "post", "finish", "closewait", "opened", "synacked", "finwait"}
      PROVE  Leaves(s, Then(s, at, {}))
  BY <1>1, ThenIs DEF Leaving, Goes
<1> QED BY <1>2, <1>3

LEMMA FinReceivedLeaves ==
    ASSUME NEW s, Leaving(s), NEW f
    PROVE  Leaves(s, FinReceived(s, f))
<1> DEFINE x == IF s.state = "FIN_WAIT_2" THEN "TIME_WAIT" ELSE "CLOSING"
           u == [s EXCEPT !.rxNxt = @ + 1]
           c == NutTcpStateChange(u, x)
<1>0. x \in {"FIN_WAIT_2", "CLOSING", "TIME_WAIT"} /\ Typed(s)
  BY DEF Leaving
<1>1. CASE f = {}
  <2>1. FinReceived(s, f) = Done(s)
    BY <1>1 DEF FinReceived
  <2> QED BY <2>1, LeavesDone
<1>2. CASE f # {}
  <2>1. FinReceived(s, f) = Done(c)
    BY <1>2 DEF FinReceived
  <2> HIDE DEF x
  <2>2. Typed(u) /\ Same(s, u, {"rxNxt"})
    BY <1>0, MoveOnIs DEF Goes
  <2> HIDE DEF u
  <2>3. Leaves(s, u)
    <3>1. {"rxNxt"} \cap {"out", "nbq", "nxt"} = {} /\ {"rxNxt"} \cap {"app", "adv", "sm"} = {}
      OBVIOUS
    <3>2. u.state \in ClosedByUs
      BY <2>2 DEF Same, Names, Leaving
    <3> QED BY <2>2, <3>1, <3>2, MuteSame, LeavesSame
  <2>4. Leaves(u, c)
    BY <1>0, <2>3, LeavesIs, LeavesChange
  <2> HIDE DEF c
  <2>5. Leaves(c, Done(c))
    BY <2>4, LeavesIs, LeavesDone
  <2>6. Leaves(s, c)
    BY <1>0, <2>3, <2>4, LeavesTrans
  <2> QED BY <1>0, <2>1, <2>5, <2>6, LeavesTrans
<1> QED BY <1>1, <1>2

\* The socket is given up.
LEMMA DestroyTurned ==
    ASSUME NEW s, Typed(s), NEW p, NoFin(s), FinHeld(s, p), s.app = "closed"
    PROVE  Turned(s, NutTcpDestroySocket(s), p)
<1> DEFINE t == NutTcpDestroySocket(s)
<1>1. /\ Typed(t) /\ Same(NewSocket, t, {"state", "app", "read", "rxIsn", "sm", "skew"})
      /\ Same(s, t, Names \ {"app", "read", "rxIsn", "sm", "skew"}) /\ t.state = "GONE"
  BY DestroyIs
<1> HIDE DEF t
<1>2. t.adv = <<>>
  BY <1>1, NewSocketIs DEF Same, Names
<1>3. t.app = s.app /\ t.sm = s.sm /\ t.skew = s.skew
  BY <1>1 DEF Same, Names
<1>4. Seen(t, p)
  BY <1>1, <1>2, <1>3 DEF Seen, NoFin, FinHeld
<1> QED BY <1>1, <1>3, <1>4 DEF Turned, t

LEMMA IfAckedTurned ==
    ASSUME NEW e \in Node, NEW s, NEW g, NEW p, Arrives(e, s, g, p), NEW next,
           s.app = "closed" \/ "RST" \notin g.flags, Turned(s, next, p)
    PROVE  Turned(s, IfAcked(s, g, next), p)
<1>0. Typed(s) /\ Seen(s, p) /\ Turned(s, s, p) /\ Turned(s, Rejected(s, g), p)
  BY ArrivesIs
<1>1. "RST" \in g.flags => Turned(s, NutTcpDestroySocket(s), p)
  BY <1>0, DestroyTurned DEF Seen
<1>2. \/ IfAcked(s, g, next) = NutTcpDestroySocket(s) /\ "RST" \in g.flags
      \/ IfAcked(s, g, next) = Rejected(s, g)
      \/ IfAcked(s, g, next) = s
      \/ IfAcked(s, g, next) = next
  BY DEF IfAcked
<1> QED BY <1>0, <1>1, <1>2

LEMMA ArrivesLeaving ==
    ASSUME NEW e \in Node, NEW s, NEW g, NEW p, Arrives(e, s, g, p), s.state \in ClosedByUs
    PROVE  Leaving(s) /\ Typed(s) /\ g \in Segment /\ s.app = "closed"
BY ArrivesIs DEF Leaving, Seen

LEMMA FinWaitTurned ==
    ASSUME NEW e \in Node, NEW s, NEW g, NEW p, Arrives(e, s, g, p),
           s.state \in {"FIN_WAIT_1", "FIN_WAIT_2"}, NEW more \in BOOLEAN
    PROVE  Turned(s, NutTcpStateFinWait(s, g, more), p)
<1> DEFINE k == NutTcpProcessAck(s, g)
           a == IF s.state = "FIN_WAIT_1" /\ k.nxt = k.una
                THEN NutTcpStateChange(k, "FIN_WAIT_2") ELSE k
           d == NutTcpProcessAppData(a, g, more)
           f == Fin(g)
           n == IF ~g.data THEN FinReceived(a, f)
                ELSE IF Sent(d) THEN Then(d, "finwait", f) ELSE FinReceived(d, f)
<1>0. /\ Leaving(s) /\ Typed(s) /\ g \in Segment /\ s.app = "closed" /\ s.state \in ClosedByUs
      /\ g.data \in BOOLEAN /\ (g.data = TRUE => f = {}) /\ Typed(p)
  BY ArrivesIs, ArrivesLeaving DEF ClosedByUs
<1>1. Leaves(s, k)
  BY <1>0, LeavesAck
<1> HIDE DEF k
<1>2. Leaves(s, NutTcpStateChange(k, "FIN_WAIT_2"))
  <2>1. Leaves(k, NutTcpStateChange(k, "FIN_WAIT_2"))
    BY <1>1, LeavesIs, LeavesChange
  <2> QED BY <1>0, <1>1, <2>1, LeavesTrans
<1>3. Leaves(s, a) /\ Leaving(a)
  BY <1>1, <1>2, LeavesIs
<1> HIDE DEF a
<1>4. Leaves(s, FinReceived(a, f))
  BY <1>0, <1>3, FinReceivedLeaves, LeavesTrans
<1>5. ASSUME g.data = TRUE
      PROVE  Leaves(s, FinReceived(d, f)) /\ Leaves(s, Then(d, "finwait", f))
  <2>1. Leaves(a, d)
    <3>1. Same(a, d, {"rxBuf", "rxCnt", "rxNxt", "rxWin", "ack", "force", "out"})
      BY <1>0, <1>3, AppDataIs DEF Leaving
    <3>2. Mute(a, d)
      <4>1. a.state # "CLOSE_WAIT" /\ Seen(a, p) /\ a.app = "closed" /\ Typed(a)
        BY <1>3, SeenClosed DEF Leaving, ClosedByUs
      <4>2. Stays(a, d, p)
        BY <1>0, <4>1, AppDataStays
      <4> QED BY <4>2 DEF Stays
    <3> HIDE DEF d
    <3>3. d.state \in ClosedByUs
      BY <1>3, <3>1 DEF Same, Names, Leaving
    <3>4. {"rxBuf", "rxCnt", "rxNxt", "rxWin", "ack", "force", "out"} \cap {"app", "adv", "sm"} = {}
      OBVIOUS
    <3> QED BY <1>3, <3>1, <3>2, <3>3, <3>4, LeavesSame
  <2> HIDE DEF d
  <2>2. Leaves(s, d) /\ Leaving(d)
    BY <1>0, <1>3, <2>1, LeavesTrans, LeavesIs
  <2>3. Leaves(d, FinReceived(d, f)) /\ Leaves(d, Then(d, "finwait", f))
    BY <1>0, <1>5, <2>2, FinReceivedLeaves, LeavesDone
  <2> QED BY <1>0, <2>2, <2>3, LeavesTrans
<1>6. Turned(s, n, p)
  <2>1. Leaves(s, n)
    BY <1>0, <1>4, <1>5
  <2> QED BY <1>0, <2>1, LeavesTurned
<1>7. NutTcpStateFinWait(s, g, more) = IfAcked(s, g, n)
  BY DEF NutTcpStateFinWait, a, k
<1> HIDE DEF n
<1> QED BY <1>0, <1>6, <1>7, IfAckedTurned

LEMMA CloseWaitTurned ==
    ASSUME NEW e \in Node, NEW s, NEW g, NEW p, Arrives(e, s, g, p), s.state = "CLOSE_WAIT"
    PROVE  Turned(s, NutTcpStateCloseWait(s, g), p)
<1>0. Typed(s) /\ Seen(s, p) /\ g \in Segment /\ s.state # "GONE"
  BY ArrivesIs
<1>1. CASE "RST" \in g.flags
  <2>1. NutTcpStateCloseWait(s, g) = NutTcpAbortSocket(s)
    BY <1>1 DEF NutTcpStateCloseWait
  <2> QED BY <1>0, <2>1, AbortStays, StaysTurned
<1>2. CASE "RST" \notin g.flags
  <2>1. NutTcpStateCloseWait(s, g) = IfAcked(s, g, NutTcpProcessAck(s, g))
    BY <1>2 DEF NutTcpStateCloseWait
  <2>2. Turned(s, NutTcpProcessAck(s, g), p)
    BY <1>0, AckStays, StaysTurned
  <2> QED BY <1>2, <2>1, <2>2, IfAckedTurned
<1> QED BY <1>1, <1>2

LEMMA ClosingTurned ==
    ASSUME NEW e \in Node, NEW s, NEW g, NEW p, Arrives(e, s, g, p), s.state = "CLOSING"
    PROVE  Turned(s, NutTcpStateClosing(s, g), p)
<1> DEFINE a == NutTcpProcessAck(s, g)
           n == IF a.nxt = a.una THEN NutTcpStateChange(a, "TIME_WAIT") ELSE a
<1>0. Leaving(s) /\ Typed(s) /\ g \in Segment /\ s.app = "closed" /\ s.state \in ClosedByUs
  BY ArrivesLeaving DEF ClosedByUs
<1>1. Leaves(s, a)
  BY <1>0, LeavesAck
<1>2. NutTcpStateClosing(s, g) = IfAcked(s, g, n)
  BY DEF NutTcpStateClosing
<1> HIDE DEF a
<1>3. Leaves(s, NutTcpStateChange(a, "TIME_WAIT"))
  BY <1>0, <1>1, LeavesIs, LeavesChange, LeavesTrans
<1>4. Turned(s, n, p)
  BY <1>0, <1>1, <1>3, LeavesTurned
<1> HIDE DEF n
<1> QED BY <1>0, <1>2, <1>4, IfAckedTurned

LEMMA LastAckTurned ==
    ASSUME NEW e \in Node, NEW s, NEW g, NEW p, Arrives(e, s, g, p), s.state = "LAST_ACK"
    PROVE  Turned(s, NutTcpStateLastAck(s, g), p)
<1> DEFINE a == NutTcpProcessAck(s, g)
           n == IF a.nxt = a.una THEN NutTcpDestroySocket(a) ELSE a
<1>0. Leaving(s) /\ Typed(s) /\ g \in Segment /\ s.app = "closed" /\ s.state \in ClosedByUs
  BY ArrivesLeaving DEF ClosedByUs
<1>1. Leaves(s, a)
  BY <1>0, LeavesAck
<1>2. NutTcpStateLastAck(s, g) = IfAcked(s, g, n)
  BY DEF NutTcpStateLastAck
<1> HIDE DEF a
<1>3. Turned(s, NutTcpDestroySocket(a), p)
  <2>1. Typed(a) /\ NoFin(a) /\ FinHeld(a, p) /\ a.app = "closed" /\ Mute(s, a) /\ Alike(s, a)
    BY <1>0, <1>1 DEF Leaves, Mute, FinHeld, Alike, ClosedByUs
  <2>2. Turned(a, NutTcpDestroySocket(a), p)
    BY <2>1, DestroyTurned
  <2> QED BY <1>0, <2>1, <2>2, MuteTurned
<1>4. Turned(s, n, p)
  BY <1>0, <1>1, <1>3, LeavesTurned
<1> HIDE DEF n
<1> QED BY <1>0, <1>2, <1>4, IfAckedTurned

LEMMA ProcessTurned ==
    ASSUME NEW e \in Node, NEW s, NEW g, NEW p, Arrives(e, s, g, p),
           NEW more \in BOOLEAN, NEW keep \in BOOLEAN
    PROVE  Turned(s, NutTcpStateProcess(s, g, more, keep), p)
<1> DEFINE t == NutTcpStateProcess(s, g, more, keep)
<1>0. s.state \in State /\ s.state \notin {"CLOSED", "GONE"}
  BY DEF Arrives, Served, Typed, Fields
<1>1. CASE s.state = "ESTABLISHED"
  BY <1>1, EstablishedTurned DEF NutTcpStateProcess
<1>2. CASE s.state = "LISTEN"
  BY <1>2, ListenTurned DEF NutTcpStateProcess
<1>3. CASE s.state = "SYN_SENT"
  BY <1>3, SynSentTurned DEF NutTcpStateProcess
<1>4. CASE s.state = "SYN_RECEIVED"
  BY <1>4, SynReceivedTurned DEF NutTcpStateProcess
<1>5. CASE s.state \in {"FIN_WAIT_1", "FIN_WAIT_2"}
  <2>1. t = NutTcpStateFinWait(s, g, more)
    BY <1>5 DEF NutTcpStateProcess
  <2> QED BY <1>5, <2>1, FinWaitTurned
<1>6. CASE s.state = "CLOSE_WAIT"
  BY <1>6, CloseWaitTurned DEF NutTcpStateProcess
<1>7. CASE s.state = "CLOSING"
  BY <1>7, ClosingTurned DEF NutTcpStateProcess
<1>8. CASE s.state = "LAST_ACK"
  BY <1>8, LastAckTurned DEF NutTcpStateProcess
<1>9. CASE s.state = "TIME_WAIT"
  <2>1. t = s
    BY <1>9 DEF NutTcpStateProcess
  <2> QED BY <2>1, ArrivesIs
<1> QED BY <1>0, <1>1, <1>2, <1>3, <1>4, <1>5, <1>6, <1>7, <1>8, <1>9 DEF State, ClosedByUs

-----------------------------------------------------------------------------
(* The end of the stream: a handler that goes on.                          *)

\* A handler that has stopped, and socket s of its node with peer p.
Resumes(e, s, p) == Paused(e, s) /\ Typed(p) /\ Seen(s, p)

LEMMA ResumesIs ==
    ASSUME NEW e \in Node, NEW s, NEW p, Resumes(e, s, p)
    PROVE  /\ Typed(s) /\ Typed(p) /\ Seen(s, p) /\ ClosedState(s)
           /\ s.sm.at \in {"closewait", "finish"} \/ s.sm.flags = {}
           /\ s.sm.at = "absorb" => s.state # "CLOSE_WAIT"
           /\ s.sm.at = "finish" /\ s.sm.flags # {} => Ending(s, p)
           /\ s.sm.at = "finwait" => Leaving(s)
<1>1. Paused(e, s) /\ Typed(p) /\ Seen(s, p) /\ s.sm # NIL
  BY DEF Resumes, Paused
<1>2. /\ Typed(s) /\ ControlOf(e, s.state, s.app, s.sm.at)
      /\ s.app = "closed" <=> s.state \in ClosedByUs \cup {"GONE"}
  BY <1>1, PausedIs
<1>3. s.sm.at \in {"closewait", "finish"} \/ s.sm.flags = {}
  BY <1>1 DEF Seen, FinHeld
<1>4. ASSUME s.sm.at = "finish", s.sm.flags # {} PROVE Ending(s, p)
  <2>1. s.state \in {"ESTABLISHED", "FIN_WAIT_1"}
    BY <1>2, <1>4 DEF ControlOf
  <2>2. s.state = "FIN_WAIT_1" => s.app = "closed"
    BY <1>2 DEF ClosedByUs
  <2>3. p.app = "closed" \/ s.app = "closed"
    BY <1>1, <1>4 DEF Seen, FinHeld
  <2>4. s.skew = TRUE \/ p.state = "GONE" \/ s.app = "closed"
    BY <1>1, <1>4 DEF Seen, FinHeld
  <2> QED BY <2>1, <2>2, <2>3, <2>4 DEF Ending
<1>5. s.sm.at = "absorb" => s.state # "CLOSE_WAIT"
  BY <1>2 DEF ControlOf
<1>6. ASSUME s.sm.at = "finwait" PROVE Leaving(s)
  <2>1. s.state \in {"FIN_WAIT_1", "FIN_WAIT_2"}
    BY <1>2, <1>6 DEF ControlOf
  <2>2. s.state \in ClosedByUs
    BY <2>1 DEF ClosedByUs
  <2> QED BY <1>1, <1>2, <1>3, <1>6, <2>2 DEF Leaving, Seen
<1> QED BY <1>1, <1>2, <1>3, <1>4, <1>5, <1>6 DEF ClosedState

LEMMA ContinuedTurned ==
    ASSUME NEW e \in Node, NEW s, NEW p, Resumes(e, s, p)
    PROVE  Turned(s, Continued(s), p)
<1>1. /\ Typed(s) /\ Typed(p) /\ Seen(s, p) /\ ClosedState(s)
      /\ s.sm.at \in {"closewait", "finish"} \/ s.sm.flags = {}
      /\ s.sm.at = "absorb" => s.state # "CLOSE_WAIT"
      /\ s.sm.at = "finish" /\ s.sm.flags # {} => Ending(s, p)
      /\ s.sm.at = "finwait" => Leaving(s)
  BY ResumesIs
<1>2. s.sm.at \in {"absorb", "post", "finish", "closewait", "opened", "synacked", "finwait"}
  BY PausedIs DEF Resumes
<1>3. CASE s.sm.at = "absorb"
  <2>1. Continued(s) = Absorb(s, {})
    BY <1>1, <1>3 DEF Continued
  <2> QED BY <1>1, <1>3, <2>1, AbsorbStays, StaysTurned
<1>4. CASE s.sm.at = "post"
  <2>1. Continued(s) = Done(WakeRx(s))
    BY <1>1, <1>4 DEF Continued, CheckFin
  <2>2. Stays(s, WakeRx(s), p) /\ Typed(WakeRx(s))
    BY <1>1, WakeStays, WakeIs
  <2>3. Stays(WakeRx(s), Done(WakeRx(s)), p)
    BY <2>2, DoneStays DEF Stays
  <2>4. Stays(s, Done(WakeRx(s)), p)
    BY <1>1, <2>2, <2>3, StaysTrans
  <2> QED BY <2>1, <2>4, StaysTurned
<1>5. CASE s.sm.at = "finish"
  <2>1. Continued(s) = CheckFin(s, s.sm.flags)
    BY <1>5 DEF Continued
  <2> QED BY <1>1, <1>5, <2>1, CheckFinTurned
<1>6. CASE s.sm.at = "closewait"
  <2> DEFINE a == WakeRx(s)
             b == WakeOpen(a)
             c == WakeTx(b)
  <2>1. Stays(s, a, p) /\ Typed(a)
    BY <1>1, WakeStays, WakeIs
  <2> HIDE DEF a
  <2>2. Stays(a, b, p) /\ Typed(b)
    BY <2>1, WakeStays, WakeIs DEF Stays
  <2> HIDE DEF b
  <2>3. Stays(b, c, p) /\ Typed(c)
    BY <2>2, WakeStays, WakeIs DEF Stays
  <2> HIDE DEF c
  <2>4. Stays(c, Done(c), p)
    BY <2>3, DoneStays DEF Stays
  <2>5. Stays(s, c, p)
    BY <1>1, <2>1, <2>2, <2>3, StaysTrans
  <2>6. Stays(s, Done(c), p)
    BY <1>1, <2>4, <2>5, StaysTrans
  <2>7. Continued(s) = Done(c)
    BY <1>6 DEF Continued, a, b, c
  <2> QED BY <2>6, <2>7, StaysTurned
<1>7. CASE s.sm.at = "opened"
  <2>1. Continued(s) = Done(WakeOpen(s))
    BY <1>7 DEF Continued
  <2>2. Stays(s, WakeOpen(s), p) /\ Typed(WakeOpen(s))
    BY <1>1, WakeStays, WakeIs
  <2>3. Stays(WakeOpen(s), Done(WakeOpen(s)), p)
    BY <2>2, DoneStays DEF Stays
  <2>4. Stays(s, Done(WakeOpen(s)), p)
    BY <1>1, <2>2, <2>3, StaysTrans
  <2> QED BY <2>1, <2>4, StaysTurned
<1>8. CASE s.sm.at = "synacked"
  <2>1. Continued(s) = SynAcked(s, {})
    BY <1>1, <1>8 DEF Continued
  <2> QED BY <1>1, <2>1, SynAckedTurned
<1>9. CASE s.sm.at = "finwait"
  <2>1. Leaving(s) /\ s.app = "closed" /\ s.state \in ClosedByUs
    BY <1>1, <1>9 DEF Leaving
  <2>2. WakeRx(s) = s
    BY <2>1 DEF WakeRx
  <2>3. Continued(s) = FinReceived(s, s.sm.flags)
    BY <1>9, <2>2 DEF Continued
  <2>4. Leaves(s, FinReceived(s, s.sm.flags))
    BY <2>1, FinReceivedLeaves
  <2> QED BY <2>1, <2>3, <2>4, LeavesTurned
<1> QED BY <1>2, <1>3, <1>4, <1>5, <1>6, <1>7, <1>8, <1>9

-----------------------------------------------------------------------------
(* The end of the stream: the steps.                                       *)

Flows ==
    BacklogStep /\ \E e \in Node : \E t, gone : Step(e, t, gone) /\ Turned(sock[e], t, sock[Peer(e)])

LEMMA FlowIs ==
    ASSUME TcpInv, FlowInv, NEW e \in Node
    PROVE  /\ Typed(sock[e]) /\ Typed(sock[Peer(e)]) /\ Seen(sock[e], sock[Peer(e)])
           /\ NoFin(sock[e]) /\ FinHeld(sock[e], sock[Peer(e)])
           /\ sock[e].app = "closed" <=> sock[e].state \in ClosedByUs \cup {"GONE"}
           /\ ClosedState(sock[e])
           /\ \A o : Theirs(Peer(e), o) => InStream(sock[e], o, sock[Peer(e)])
           /\ sock[Peer(e)].app = "closed" /\ sock[Peer(e)].state # "GONE"
              => sock[Peer(e)].nxt > 0
<1>1. Typed(sock[e]) /\ Typed(sock[Peer(e)])
      /\ ControlOf(e, sock[e].state, sock[e].app, Stage(sock[e])) /\ Peer(e) \in Node
  BY PeerIs, RestsIs
<1>2. Flow(e) /\ Flow(Peer(e))
  BY <1>1 DEF FlowInv
<1>3. Seen(sock[e], sock[Peer(e)])
  BY <1>2 DEF Flow
<1>4. NoFin(sock[e]) /\ FinHeld(sock[e], sock[Peer(e)])
  BY <1>3 DEF Seen
<1>5. sock[e].app = "closed" <=> sock[e].state \in ClosedByUs \cup {"GONE"}
  BY <1>1 DEF ControlOf
<1>6. \A o : Theirs(Peer(e), o) => InStream(sock[e], o, sock[Peer(e)])
  BY <1>2 DEF Flow
<1>7. sock[Peer(e)].app = "closed" /\ sock[Peer(e)].state # "GONE" => sock[Peer(e)].nxt > 0
  BY <1>2 DEF Flow
<1> QED BY <1>1, <1>3, <1>4, <1>5, <1>6, <1>7 DEF ClosedState

LEMMA ReceiveFlows ==
    ASSUME TcpInv, FlowInv, NEW e \in Node, NEW g \in net[e], Receive(e, g)
    PROVE  Flows
<1>1. g \in Segment /\ Theirs(Peer(e), g)
  BY TheirsIs
<1>2. Served(e, sock[e])
  BY RestsIs DEF Receive, Found, Served
<1>3. Fitting(e, sock[e], g)
  BY <1>1, <1>2, FittingIs DEF Served
<1>4. Arrives(e, sock[e], g, sock[Peer(e)])
  BY <1>1, <1>2, <1>3, FlowIs DEF Arrives
<1>5. PICK more \in BOOLEAN, keep \in BOOLEAN :
               Step(e, NutTcpStateProcess(sock[e], g, more, keep), {g})
  BY DEF Receive
<1>6. Turned(sock[e], NutTcpStateProcess(sock[e], g, more, keep), sock[Peer(e)])
  BY <1>4, ProcessTurned
<1>7. BacklogStep
  BY DEF Receive, BacklogStep
<1> QED BY <1>5, <1>6, <1>7 DEF Flows

LEMMA StillFlows ==
    ASSUME TcpInv, FlowInv, NEW e \in Node, NEW g
    PROVE  /\ Turned(sock[e], sock[e], sock[Peer(e)])
           /\ g \in Segment => Turned(sock[e], Rejected(sock[e], g), sock[Peer(e)])
  BY FlowIs, StaysNothing, RejectedStays, StaysTurned

LEMMA ReceiveNoSocketFlows ==
    ASSUME TcpInv, FlowInv, NEW e \in Node, NEW g \in net[e], ReceiveNoSocket(e, g)
    PROVE  Flows
<1>1. g \in Segment
  BY TheirsIs
<1>2. CASE e = Passive /\ g.flags = {"SYN"} /\ backlog = NIL
  BY <1>2, StillFlows DEF ReceiveNoSocket, Flows, BacklogStep
<1>3. CASE ~(e = Passive /\ g.flags = {"SYN"} /\ backlog = NIL)
  BY <1>1, <1>3, StillFlows DEF ReceiveNoSocket, Flows, BacklogStep
<1> QED BY <1>2, <1>3

LEMMA BacklogTimerFlows ==
    ASSUME TcpInv, FlowInv, NutTcpBacklogTimer
    PROVE  Flows
<1>1. backlog \in Segment /\ Passive \in Node
  BY DEF NutTcpBacklogTimer, TcpInv, BacklogOK, Node
<1> QED BY <1>1, StillFlows DEF NutTcpBacklogTimer, Flows, BacklogStep

LEMMA ContinueFlows ==
    ASSUME TcpInv, FlowInv, NEW e \in Node, Continue(e)
    PROVE  Flows
<1>1. Paused(e, sock[e])
  BY RestsIs DEF Paused, Continue
<1>2. Resumes(e, sock[e], sock[Peer(e)])
  BY <1>1, FlowIs DEF Resumes
<1>3. Turned(sock[e], Continued(sock[e]), sock[Peer(e)])
  BY <1>2, ContinuedTurned
<1>4. BacklogStep
  BY DEF Continue, BacklogStep
<1> QED BY <1>3, <1>4 DEF Continue, Flows

LEMMA TimerFlows ==
    ASSUME NEW e \in Node, NEW t, Timer(e, t), Turned(sock[e], t, sock[Peer(e)])
    PROVE  Flows
  BY DEF Timer, Flows, BacklogStep

LEMMA AppFlows ==
    ASSUME NEW e \in Node, NEW t, App(e, t), Turned(sock[e], t, sock[Peer(e)])
    PROVE  Flows
  BY DEF App, Flows, BacklogStep

LEMMA LateAckFlows ==
    ASSUME TcpInv, FlowInv, NEW e \in Node, LateAck(e)
    PROVE  Flows
<1> DEFINE s == sock[e]
           p == sock[Peer(e)]
           f == [s EXCEPT !.force = TRUE]
           t == NutTcpOutput(f, "nothing")
<1>1. Typed(s) /\ Seen(s, p)
  BY FlowIs
<1>2. Same(s, f, {"force"}) /\ Typed(f)
  BY <1>1, SetForceIs DEF Goes
<1>t. Timer(e, t)
  BY DEF LateAck
<1> HIDE DEF f
<1>3. /\ Typed(t) /\ Same(f, t, {"ack", "force", "out", "nxt", "nbq"}) /\ Emitted(f, t, "nothing")
  <2>1. "nothing" \in Kind
    BY DEF Kind
  <2> QED BY <1>2, <2>1, Emits
<1> HIDE DEF t
<1>4. Mute(s, t)
  <2>1. {"force"} \cap {"out", "nbq", "nxt"} = {}
    OBVIOUS
  <2>2. Mute(s, f) /\ Mute(f, t)
    BY <1>2, <1>3, <2>1, MuteSame, EmittedMute
  <2> QED BY <1>1, <2>2, MuteTrans
<1>5. Same(s, t, {"ack", "force", "out", "nxt", "nbq"})
  BY <1>2, <1>3 DEF Same, Names
<1>6. Seen(t, p)
  <2>1. {"ack", "force", "out", "nxt", "nbq"} \cap SeenFields = {}
    BY DEF SeenFields
  <2> QED BY <1>1, <1>5, <2>1, SeenSame
<1>7. Alike(s, t)
  BY <1>5 DEF Alike, Same, Names
<1>8. Turned(s, t, p)
  BY <1>4, <1>6, <1>7, StaysTurned DEF Stays
<1> QED BY <1>t, <1>8, TimerFlows

LEMMA RetransmitFlows ==
    ASSUME TcpInv, FlowInv, NEW e \in Node, Retransmit(e)
    PROVE  Flows
<1> DEFINE s == sock[e]
           p == sock[Peer(e)]
           o == Head(s.nbq)
           t == [s EXCEPT !.out = <<o>>]
<1>1. Typed(s) /\ Seen(s, p) /\ s.nbq # <<>>
  BY FlowIs DEF Retransmit
<1>2. s.nbq \in Seq(Segment)
  BY <1>1 DEF Typed, Fields
<1>3. o = s.nbq[1] /\ 1 \in DOMAIN s.nbq /\ o \in Segment
  BY <1>1, <1>2
<1>4. Member(s.nbq, o) /\ <<o>> \in Seq(Segment)
  BY <1>3 DEF Member
<1>t. Timer(e, t)
  BY DEF Retransmit
<1> HIDE DEF o
<1>5. Shaped(t) /\ Record(t)
  BY <1>1, Zenon DEF Typed, Shaped, Record
<1>6. Same(s, t, {"out"}) /\ t.out = <<o>>
  BY <1>1 DEF Typed, Shaped, Names, Same
<1> HIDE DEF t
<1>7. Fields(t) /\ Ordered(t)
  BY <1>1, <1>4, <1>6 DEF Same, Fields, Ordered, Names, Typed
<1>8. Typed(t)
  BY <1>5, <1>7 DEF Typed
<1>9. t.nbq = s.nbq /\ t.nxt = s.nxt
  BY <1>6 DEF Same, Names
<1>10. Mute(s, t)
  <2>1. ASSUME NEW x, Member(t.out, x) \/ Member(t.nbq, x)
        PROVE  Member(s.nbq, x)
    <3>1. CASE Member(t.nbq, x)
      BY <1>9, <3>1
    <3>2. CASE Member(t.out, x)
      <4>1. x = o
        BY <1>6, <3>2 DEF Member
      <4> QED BY <1>4, <4>1
    <3> QED BY <2>1, <3>1, <3>2
  <2> QED BY <1>8, <1>9, <2>1, Zenon DEF Mute, Says
<1>11. Seen(t, p)
  <2>1. {"out"} \cap SeenFields = {}
    BY DEF SeenFields
  <2> QED BY <1>1, <1>6, <2>1, SeenSame
<1>12. Alike(s, t)
  BY <1>6 DEF Alike, Same, Names
<1>13. Turned(s, t, p)
  BY <1>10, <1>11, <1>12, StaysTurned DEF Stays
<1> QED BY <1>t, <1>13, TimerFlows

LEMMA RetransmitFailsFlows ==
    ASSUME TcpInv, FlowInv, NEW e \in Node, RetransmitFails(e)
    PROVE  Flows
<1>1. Typed(sock[e]) /\ Seen(sock[e], sock[Peer(e)]) /\ sock[e].state # "GONE"
  BY FlowIs, RestsIs DEF RetransmitFails, Blank
<1>2. Turned(sock[e], NutTcpAbortSocket(sock[e]), sock[Peer(e)])
  BY <1>1, AbortStays, StaysTurned
<1> QED BY <1>2, TimerFlows DEF RetransmitFails

LEMMA TimeWaitFlows ==
    ASSUME TcpInv, FlowInv, NEW e \in Node, TimeWaitOver(e)
    PROVE  Flows
<1>1. /\ Typed(sock[e]) /\ NoFin(sock[e]) /\ FinHeld(sock[e], sock[Peer(e)])
      /\ sock[e].app = "closed"
  BY FlowIs DEF TimeWaitOver, ClosedByUs
<1>2. Turned(sock[e], NutTcpDestroySocket(sock[e]), sock[Peer(e)])
  BY <1>1, DestroyTurned
<1> QED BY <1>2, TimerFlows DEF TimeWaitOver

LEMMA SynTimeoutFlows ==
    ASSUME TcpInv, FlowInv, NEW e \in Node, SynTimeout(e)
    PROVE  Flows
<1> DEFINE s == sock[e]
           p == sock[Peer(e)]
           t == [s EXCEPT !.state = "LISTEN"]
<1>1. Typed(s) /\ Seen(s, p) /\ s.state = "SYN_RECEIVED"
  BY FlowIs DEF SynTimeout
<1>2. Same(s, t, {"state"}) /\ t.state = "LISTEN" /\ Typed(t)
  <2>1. "LISTEN" \in State
    BY DEF State
  <2> QED BY <1>1, <2>1, SetStateIs DEF Goes
<1>t. Timer(e, t)
  BY DEF SynTimeout
<1> HIDE DEF t
<1>3. /\ t.app = s.app /\ t.sm = s.sm /\ t.rxNxt = s.rxNxt /\ t.skew = s.skew /\ t.adv = s.adv
  BY <1>2 DEF Same, Names
<1>4. Seen(t, p)
  BY <1>1, <1>2, <1>3, SeenLess DEF Receiving
<1>5. Mute(s, t)
  <2>1. {"state"} \cap {"out", "nbq", "nxt"} = {}
    OBVIOUS
  <2> QED BY <1>2, <2>1, MuteSame
<1>6. Turned(s, t, p)
  BY <1>1, <1>2, <1>3, <1>4, <1>5, StaysTurned DEF Stays, Alike
<1> QED BY <1>t, <1>6, TimerFlows

\* A call of the application goes on, waits or returns.
LEMMA PlaceTurned ==
    ASSUME NEW s, Typed(s), NEW p, Seen(s, p), NEW a \in AppPlace \ {"closed"}, s.app # "closed"
    PROVE  Turned(s, [s EXCEPT !.app = a], p)
<1>1. LET t == [s EXCEPT !.app = a] IN Typed(t) /\ Same(s, t, {"app"}) /\ t.app = a
  BY SetAppIs
<1> QED BY <1>1, AppStays, StaysTurned

\* A socket that is being opened has nothing of its peer yet, which may have closed its own.
LEMMA FirstSeen ==
    ASSUME NEW s, s.state \in {"LISTEN", "SYN_SENT"}, s.sm = NIL, s.adv = <<>>, s.rxNxt = 0,
           NEW p, Typed(p), p.app = "closed" /\ p.state # "GONE" => p.nxt > 0
    PROVE  Seen(s, p)
<1>1. p.nxt \in Nat
  BY Numbers
<1>2. NoFin(s) /\ FinHeld(s, p)
  BY DEF NoFin, FinHeld
<1>3. p.state # "GONE" => Level(s, p)
  BY <1>1 DEF Level
<1> QED BY <1>2, <1>3 DEF Seen

LEMMA ConnectFlows ==
    ASSUME TcpInv, FlowInv, NutTcpConnect
    PROVE  Flows
<1> DEFINE e == Active
           s == sock[e]
           p == sock[Peer(e)]
           t == NutTcpStateChange(s, "SYN_SENT")
           a == [t EXCEPT !.app = "opening"]
           b == [t EXCEPT !.app = "failed", !.out = <<>>]
<1>0. /\ e \in Node /\ Typed(s) /\ s = NewSocket /\ Typed(p)
      /\ p.app = "closed" /\ p.state # "GONE" => p.nxt > 0
  <2>1. e \in Node
    BY DEF Node
  <2> QED BY <2>1, RestsIs, FlowIs DEF NutTcpConnect, Blank
<1>1. /\ Typed(t) /\ Same(s, t, {"state", "ack", "force", "out", "nxt", "nbq"})
      /\ t.state = "SYN_SENT" /\ Says(s, t, "SYN")
  <2>1. s.state = "CLOSED" /\ "SYN_SENT" \in State
    BY <1>0 DEF NewSocket, State
  <2>2. Follows(s.state, "SYN_SENT")
    BY <2>1 DEF Follows
  <2>3. /\ Typed(t) /\ Same(s, t, {"state", "ack", "force", "out", "nxt", "nbq"})
        /\ t.state = "SYN_SENT"
    BY <1>0, <2>1, <2>2, StateChangeIs
  <2>4. \E what \in Kind : Says(s, t, what) /\ Sends(s.state, "SYN_SENT", what)
    BY <1>0, <2>1, <2>2, ChangeSays
  <2> QED BY <2>3, <2>4 DEF Sends
<1>7. App(e, a) \/ App(e, b)
  BY DEF NutTcpConnect
<1> HIDE DEF t
<1>2. t.sm = NIL /\ t.adv = <<>> /\ t.rxNxt = 0
  BY <1>0, <1>1 DEF Same, Names, NewSocket
<1>4. /\ Typed(a) /\ Same(t, a, {"app"}) /\ a.app = "opening"
      /\ Typed(b) /\ Same(t, b, {"app", "out"}) /\ b.app = "failed" /\ b.out = <<>>
  <2>1. "opening" \in AppPlace /\ "failed" \in AppPlace
    BY DEF AppPlace
  <2> QED BY <1>1, <2>1, SetAppIs, SetFailedIs
<1> HIDE DEF a, b
<1>5. ASSUME NEW u, Typed(u), Same(t, u, {"app", "out"}), u.out = t.out \/ u.out = <<>>,
             u.app \in {"opening", "failed"}
      PROVE  Turned(s, u, p)
  <2>1. /\ u.sm = NIL /\ u.adv = <<>> /\ u.rxNxt = 0 /\ u.state = "SYN_SENT"
        /\ u.nbq = t.nbq /\ u.nxt = t.nxt
    BY <1>1, <1>2, <1>5 DEF Same, Names
  <2>2. Seen(u, p)
    BY <1>0, <2>1, FirstSeen
  <2>3. Says(s, u, "SYN")
    <3>1. \A o : Member(u.out, o) \/ Member(u.nbq, o) => Member(t.out, o) \/ Member(t.nbq, o)
      BY <1>5, <2>1 DEF Member
    <3> QED BY <1>1, <2>1, <3>1, Zenon DEF Says
  <2>4. Speaks(s, u)
    BY <1>5, <2>3 DEF Speaks, Kind
  <2>5. s.app # "closed" /\ s.state # "GONE"
    BY <1>0 DEF NewSocket
  <2> QED BY <1>5, <2>2, <2>4, <2>5 DEF Turned
<1>6. Turned(s, a, p) /\ Turned(s, b, p)
  <2>1. Same(t, a, {"app", "out"}) /\ a.out = t.out
    BY <1>4 DEF Same, Names
  <2> QED BY <1>4, <1>5, <2>1
<1> QED BY <1>0, <1>6, <1>7, AppFlows

LEMMA ConnectWaitFlows ==
    ASSUME TcpInv, FlowInv, ConnectWait
    PROVE  Flows
<1> DEFINE e == Active
           s == sock[e]
<1>1. e \in Node /\ Typed(s) /\ Seen(s, sock[Peer(e)]) /\ s.app # "closed"
  <2>1. e \in Node
    BY DEF Node
  <2> QED BY <2>1, FlowIs DEF ConnectWait
<1>2. PICK a \in AppPlace \ {"closed"} : App(e, [s EXCEPT !.app = a])
  BY DEF ConnectWait, AppPlace
<1>3. Turned(s, [s EXCEPT !.app = a], sock[Peer(e)])
  BY <1>1, PlaceTurned
<1> QED BY <1>1, <1>2, <1>3, AppFlows

LEMMA AcceptFlows ==
    ASSUME TcpInv, FlowInv, NutTcpAccept
    PROVE  Flows
<1> DEFINE e == Passive
           s == sock[e]
           p == sock[Peer(e)]
           t == NutTcpStateChange(s, "LISTEN")
           g == backlog
           k == NutTcpProcessSyn(t, g)
           w == NutTcpStateListen(t, g)
           a == [t EXCEPT !.app = "pc"]
           b == [w EXCEPT !.app = "user"]
<1>0. /\ e \in Node /\ Typed(s) /\ s = NewSocket /\ Typed(p)
      /\ p.app = "closed" /\ p.state # "GONE" => p.nxt > 0
      /\ \A o : Theirs(Peer(e), o) => InStream(s, o, p)
  <2>1. e \in Node
    BY DEF Node
  <2> QED BY <2>1, RestsIs, FlowIs DEF NutTcpAccept, Blank
<1>s. IF backlog = NIL THEN Step(e, a, {}) ELSE Step(e, b, {})
  BY DEF NutTcpAccept
<1>1. /\ Typed(t) /\ Same(s, t, {"state", "ack", "force", "out", "nxt", "nbq"})
      /\ t.state = "LISTEN" /\ Mute(s, t)
  <2>1. s.state = "CLOSED" /\ "LISTEN" \in State
    BY <1>0 DEF NewSocket, State
  <2>2. Follows(s.state, "LISTEN")
    BY <2>1 DEF Follows
  <2>3. /\ Typed(t) /\ Same(s, t, {"state", "ack", "force", "out", "nxt", "nbq"})
        /\ t.state = "LISTEN"
    BY <1>0, <2>1, <2>2, StateChangeIs
  <2>4. \E what \in Kind : Says(s, t, what) /\ Sends(s.state, "LISTEN", what)
    BY <1>0, <2>1, <2>2, ChangeSays
  <2> QED BY <2>3, <2>4 DEF Mute, Sends, Kind
<1> HIDE DEF t
<1>2. t.sm = NIL /\ t.adv = <<>> /\ t.rxNxt = 0 /\ t.app = "start" /\ s.app = "start"
      /\ s.state = "CLOSED"
  BY <1>0, <1>1 DEF Same, Names, NewSocket
<1>3. Seen(t, p) /\ ClosedState(t) /\ Alike(s, t)
  BY <1>0, <1>1, <1>2, FirstSeen DEF ClosedState, Alike
<1>4. Turned(t, a, p)
  <2>1. "pc" \in AppPlace \ {"closed"}
    BY DEF AppPlace
  <2> QED BY <1>1, <1>2, <1>3, <2>1, PlaceTurned
<1>5. ASSUME backlog # NIL PROVE Turned(t, b, p)
  <2>1. /\ g \in Segment /\ g.flags = {"SYN"} /\ Theirs(Active, g) /\ Peer(e) = Active
    BY <1>5, TcpAssumption DEF TcpInv, BacklogOK, Theirs, Peer
  <2>2. InStream(t, g, p)
    BY <1>0, <1>2, <2>1 DEF InStream
  <2>3. Stays(t, k, p) /\ Typed(k) /\ k.app = t.app /\ k.state = t.state
    BY <1>0, <1>1, <1>2, <1>3, <2>1, <2>2, SynTaken
  <2>4. w = NutTcpStateChange(k, "SYN_RECEIVED")
    BY <2>1 DEF NutTcpStateListen
  <2> HIDE DEF k, w
  <2>5. ClosedState(k) /\ Seen(k, p)
    BY <1>3, <2>3 DEF ClosedState, Stays
  <2>6. Turned(k, w, p)
    BY <2>3, <2>4, <2>5, OpenTurned
  <2>7. Turned(t, w, p)
    BY <1>1, <2>3, <2>6, MuteTurned DEF Stays
  <2>8. w.app = "start"
    <3>1. "SYN_RECEIVED" \in State
      BY DEF State
    <3>2. Same(k, w, {"state", "ack", "force", "out", "nxt", "nbq"})
      BY <2>3, <2>4, <3>1, StateChangeIs
    <3> QED BY <1>2, <2>3, <3>2 DEF Same, Names
  <2>9. Typed(w) /\ Seen(w, p)
    BY <2>7 DEF Turned
  <2>10. Typed(b) /\ Same(w, b, {"app"}) /\ b.app = "user"
    <3>1. "user" \in AppPlace
      BY DEF AppPlace
    <3> QED BY <2>9, <3>1, SetAppIs
  <2> HIDE DEF b
  <2>11. Stays(w, b, p) /\ b.state = w.state
    BY <2>8, <2>9, <2>10, AppStays DEF Same, Names
  <2> QED BY <1>1, <2>7, <2>11, TurnedMute DEF Stays
<1>6. BacklogStep
  BY DEF NutTcpAccept, BacklogStep
<1> HIDE DEF a, b
<1>7. CASE backlog = NIL
  <2>1. Step(e, a, {}) /\ Turned(s, a, p)
    BY <1>0, <1>1, <1>3, <1>4, <1>7, <1>s, MuteTurned
  <2> QED BY <1>0, <1>6, <2>1 DEF Flows
<1>8. CASE backlog # NIL
  <2>1. Step(e, b, {}) /\ Turned(s, b, p)
    BY <1>0, <1>1, <1>3, <1>5, <1>8, <1>s, MuteTurned
  <2> QED BY <1>0, <1>6, <2>1 DEF Flows
<1> QED BY <1>7, <1>8

LEMMA AcceptTimeoutFlows ==
    ASSUME TcpInv, FlowInv, AcceptTimeout
    PROVE  Flows
<1> DEFINE e == Passive
           s == sock[e]
           p == sock[Peer(e)]
           t == Moved(s, "user", "CLOSED")
<1>1. /\ e \in Node /\ Typed(s) /\ Seen(s, p) /\ s.app = "pc"
      /\ s.app = "closed" <=> s.state \in ClosedByUs \cup {"GONE"}
  <2>1. e \in Node
    BY DEF Node
  <2> QED BY <2>1, FlowIs DEF AcceptTimeout
<1>2. Typed(t) /\ Same(s, t, {"app", "state"}) /\ t.app = "user" /\ t.state = "CLOSED"
  <2>1. "user" \in AppPlace /\ "CLOSED" \in State
    BY DEF AppPlace, State
  <2> QED BY <1>1, <2>1, SetAppStateIs DEF Goes
<1>3. App(e, t)
  BY DEF AcceptTimeout, Moved
<1> HIDE DEF t
<1>4. t.sm = s.sm /\ t.rxNxt = s.rxNxt /\ t.skew = s.skew /\ t.adv = s.adv
  BY <1>2 DEF Same, Names
<1>5. Seen(t, p)
  BY <1>1, <1>2, <1>4, SeenLess DEF Receiving
<1>6. Mute(s, t)
  <2>1. {"app", "state"} \cap {"out", "nbq", "nxt"} = {}
    OBVIOUS
  <2> QED BY <1>2, <2>1, MuteSame
<1>7. Turned(s, t, p)
  BY <1>1, <1>2, <1>5, <1>6, StaysTurned DEF Stays, Alike
<1> QED BY <1>1, <1>3, <1>7, AppFlows

\* A byte is sent while the application has the socket open.
LEMMA DataTurned ==
    ASSUME NEW s, Typed(s), NEW p, Seen(s, p), s.app # "closed", s.state # "GONE"
    PROVE  Turned(s, NutTcpOutput(Sending(s), "DATA"), p)
<1> DEFINE k == Sending(s)
           t == NutTcpOutput(k, "DATA")
<1>1. Typed(k) /\ Same(s, k, {"app", "ack"}) /\ k.app = "user"
  BY SendingIs
<1> HIDE DEF k
<1>2. /\ Typed(t) /\ Same(k, t, {"ack", "force", "out", "nxt", "nbq"}) /\ Emitted(k, t, "DATA")
      /\ "DATA" \in Kind
  <2>1. "DATA" \in Kind
    BY DEF Kind
  <2> QED BY <1>1, <2>1, Emits
<1> HIDE DEF t
<1>3. Says(s, t, "DATA")
  <2>1. {"app", "ack"} \cap {"out", "nbq", "nxt"} = {}
    OBVIOUS
  <2>2. Mute(s, k)
    BY <1>1, <2>1, MuteSame
  <2>3. Says(k, t, "DATA")
    BY <1>1, <1>2, SaysEmitted
  <2> QED BY <1>2, <2>2, <2>3, MuteThen
<1>4. /\ t.app = "user" /\ t.state = s.state /\ t.sm = s.sm /\ t.rxNxt = s.rxNxt
      /\ t.skew = s.skew /\ t.adv = s.adv
  BY <1>1, <1>2 DEF Same, Names
<1>5. Seen(t, p)
  BY <1>4, SeenLess
<1>6. Speaks(s, t)
  BY <1>2, <1>3, <1>4 DEF Speaks
<1> QED BY <1>2, <1>4, <1>5, <1>6 DEF Turned, t, k

LEMMA SendFlows ==
    ASSUME TcpInv, FlowInv, NEW e \in Node, NutTcpSend(e)
    PROVE  Flows
<1> DEFINE s == sock[e]
<1>1. /\ Typed(s) /\ Seen(s, sock[Peer(e)]) /\ s.app # "closed"
      /\ {"user", "tx"} \subseteq AppPlace \ {"closed"}
  BY FlowIs DEF NutTcpSend, AppPlace
<1>2. ASSUME NEW a \in {"user", "tx"}, App(e, [s EXCEPT !.app = a]) PROVE Flows
  BY <1>1, <1>2, PlaceTurned, AppFlows
<1>3. CASE s.state = "ESTABLISHED" /\ WindowOpen(s)
  <2>1. App(e, NutTcpOutput(Sending(s), "DATA"))
    BY <1>3 DEF NutTcpSend, Sending
  <2> QED BY <1>1, <1>3, <2>1, DataTurned, AppFlows
<1>4. CASE ~(s.state = "ESTABLISHED" /\ WindowOpen(s))
  <2>1. App(e, [s EXCEPT !.app = "user"]) \/ App(e, [s EXCEPT !.app = "tx"])
    BY <1>4 DEF NutTcpSend
  <2> QED BY <1>2, <2>1
<1> QED BY <1>3, <1>4

LEMMA CopiedStays ==
    ASSUME NEW s, Typed(s), NEW p, Seen(s, p), s.app # "closed",
           NEW n \in 1 .. s.rxCnt, n <= Len(s.rxBuf)
    PROVE  Stays(s, Copied(s, n), p)
<1> DEFINE k == Drawn(s, n)
           w == IF s.rxWin + n > WinSize THEN WinSize ELSE s.rxWin + n
           x == [k EXCEPT !.rxWin = w]
           t == Copied(s, n)
<1>1. /\ s.rxWin \in Nat /\ s.rxWin <= WinSize /\ WinSize \in Nat /\ n \in Nat
  <2>1. s.rxWin \in 0 .. WinSize /\ s.rxCnt \in Nat
    BY DEF Typed, Fields
  <2>2. WinSize \in Nat
    BY TcpAssumption
  <2> QED BY <2>1, <2>2
<1>2. Typed(k) /\ Same(s, k, {"read", "rxCnt", "rxBuf", "app"}) /\ k.app = "user"
  BY DrawnIs
<1>3. w \in 0 .. WinSize /\ s.rxWin <= w
  BY <1>1
<1>4. t \in {k, x, ForceAck(x)}
  BY DEF Copied, Drawn
<1> HIDE DEF k, w, t
<1>5. Stays(s, k, p)
  <2>1. {"read", "rxCnt", "rxBuf", "app"} \cap {"out", "nbq", "nxt"} = {}
    OBVIOUS
  <2>2. Mute(s, k)
    BY <1>2, <2>1, MuteSame
  <2>3. /\ k.state = s.state /\ k.sm = s.sm /\ k.rxNxt = s.rxNxt /\ k.skew = s.skew
        /\ k.adv = s.adv
    BY <1>2 DEF Same, Names
  <2>4. Seen(k, p)
    BY <1>2, <2>3, SeenLess
  <2> QED BY <1>2, <2>2, <2>3, <2>4 DEF Stays, Alike
<1>6. Typed(x) /\ Stays(s, x, p)
  <2>1. k.rxWin = s.rxWin
    BY <1>2 DEF Same, Names
  <2>2. Typed(x) /\ Same(k, x, {"rxWin"})
    BY <1>2, <1>3, <2>1, WidenedIs DEF Goes
  <2> HIDE DEF x
  <2>3. {"rxWin"} \cap {"out", "nbq", "nxt"} = {} /\ {"rxWin"} \cap SeenFields = {}
    BY DEF SeenFields
  <2>4. Mute(k, x) /\ Seen(x, p)
    BY <1>5, <2>2, <2>3, MuteSame, SeenSame DEF Stays
  <2>5. Alike(k, x)
    BY <2>2 DEF Alike, Same, Names
  <2>6. Stays(k, x, p)
    BY <2>4, <2>5 DEF Stays
  <2> QED BY <1>5, <2>2, <2>6, StaysTrans
<1> HIDE DEF x
<1>7. Stays(s, ForceAck(x), p)
  BY <1>6, ForceAckStays, StaysTrans DEF Stays
<1> QED BY <1>4, <1>5, <1>6, <1>7 DEF t

LEMMA ReceiveCallFlows ==
    ASSUME TcpInv, FlowInv, NEW e \in Node, NutTcpReceive(e)
    PROVE  Flows
<1> DEFINE s == sock[e]
<1>1. /\ Typed(s) /\ Seen(s, sock[Peer(e)]) /\ s.app # "closed"
      /\ {"user", "rx", "fault"} \subseteq AppPlace \ {"closed"}
  BY FlowIs DEF NutTcpReceive, AppPlace
<1>2. ASSUME NEW a \in {"user", "rx", "fault"}, App(e, [s EXCEPT !.app = a]) PROVE Flows
  BY <1>1, <1>2, PlaceTurned, AppFlows
<1>3. CASE s.rxCnt = 0
  <2>1. PICK a \in {"user", "rx"} : App(e, [s EXCEPT !.app = a])
    BY <1>3 DEF NutTcpReceive
  <2> QED BY <1>2, <2>1
<1>4. CASE s.rxCnt # 0
  <2>1. PICK n \in 1 .. s.rxCnt :
           App(e, IF n > Len(s.rxBuf) THEN [s EXCEPT !.app = "fault"] ELSE Copied(s, n))
    BY <1>4 DEF NutTcpReceive
  <2>2. CASE n > Len(s.rxBuf)
    <3>1. App(e, [s EXCEPT !.app = "fault"])
      BY <2>1, <2>2
    <3> QED BY <1>2, <3>1
  <2>3. CASE ~(n > Len(s.rxBuf))
    <3>1. App(e, Copied(s, n))
      BY <2>1, <2>3
    <3>2. n <= Len(s.rxBuf)
      <4>1. s.rxBuf \in Seq(Nat) /\ s.rxCnt \in Nat
        BY <1>1 DEF Typed, Fields
      <4> QED BY <2>3, <4>1
    <3>3. Turned(s, Copied(s, n), sock[Peer(e)])
      BY <1>1, <3>2, CopiedStays, StaysTurned
    <3> QED BY <3>1, <3>3, AppFlows
  <2> QED BY <2>2, <2>3
<1> QED BY <1>3, <1>4

\* The application closes the socket of a connection, which sends its FIN.
LEMMA CloseChangeTurned ==
    ASSUME NEW s, Typed(s), NEW p, Seen(s, p), s.app # "closed",
           NEW x, \/ x = "FIN_WAIT_1" /\ s.state \in {"SYN_RECEIVED", "ESTABLISHED"}
                  \/ x = "LAST_ACK" /\ s.state = "CLOSE_WAIT"
    PROVE  Turned(s, NutTcpStateChange([s EXCEPT !.app = "closed"], x), p)
<1> DEFINE k == [s EXCEPT !.app = "closed"]
           t == NutTcpStateChange(k, x)
<1>1. Typed(k) /\ Same(s, k, {"app"}) /\ k.app = "closed"
  <2>1. "closed" \in AppPlace
    BY DEF AppPlace
  <2> QED BY <2>1, SetAppIs
<1> HIDE DEF k
<1>2. k.state = s.state /\ x \in State /\ Follows(s.state, x)
  BY <1>1 DEF Same, Names, State, ClosedByUs, Follows
<1>3. Typed(t) /\ Same(k, t, {"state", "ack", "force", "out", "nxt", "nbq"}) /\ t.state = x
  BY <1>1, <1>2, StateChangeIs
<1>4. PICK what \in Kind : Says(k, t, what) /\ Sends(s.state, x, what)
  BY <1>1, <1>2, ChangeSays
<1> HIDE DEF t
<1>5. what = "FIN"
  BY <1>4 DEF Sends
<1>6. Says(s, t, "FIN") /\ "FIN" \in Kind
  <2>1. {"app"} \cap {"out", "nbq", "nxt"} = {}
    OBVIOUS
  <2>2. Mute(s, k)
    BY <1>1, <2>1, MuteSame
  <2> QED BY <1>4, <1>5, <2>2, MuteThen
<1>7. t.app = "closed" /\ t.sm = s.sm /\ t.adv = s.adv
  BY <1>1, <1>3 DEF Same, Names
<1>8. Seen(t, p)
  <2>1. NoFin(t)
    BY <1>7 DEF Seen, NoFin
  <2>2. t.sm = NIL \/ t.sm.flags = {} \/ t.sm.at \in {"closewait", "finish"}
    BY <1>7 DEF Seen, FinHeld
  <2> QED BY <1>3, <1>7, <2>1, <2>2, SeenClosed
<1>9. Speaks(s, t)
  BY <1>6, <1>7 DEF Speaks
<1> QED BY <1>3, <1>7, <1>8, <1>9 DEF Turned, t, k

LEMMA CloseFlows ==
    ASSUME TcpInv, FlowInv, NEW e \in Node, NutTcpCloseSocket(e)
    PROVE  Flows
<1> DEFINE s == sock[e]
           p == sock[Peer(e)]
           k == [s EXCEPT !.app = "closed"]
<1>1. /\ Typed(s) /\ Seen(s, p) /\ s.app # "closed" /\ s.state \in State
      /\ s.state \notin ClosedByUs \cup {"GONE"} /\ "closed" \in AppPlace
  BY FlowIs DEF NutTcpCloseSocket, AppPlace, Typed, Fields
<1>2. Typed(k) /\ Same(s, k, {"app"}) /\ k.app = "closed"
  BY <1>1, SetAppIs
<1>3. App(e, CASE k.state \in {"LISTEN", "SYN_SENT", "CLOSED"} -> NutTcpDestroySocket(k)
               [] k.state \in {"SYN_RECEIVED", "ESTABLISHED"} -> NutTcpStateChange(k, "FIN_WAIT_1")
               [] k.state = "CLOSE_WAIT" -> NutTcpStateChange(k, "LAST_ACK"))
  BY DEF NutTcpCloseSocket
<1>4. ASSUME NEW x, \/ x = "FIN_WAIT_1" /\ s.state \in {"SYN_RECEIVED", "ESTABLISHED"}
                    \/ x = "LAST_ACK" /\ s.state = "CLOSE_WAIT"
      PROVE  Turned(s, NutTcpStateChange(k, x), p)
  BY <1>1, <1>4, CloseChangeTurned
<1> HIDE DEF k
<1>5. k.state = s.state /\ k.sm = s.sm /\ k.adv = s.adv
  BY <1>2 DEF Same, Names
<1>6. CASE s.state \in {"LISTEN", "SYN_SENT", "CLOSED"}
  <2>1. App(e, NutTcpDestroySocket(k))
    BY <1>3, <1>5, <1>6
  <2>2. NoFin(k) /\ FinHeld(k, p)
    <3>1. k.sm # NIL /\ k.sm.flags # {} => k.sm.at \in {"closewait", "finish"}
      BY <1>1, <1>5 DEF Seen, FinHeld
    <3> QED BY <1>1, <1>2, <1>5, <3>1 DEF Seen, NoFin, FinHeld
  <2>3. Turned(k, NutTcpDestroySocket(k), p)
    BY <1>2, <2>2, DestroyTurned
  <2>4. NutTcpDestroySocket(k).state = "GONE"
    BY DEF NutTcpDestroySocket, NewSocket
  <2>5. Turned(s, NutTcpDestroySocket(k), p)
    BY <1>1, <2>3, <2>4 DEF Turned
  <2> QED BY <2>1, <2>5, AppFlows
<1>7. CASE s.state \in {"SYN_RECEIVED", "ESTABLISHED"}
  <2>1. App(e, NutTcpStateChange(k, "FIN_WAIT_1"))
    BY <1>3, <1>5, <1>7
  <2> QED BY <1>4, <1>7, <2>1, AppFlows
<1>8. CASE s.state = "CLOSE_WAIT"
  <2>1. App(e, NutTcpStateChange(k, "LAST_ACK"))
    BY <1>3, <1>5, <1>8
  <2> QED BY <1>4, <1>8, <2>1, AppFlows
<1> QED BY <1>1, <1>6, <1>7, <1>8 DEF State

LEMMA NextFlows ==
    ASSUME TcpInv, FlowInv, Next
    PROVE  Flows
<1>1. ASSUME NEW e \in Node, SmStep(e) PROVE Flows
  BY <1>1, ContinueFlows, LateAckFlows, RetransmitFlows, RetransmitFailsFlows,
     TimeWaitFlows, SynTimeoutFlows DEF SmStep
<1>2. ASSUME NEW e \in Node, NetStep(e) PROVE Flows
  BY <1>2, ReceiveFlows, ReceiveNoSocketFlows DEF NetStep
<1>3. ASSUME NEW e \in Node, AppStep(e) PROVE Flows
  BY <1>3, SendFlows, ReceiveCallFlows, CloseFlows DEF AppStep
<1>4. ASSUME NutTcpConnect \/ ConnectWait \/ NutTcpAccept \/ AcceptTimeout \/ NutTcpBacklogTimer
      PROVE  Flows
  BY <1>4, ConnectFlows, ConnectWaitFlows, AcceptFlows, AcceptTimeoutFlows, BacklogTimerFlows
<1> QED BY <1>1, <1>2, <1>3, <1>4 DEF Next

LEMMA NextFlowInv ==
    ASSUME TcpInv, TcpInv', FlowInv, [Next]_vars
    PROVE  FlowInv'
<1>1. CASE Next
  <2>1. Flows
    BY <1>1, NextFlows
  <2>2. PICK e \in Node : \E t, gone : Step(e, t, gone) /\ Turned(sock[e], t, sock[Peer(e)])
    BY <2>1 DEF Flows
  <2>3. PICK t, gone : Step(e, t, gone) /\ Turned(sock[e], t, sock[Peer(e)])
    BY <2>2
  <2> QED BY <2>1, <2>3, FlowKeeps DEF Flows
<1>2. CASE UNCHANGED vars
  <2>1. sock' = sock /\ net' = net /\ backlog' = backlog
    BY <1>2 DEF vars
  <2> QED BY <2>1 DEF FlowInv, Flow, Theirs
<1> QED BY <1>1, <1>2

LEMMA InitFlow == Init => FlowInv
<1> SUFFICES ASSUME Init, NEW e \in Node PROVE Flow(e)
  BY DEF FlowInv
<1>1. /\ Peer(e) \in Node /\ sock[e] = NewSocket /\ sock[Peer(e)] = NewSocket
      /\ net[e] = {} /\ backlog = NIL
  BY PeerIs DEF Init
<1>2. NewSocket.nxt = 0 /\ NewSocket.skew = FALSE
  BY DEF NewSocket
<1>3. Seen(NewSocket, NewSocket)
  <2>1. DOMAIN NewSocket.adv = {}
    BY NewSocketIs
  <2>2. NoFin(NewSocket) /\ FinHeld(NewSocket, NewSocket)
    BY <2>1, NewSocketIs DEF NoFin, FinHeld
  <2>3. Level(NewSocket, NewSocket)
    BY <1>2, <2>1, NewSocketIs DEF Level, Receiving
  <2> QED BY <2>2, <2>3, NewSocketIs DEF Seen
<1>4. ASSUME NEW o PROVE ~Theirs(Peer(e), o)
  <2>1. Peer(Peer(e)) = e
    BY PeerIs
  <2>2. ~Member(NewSocket.nbq, o)
    BY NewSocketIs DEF Member
  <2> QED BY <1>1, <2>1, <2>2 DEF Theirs
<1> QED BY <1>1, <1>3, <1>4, NewSocketIs DEF Flow

\* What each socket knows of the stream of its peer: so_rx_nxt is not beyond so_tx_nxt of
\* the peer, every segment on its way is part of that stream, and a FIN ends it, also when
\* NutTcpSm has taken it and gone away to send, whatever the network does meanwhile.
THEOREM TcpFlowInvariant == Spec => []FlowInv
<1>1. Init => FlowInv
  BY InitFlow
<1>2. TcpInv /\ TcpInv' /\ FlowInv /\ [Next]_vars => FlowInv'
  BY NextFlowInv
<1> QED BY <1>1, <1>2, TcpInvariant, PTL DEF Spec

\* An application that finds its socket in CLOSE_WAIT, where NutTcpReceive returns 0 at the
\* end of the buffer, has been sent nothing else: its peer has closed the connection, and
\* while that socket exists so_rx_nxt is the so_tx_nxt of its FIN.
THEOREM TcpEofMeansAll == Spec => []EofMeansAll
<1>1. TcpInv /\ FlowInv => EofMeansAll
  <2> SUFFICES ASSUME TcpInv, FlowInv, NEW e \in Node, sock[e].state = "CLOSE_WAIT",
                      ~sock[e].skew
               PROVE  /\ sock[Peer(e)].app = "closed"
                      /\ sock[Peer(e)].state \in ClosedByUs => sock[Peer(e)].nxt = sock[e].rxNxt
    BY DEF EofMeansAll
  <2>1. /\ Typed(sock[e]) /\ Seen(sock[e], sock[Peer(e)])
        /\ sock[e].app = "closed" <=> sock[e].state \in ClosedByUs \cup {"GONE"}
    BY FlowIs
  <2>2. sock[e].skew = FALSE /\ sock[e].app # "closed"
    BY <2>1 DEF Typed, Fields, ClosedByUs
  <2>3. sock[Peer(e)].app = "closed"
    BY <2>1 DEF Seen
  <2>4. ASSUME sock[Peer(e)].state \in ClosedByUs PROVE sock[Peer(e)].nxt = sock[e].rxNxt
    <3>1. sock[Peer(e)].state # "GONE"
      BY <2>4 DEF ClosedByUs
    <3>2. Level(sock[e], sock[Peer(e)])
      BY <2>1, <2>2, <3>1 DEF Seen
    <3> QED BY <3>2 DEF Level
  <2> QED BY <2>3, <2>4
<1> QED BY <1>1, TcpInvariant, TcpFlowInvariant, PTL

=============================================================================
