--------------------------- MODULE NutDhcpProofs ----------------------------
(***************************************************************************)
(* The safety of the DHCP client, for any number of application threads,   *)
(* addresses, retries, and any times.                                      *)
(***************************************************************************)
EXTENDS NutDhcp, TLAPS

\* The states in which messages are sent.
Working == State \ {"INIT", "IDLE", "BOUND"}
Exchanging == thread.pc \in {"sending", "receiving"}

\* Whatever a caller makes of dhcpState, it leaves the configuration to the client.
ConfigKept ==
    /\ dhcpState \in {"BOUND", "RENEWING", "REBINDING"} => dhcpConfig # NULL
    /\ thread.pc = "bound" => dhcpConfig # NULL
    /\ Exchanging /\ thread.branch \in {"RENEWING", "REBINDING", "RELEASING"} =>
          dhcpConfig # NULL

\* While the client exchanges messages a caller can only start anew.
BranchKept ==
    /\ Exchanging => thread.branch \in Working /\ dhcpState \in {thread.branch, "INIT"}
    /\ thread.pc \notin {"top", "sending", "receiving"} => thread.retries = 0

\* What is out is of the state that goes on to be repeated.
XidCurrent ==
    /\ Exchanging => \A m \in sent : m.state = thread.branch
    /\ thread.pc = "top" /\ thread.retries # 0 /\ dhcpState \in Working =>
          \A m \in sent : m.state = dhcpState

\* It left after the client began to ask.
AskedBefore ==
    /\ thread.aqsTime <= now
    /\ \A m \in sent : thread.aqsTime <= m.at
    /\ thread.pc \in {"none", "new"} => sent = {}

\* A command that comes between the broadcast and the nap has signaled dhcpWake.
Heard ==
    /\ thread.pc = "none" => dhcpState = "IDLE"
    /\ thread.pc = "sleep" \/ (thread.pc = "idle" /\ ~dhcpWake) => dhcpState = "IDLE"
    /\ thread.pc = "nap" \/ (thread.pc = "bound" /\ ~dhcpWake) => dhcpState = "BOUND"

\* So has a thread that is about to wait.
Woken ==
    (thread.pc \in {"nap", "sleep"} \/ (thread.pc \in {"idle", "bound"} /\ ~dhcpWake)) =>
        \A a \in App : app[a].pc \notin {"posted", "waiting"}

IInv ==
    /\ TypeOK /\ ConfigKept /\ BranchKept /\ XidCurrent /\ AskedBefore /\ Heard /\ Woken

-----------------------------------------------------------------------------
(* What the pieces of a handler do.                                        *)

LEMMA Numbers ==
    /\ MinWait \in Nat /\ MaxWait \in Nat /\ MaxNap \in Nat
    /\ Second \in Nat /\ Word \in Nat \ {0}
    /\ RenewalOption \in Nat /\ RebindOption \in Nat
    /\ MaxRetries \in Nat /\ MaxReleaseRetries \in Nat /\ MaxTime \in Nat
BY TimeAssumption, NumberAssumption

LEMMA MillisNat == TypeOK => Millis \in Nat
<1> SUFFICES ASSUME TypeOK PROVE Millis \in Nat
  OBVIOUS
<1>1. now \in Nat /\ Second \in Nat
  BY Numbers DEF TypeOK
<1> QED BY <1>1 DEF Millis

LEMMA DoubledType ==
    ASSUME TypeOK
    PROVE  /\ Doubled \in Thread /\ Doubled.retries = thread.retries
           /\ Doubled.leaseTime = thread.leaseTime /\ Doubled.aqsTime = thread.aqsTime
<1>1. thread \in Thread /\ thread.tmo \in Nat
  BY DEF TypeOK, Thread
<1>2. (2 * thread.tmo) % Word \in Nat
  BY <1>1, Numbers
<1> QED BY <1>1, <1>2, Numbers DEF Doubled, AtMost, Thread

\* The thread that a handler works with, once the time is not up.
LEMMA PacedType ==
    ASSUME TypeOK, ~TimeIsUp
    PROVE  /\ Paced \in Thread /\ Paced.retries = thread.retries
           /\ Paced.leaseTime = thread.leaseTime
           /\ Paced.aqsTime = IF Asking /\ thread.retries = 0 THEN now ELSE thread.aqsTime
<1> DEFINE aqs == IF Asking /\ thread.retries = 0 THEN now ELSE thread.aqsTime
<1>1. thread \in Thread /\ aqs \in 0 .. MaxTime
  BY DEF TypeOK, Thread
<1>3. /\ Doubled \in Thread /\ Doubled.retries = thread.retries
      /\ Doubled.leaseTime = thread.leaseTime /\ Doubled.tmo \in Nat
  BY DoubledType DEF Thread
<1>4. dhcpState # "IDLE" /\ dhcpApiTimeout # Infinite => dhcpApiTimeout - SinceKick \in Nat
  <2>1. SinceKick \in Int /\ dhcpApiTimeout \in Nat
    BY MillisNat DEF SinceKick, TypeOK
  <2>2. dhcpState # "IDLE" /\ dhcpApiTimeout # Infinite => ~(dhcpApiTimeout <= SinceKick)
    BY DEF TimeIsUp
  <2> QED BY <2>1, <2>2
<1>5. Paced = Timed(aqs)
  BY DEF Paced
<1> DEFINE left == IF dhcpState = "IDLE" \/ dhcpApiTimeout = Infinite
                     THEN Doubled.tmo ELSE dhcpApiTimeout - SinceKick
           ms == AtMost(Doubled.tmo, left)
<1>6. ms \in Nat
  BY <1>3, <1>4 DEF AtMost
<1>7. Paced = [Doubled EXCEPT !.tmo = ms, !.aqsTime = aqs]
  BY <1>5 DEF Timed
<1> HIDE DEF ms, aqs
<1>8. /\ Paced \in Thread /\ Paced.retries = thread.retries
      /\ Paced.leaseTime = thread.leaseTime /\ Paced.aqsTime = aqs
  BY <1>1, <1>3, <1>6, <1>7 DEF Thread
<1> QED BY <1>8 DEF aqs

LEMMA ReadyType ==
    ASSUME TypeOK, ~TimeIsUp
    PROVE  /\ Ready \in Thread /\ Ready.retries # 0
           /\ Ready.aqsTime = Paced.aqsTime /\ Ready.leaseTime = thread.leaseTime
<1>1. Paced \in Thread /\ Paced.leaseTime = thread.leaseTime
  BY PacedType
<1>2. Paced.retries \in 0 .. MaxRetries + 1
  BY <1>1 DEF Thread
<1>3. Counted(Paced.retries) \in 0 .. MaxRetries + 1 /\ Counted(Paced.retries) # 0
  BY <1>2, Numbers DEF Counted
<1> QED BY <1>1, <1>3 DEF Ready, Thread

\* What a step leaves alone that only moves the client.
Alone == UNCHANGED <<dhcpWake, dhcpApiStart, dhcpApiTimeout, app, interface, now>>
Typed(c) == c \in Config("OFFER") \cup Config("ACK") \cup {NULL}

LEMMA GoToType ==
    ASSUME NEW s, NEW t \in Thread, GoTo(s, t)
    PROVE  /\ dhcpState' = s /\ thread' \in Thread /\ thread'.pc = "top"
           /\ thread'.retries = t.retries /\ thread'.aqsTime = t.aqsTime
           /\ thread'.leaseTime = t.leaseTime
<1> DEFINE ms == IF t.retries = 0 THEN MinWait ELSE t.tmo
<1>1. thread' = [t EXCEPT !.pc = "top", !.branch = "IDLE", !.until = Never, !.tmo = ms]
  BY DEF GoTo
<1>2. ms \in Nat
  BY Numbers DEF Thread
<1> HIDE DEF ms
<1>3. "IDLE" \in State
  BY DEF State
<1> QED BY <1>1, <1>2, <1>3 DEF GoTo, Thread

\* Back to the top.
LEMMA GoToKeeps ==
    ASSUME IInv, NEW s \in State, NEW t \in Thread, GoTo(s, t), Alone, Typed(dhcpConfig'),
           s \in {"BOUND", "RENEWING", "REBINDING"} => dhcpConfig' # NULL,
           t.aqsTime <= now, \A m \in sent' : m.at \in 0 .. now /\ t.aqsTime <= m.at,
           t.retries # 0 /\ s \in Working => \A m \in sent' : m.state = s
    PROVE  IInv'
<1>1. /\ dhcpState' = s /\ thread' \in Thread /\ thread'.pc = "top"
      /\ thread'.retries = t.retries /\ thread'.aqsTime = t.aqsTime
  BY GoToType
<1>2. TypeOK'
  BY <1>1 DEF IInv, TypeOK, Alone, interface, Typed
<1>3. ConfigKept'
  BY <1>1 DEF ConfigKept, Exchanging
<1>4. BranchKept'
  BY <1>1 DEF BranchKept, Exchanging
<1>5. XidCurrent'
  BY <1>1 DEF XidCurrent, Exchanging
<1>6. AskedBefore'
  BY <1>1 DEF AskedBefore, Alone
<1>7. Heard' /\ Woken'
  BY <1>1 DEF Heard, Woken
<1> QED BY <1>2, <1>3, <1>4, <1>5, <1>6, <1>7 DEF IInv

\* On to the transmission.
LEMMA TransmitKeeps ==
    ASSUME IInv, NEW s \in Working, dhcpState = s, NEW t \in Thread, Transmit(s, t), Alone,
           dhcpConfig' = dhcpConfig,
           s = "RELEASING" => dhcpConfig # NULL,
           t.aqsTime <= now,
           \A m \in sent' : m.at \in 0 .. now /\ t.aqsTime <= m.at /\ m.state = s
    PROVE  IInv'
<1>1. thread' = [t EXCEPT !.pc = "sending", !.branch = s] /\ dhcpState' = s /\ s \in State
  BY DEF Transmit, Working
<1>2. /\ thread' \in Thread /\ thread'.pc = "sending" /\ thread'.branch = s
      /\ thread'.aqsTime = t.aqsTime
  BY <1>1 DEF Thread
<1>3. TypeOK'
  BY <1>1, <1>2 DEF IInv, TypeOK, Alone, interface
<1>4. ConfigKept'
  BY <1>1, <1>2 DEF IInv, ConfigKept, Exchanging
<1>5. BranchKept'
  BY <1>1, <1>2 DEF BranchKept, Exchanging
<1>6. XidCurrent' /\ AskedBefore'
  BY <1>1, <1>2 DEF XidCurrent, AskedBefore, Exchanging, Alone
<1>7. Heard' /\ Woken'
  BY <1>2 DEF Heard, Woken
<1> QED BY <1>3, <1>4, <1>5, <1>6, <1>7 DEF IInv

\* What is still out after the top of the loop belongs to the state and left in time.
LEMMA NextXidKeeps ==
    ASSUME IInv, thread.pc = "top", NextXid, ~TimeIsUp
    PROVE  /\ Paced.aqsTime <= now
           /\ \A m \in sent' : m.at \in 0 .. now /\ Paced.aqsTime <= m.at
           /\ dhcpState \in Working => \A m \in sent' : m.state = dhcpState
<1>1. Paced.aqsTime = IF Asking /\ thread.retries = 0 THEN now ELSE thread.aqsTime
  BY PacedType DEF IInv
<1>2. sent' = IF thread.retries = 0 THEN {} ELSE sent
  BY DEF NextXid
<1>3. Paced.aqsTime <= now
  BY <1>1 DEF IInv, TypeOK, AskedBefore
<1> QED BY <1>1, <1>2, <1>3 DEF IInv, TypeOK, AskedBefore, XidCurrent

-----------------------------------------------------------------------------
(* The handlers of the client.                                             *)

LEMMA GiveUpKeeps == IInv /\ GiveUp /\ Alone => IInv'
<1> SUFFICES ASSUME IInv, GiveUp, Alone PROVE IInv'
  OBVIOUS
<1>0. /\ TypeOK /\ "IDLE" \in State /\ "IDLE" \notin Working
      /\ thread.pc = "top" /\ NextXid /\ dhcpConfig' = dhcpConfig /\ Typed(dhcpConfig')
  BY DEF IInv, TypeOK, GiveUp, State, Working, Typed
<1>1. CASE TimeIsUp
  <2>1. GoTo("IDLE", Doubled)
    BY <1>1 DEF GiveUp
  <2>2. /\ Doubled.aqsTime <= now
        /\ \A m \in sent' : m.at \in 0 .. now /\ Doubled.aqsTime <= m.at
    BY <1>0, DoubledType DEF IInv, TypeOK, AskedBefore, NextXid
  <2> QED BY <1>0, <2>1, <2>2, DoubledType, GoToKeeps
<1>2. CASE ~TimeIsUp
  <2>1. GoTo("IDLE", Paced)
    BY <1>2 DEF GiveUp
  <2> QED BY <1>0, <1>2, <2>1, PacedType, NextXidKeeps, GoToKeeps
<1> QED BY <1>1, <1>2

\* What every handler finds.
LEMMA Found ==
    ASSUME IInv, NEW s \in State, Active(s)
    PROVE  /\ TypeOK /\ ~TimeIsUp /\ thread.pc = "top" /\ dhcpState = s
           /\ Typed(dhcpConfig)
           /\ Ready \in Thread /\ Ready.retries # 0 /\ Ready.aqsTime = Paced.aqsTime
           /\ s \in {"RENEWING", "REBINDING"} => dhcpConfig # NULL
BY ReadyType DEF IInv, TypeOK, ConfigKept, Active, At, Typed

LEMMA RestartKeeps == IInv /\ Restart /\ Alone /\ UNCHANGED dhcpConfig => IInv'
<1> SUFFICES ASSUME IInv, Restart, Alone, UNCHANGED dhcpConfig PROVE IInv'
  OBVIOUS
<1> DEFINE s == IF thread.last_ip = NoAddress THEN "SELECTING" ELSE "REBOOTING"
           t == [Ready EXCEPT !.retries = 0]
<1>1. s \in State /\ "INIT" \in State
  BY DEF State
<1>2. Active("INIT") /\ GoTo(s, t) /\ sent' = {}
  BY DEF Restart
<1>3. Ready \in Thread /\ Typed(dhcpConfig') /\ Ready.aqsTime <= now
  <2>1. /\ Ready \in Thread /\ Typed(dhcpConfig') /\ Ready.aqsTime = Paced.aqsTime
        /\ TypeOK /\ ~TimeIsUp
    BY <1>1, <1>2, Found
  <2>2. Paced.aqsTime <= now
    BY <2>1, PacedType DEF IInv, TypeOK, AskedBefore
  <2> QED BY <2>1, <2>2
<1>4. t \in Thread /\ t.retries = 0 /\ t.aqsTime = Ready.aqsTime
  BY <1>3, Numbers DEF Thread
<1>5. s \notin {"BOUND", "RENEWING", "REBINDING"}
  OBVIOUS
<1> HIDE DEF s, t
<1> QED BY <1>1, <1>2, <1>3, <1>4, <1>5, GoToKeeps

LEMMA SelectingKeeps == IInv /\ Selecting /\ Alone /\ UNCHANGED dhcpConfig => IInv'
<1> SUFFICES ASSUME IInv, Selecting, Alone, UNCHANGED dhcpConfig PROVE IInv'
  OBVIOUS
<1>1. /\ "SELECTING" \in Working /\ "SELECTING" \in State /\ "IDLE" \in State
      /\ "BOUND" \in State /\ "IDLE" \notin Working /\ "BOUND" \notin Working
  BY DEF State, Working
<1>2. Active("SELECTING") /\ NextXid
  BY DEF Selecting
<1>3. /\ TypeOK /\ ~TimeIsUp /\ thread.pc = "top" /\ dhcpState = "SELECTING"
      /\ Ready \in Thread /\ Ready.aqsTime = Paced.aqsTime /\ Typed(dhcpConfig')
  BY <1>1, <1>2, Found
<1>4. /\ Ready.aqsTime <= now
      /\ \A m \in sent' : m.at \in 0 .. now /\ Ready.aqsTime <= m.at /\ m.state = "SELECTING"
  BY <1>1, <1>2, <1>3, NextXidKeeps
<1>5. CASE thread.retries <= MaxRetries
  <2>1. Transmit("SELECTING", Ready)
    BY <1>3, <1>5, Numbers DEF Selecting, TypeOK, Thread
  <2> QED BY <1>1, <1>3, <1>4, <2>1, TransmitKeeps
<1>6. CASE thread.retries > MaxRetries /\ dhcpConfig # NULL
  <2> DEFINE t == [Ready EXCEPT !.leaseTime = Ready.aqsTime]
  <2>2. GoTo("BOUND", t)
    BY <1>3, <1>6, Numbers DEF Selecting, TypeOK, Thread
  <2>3. t \in Thread /\ t.aqsTime = Ready.aqsTime
    BY <1>3 DEF Thread
  <2> HIDE DEF t
  <2> QED BY <1>1, <1>3, <1>4, <1>6, <2>2, <2>3, GoToKeeps
<1>7. CASE thread.retries > MaxRetries /\ dhcpConfig = NULL
  <2>1. GoTo("IDLE", Ready)
    BY <1>3, <1>7, Numbers DEF Selecting, TypeOK, Thread
  <2> QED BY <1>1, <1>3, <1>4, <2>1, GoToKeeps
<1>8. thread.retries <= MaxRetries \/ thread.retries > MaxRetries
  BY <1>3, Numbers DEF TypeOK, Thread
<1> QED BY <1>5, <1>6, <1>7, <1>8

LEMMA RebootingKeeps == IInv /\ Rebooting /\ Alone /\ UNCHANGED dhcpConfig => IInv'
<1> SUFFICES ASSUME IInv, Rebooting, Alone, UNCHANGED dhcpConfig PROVE IInv'
  OBVIOUS
<1>1. /\ "REBOOTING" \in Working /\ "REBOOTING" \in State /\ "INIT" \in State
      /\ "INIT" \notin Working
  BY DEF State, Working
<1>2. Active("REBOOTING") /\ NextXid
  BY DEF Rebooting
<1>3. /\ TypeOK /\ ~TimeIsUp /\ thread.pc = "top" /\ dhcpState = "REBOOTING"
      /\ Ready \in Thread /\ Ready.aqsTime = Paced.aqsTime /\ Typed(dhcpConfig')
  BY <1>1, <1>2, Found
<1>4. /\ Ready.aqsTime <= now
      /\ \A m \in sent' : m.at \in 0 .. now /\ Ready.aqsTime <= m.at /\ m.state = "REBOOTING"
  BY <1>1, <1>2, <1>3, NextXidKeeps
<1>5. CASE Ready.retries > MaxRetries
  <2> DEFINE t == [Ready EXCEPT !.last_ip = NoAddress]
  <2>1. GoTo("INIT", t)
    BY <1>5 DEF Rebooting
  <2>2. t \in Thread /\ t.aqsTime = Ready.aqsTime
    BY <1>3 DEF Thread
  <2> HIDE DEF t
  <2> QED BY <1>1, <1>3, <1>4, <2>1, <2>2, GoToKeeps
<1>6. CASE ~(Ready.retries > MaxRetries)
  <2>1. Transmit("REBOOTING", Ready)
    BY <1>6 DEF Rebooting
  <2> QED BY <1>1, <1>3, <1>4, <2>1, TransmitKeeps
<1> QED BY <1>5, <1>6

\* The times of a configuration are numbers.
LEMMA Times ==
    ASSUME TypeOK, dhcpConfig # NULL
    PROVE  RenewalTime(dhcpConfig) \in Nat /\ RebindTime(dhcpConfig) \in Nat /\ SinceLease \in Int
<1>1. /\ dhcpConfig.dyn_leaseTime \in Nat /\ thread.leaseTime \in Nat /\ now \in Nat
  <2>1. dhcpConfig.dyn_leaseTime \in Lease
    BY DEF TypeOK, Config
  <2>2. thread.leaseTime \in 0 .. MaxTime /\ now \in 0 .. MaxTime
    BY DEF TypeOK, Thread
  <2>3. dhcpConfig.dyn_leaseTime \in Nat
    BY <2>1, NumberAssumption
  <2>4. thread.leaseTime \in Nat /\ now \in Nat
    BY <2>2, Numbers
  <2> QED BY <2>3, <2>4
<1>2. RenewalTime(dhcpConfig) \in Nat
  BY <1>1, Numbers DEF RenewalTime
<1>3. RebindTime(dhcpConfig) \in Nat
  BY <1>2, Numbers DEF RebindTime
<1> QED BY <1>1, <1>2, <1>3 DEF SinceLease

LEMMA RenewingKeeps == IInv /\ Renewing /\ Alone /\ UNCHANGED dhcpConfig => IInv'
<1> SUFFICES ASSUME IInv, Renewing, Alone, UNCHANGED dhcpConfig PROVE IInv'
  OBVIOUS
<1>1. /\ "RENEWING" \in Working /\ "RENEWING" \in State
      /\ "REBINDING" \in State
  BY DEF State, Working
<1>2. Active("RENEWING") /\ NextXid
  BY DEF Renewing
<1>3. /\ TypeOK /\ ~TimeIsUp /\ thread.pc = "top" /\ dhcpState = "RENEWING"
      /\ Ready \in Thread /\ Ready.aqsTime = Paced.aqsTime /\ Typed(dhcpConfig')
      /\ dhcpConfig' # NULL
  BY <1>1, <1>2, Found
<1>4. /\ Ready.aqsTime <= now
      /\ \A m \in sent' : m.at \in 0 .. now /\ Ready.aqsTime <= m.at /\ m.state = "RENEWING"
  BY <1>1, <1>2, <1>3, NextXidKeeps
<1> DEFINE cut == (RebindTime(dhcpConfig) - SinceLease * Second) % Word
           t == IF Ready.tmo \div Second > UntilRebind THEN [Ready EXCEPT !.tmo = cut] ELSE Ready
<1>5. cut \in Nat
  <2>1. RebindTime(dhcpConfig) \in Int /\ SinceLease * Second \in Int
    BY <1>3, Times, Numbers
  <2> QED BY <2>1, Numbers
<1>6. t \in Thread /\ t.aqsTime = Ready.aqsTime
  BY <1>3, <1>5 DEF Thread
<1> HIDE DEF t
<1>7. CASE RebindTime(dhcpConfig) <= SinceLease
  <2> DEFINE u == [t EXCEPT !.retries = 0]
  <2>1. GoTo("REBINDING", u)
    BY <1>7 DEF Renewing, t, cut
  <2>2. u \in Thread /\ u.aqsTime = Ready.aqsTime /\ u.retries = 0
    BY <1>6, Numbers DEF Thread
  <2> HIDE DEF u
  <2> QED BY <1>1, <1>3, <1>4, <2>1, <2>2, GoToKeeps
<1>8. CASE ~(RebindTime(dhcpConfig) <= SinceLease)
  <2>1. Transmit("RENEWING", t)
    BY <1>8 DEF Renewing, t, cut
  <2> QED BY <1>1, <1>3, <1>4, <1>6, <2>1, TransmitKeeps
<1> QED BY <1>7, <1>8

LEMMA RebindingKeeps == IInv /\ Rebinding /\ Alone /\ UNCHANGED dhcpConfig => IInv'
<1> SUFFICES ASSUME IInv, Rebinding, Alone, UNCHANGED dhcpConfig PROVE IInv'
  OBVIOUS
<1>1. /\ "REBINDING" \in Working /\ "REBINDING" \in State
      /\ "REBINDING" \in State
  BY DEF State, Working
<1>2. Active("REBINDING") /\ NextXid
  BY DEF Rebinding
<1>3. /\ TypeOK /\ ~TimeIsUp /\ thread.pc = "top" /\ dhcpState = "REBINDING"
      /\ Ready \in Thread /\ Ready.aqsTime = Paced.aqsTime /\ Typed(dhcpConfig')
      /\ dhcpConfig' # NULL
  BY <1>1, <1>2, Found
<1>4. /\ Ready.aqsTime <= now
      /\ \A m \in sent' : m.at \in 0 .. now /\ Ready.aqsTime <= m.at /\ m.state = "REBINDING"
  BY <1>1, <1>2, <1>3, NextXidKeeps
<1> DEFINE cut == (RebindTime(dhcpConfig) - now - thread.leaseTime) % Word
           t == IF Ready.tmo > UntilRebind THEN [Ready EXCEPT !.tmo = cut] ELSE Ready
<1>5. cut \in Nat
  BY <1>3, Times, Numbers DEF TypeOK, Thread
<1>6. t \in Thread /\ t.aqsTime = Ready.aqsTime
  BY <1>3, <1>5 DEF Thread
<1> HIDE DEF t
<1>7. CASE RebindTime(dhcpConfig) <= SinceLease
  <2> DEFINE u == [t EXCEPT !.retries = 0]
  <2>1. GoTo("REBINDING", u)
    BY <1>7 DEF Rebinding, t, cut
  <2>2. u \in Thread /\ u.aqsTime = Ready.aqsTime /\ u.retries = 0
    BY <1>6, Numbers DEF Thread
  <2> HIDE DEF u
  <2> QED BY <1>1, <1>3, <1>4, <2>1, <2>2, GoToKeeps
<1>8. CASE ~(RebindTime(dhcpConfig) <= SinceLease)
  <2>1. Transmit("REBINDING", t)
    BY <1>8 DEF Rebinding, t, cut
  <2> QED BY <1>1, <1>3, <1>4, <1>6, <2>1, TransmitKeeps
<1> QED BY <1>7, <1>8

LEMMA InformingKeeps == IInv /\ Informing /\ Alone /\ UNCHANGED dhcpConfig => IInv'
<1> SUFFICES ASSUME IInv, Informing, Alone, UNCHANGED dhcpConfig PROVE IInv'
  OBVIOUS
<1>1. /\ "INFORMING" \in Working /\ "INFORMING" \in State
      /\ "IDLE" \in State /\ "IDLE" \notin Working
  BY DEF State, Working
<1>2. Active("INFORMING") /\ NextXid
  BY DEF Informing
<1>3. /\ TypeOK /\ ~TimeIsUp /\ thread.pc = "top" /\ dhcpState = "INFORMING"
      /\ Ready \in Thread /\ Ready.aqsTime = Paced.aqsTime /\ Typed(dhcpConfig')
  BY <1>1, <1>2, Found
<1>4. /\ Ready.aqsTime <= now
      /\ \A m \in sent' : m.at \in 0 .. now /\ Ready.aqsTime <= m.at /\ m.state = "INFORMING"
  BY <1>1, <1>2, <1>3, NextXidKeeps
<1>5. CASE thread.retries > MaxRetries
  <2>1. GoTo("IDLE", Ready)
    BY <1>5 DEF Informing
  <2> QED BY <1>1, <1>3, <1>4, <2>1, GoToKeeps
<1>6. CASE ~(thread.retries > MaxRetries)
  <2>1. Transmit("INFORMING", Ready)
    BY <1>6 DEF Informing
  <2> QED BY <1>1, <1>3, <1>4, <1>6, <2>1, TransmitKeeps
<1> QED BY <1>5, <1>6

LEMMA ReleasingKeeps == IInv /\ Releasing /\ Alone /\ UNCHANGED dhcpConfig => IInv'
<1> SUFFICES ASSUME IInv, Releasing, Alone, UNCHANGED dhcpConfig PROVE IInv'
  OBVIOUS
<1>1. /\ "RELEASING" \in Working /\ "RELEASING" \in State
      /\ "IDLE" \in State /\ "IDLE" \notin Working
  BY DEF State, Working
<1>2. Active("RELEASING") /\ NextXid
  BY DEF Releasing
<1>3. /\ TypeOK /\ ~TimeIsUp /\ thread.pc = "top" /\ dhcpState = "RELEASING"
      /\ Ready \in Thread /\ Ready.aqsTime = Paced.aqsTime /\ Typed(dhcpConfig')
  BY <1>1, <1>2, Found
<1>4. /\ Ready.aqsTime <= now
      /\ \A m \in sent' : m.at \in 0 .. now /\ Ready.aqsTime <= m.at /\ m.state = "RELEASING"
  BY <1>1, <1>2, <1>3, NextXidKeeps
<1>5. CASE dhcpConfig = NULL \/ thread.retries > MaxReleaseRetries
  <2>1. GoTo("IDLE", Ready)
    BY <1>5 DEF Releasing
  <2> QED BY <1>1, <1>3, <1>4, <2>1, GoToKeeps
<1>6. CASE ~(dhcpConfig = NULL \/ thread.retries > MaxReleaseRetries)
  <2>1. Transmit("RELEASING", Ready)
    BY <1>6 DEF Releasing
  <2> QED BY <1>1, <1>3, <1>4, <1>6, <2>1, TransmitKeeps
<1> QED BY <1>5, <1>6

LEMMA HandleKeeps == IInv /\ Handle /\ Alone => IInv'
BY RestartKeeps, SelectingKeeps, RebootingKeeps, RenewingKeeps, RebindingKeeps,
   InformingKeeps, ReleasingKeeps DEF Handle

-----------------------------------------------------------------------------
(* Messages and answers.                                                   *)

\* What the exchange of messages finds.
LEMMA Exchanged ==
    ASSUME IInv, Exchanging
    PROVE  /\ TypeOK /\ Typed(dhcpConfig) /\ thread \in Thread
           /\ dhcpState \in State /\ dhcpState \in {thread.branch, "INIT"}
           /\ thread.branch \in Working /\ thread.aqsTime <= now
           /\ \A m \in sent : /\ m.at \in 0 .. now /\ thread.aqsTime <= m.at
                             /\ m.state = thread.branch
           /\ thread.branch \in {"RENEWING", "REBINDING", "RELEASING"} => dhcpConfig # NULL
           /\ "BOUND" \in State /\ "IDLE" \in State /\ "INIT" \in State /\ "REBINDING" \in State
           /\ {"BOUND", "IDLE", "INIT"} \cap Working = {}
BY DEF IInv, TypeOK, ConfigKept, BranchKept, XidCurrent, AskedBefore, Typed, Working, State

\* The state goes on as it is, maybe with another configuration.
LEMMA GoOnKeeps ==
    ASSUME IInv, Exchanging, NEW t \in Thread, GoTo(dhcpState, t), t.aqsTime = thread.aqsTime,
           Alone, Typed(dhcpConfig'), dhcpConfig # NULL => dhcpConfig' # NULL, UNCHANGED sent
    PROVE  IInv'
<1>1. /\ dhcpState \in State /\ dhcpState \in {thread.branch, "INIT"} /\ t.aqsTime <= now
      /\ \A m \in sent' : /\ m.at \in 0 .. now /\ t.aqsTime <= m.at
                         /\ m.state = thread.branch
      /\ "INIT" \notin Working
  BY Exchanged
<1>2. dhcpState \in {"BOUND", "RENEWING", "REBINDING"} => dhcpConfig' # NULL
  BY DEF IInv, ConfigKept
<1>3. t.retries # 0 /\ dhcpState \in Working => \A m \in sent' : m.state = dhcpState
  BY <1>1
<1> QED BY <1>1, <1>2, <1>3, GoToKeeps

\* Another state begins; without a transmission, or from its first one.
LEMMA TurnKeeps ==
    ASSUME IInv, Exchanging, NEW s \in State, NEW t \in Thread, GoTo(s, t),
           t.aqsTime = thread.aqsTime, s \notin Working \/ t.retries = 0,
           Alone, Typed(dhcpConfig'), UNCHANGED sent,
           s \in {"BOUND", "RENEWING", "REBINDING"} => dhcpConfig' # NULL
    PROVE  IInv'
<1>1. t.aqsTime <= now /\ \A m \in sent' : m.at \in 0 .. now /\ t.aqsTime <= m.at
  BY Exchanged
<1> QED BY <1>1, GoToKeeps

LEMMA SendKeeps == IInv /\ DhcpSendMessage /\ Alone => IInv'
<1> SUFFICES ASSUME IInv, DhcpSendMessage, Alone PROVE IInv'
  OBVIOUS
<1>1. Exchanging /\ thread.pc = "sending" /\ UNCHANGED <<dhcpConfig, dhcpWake>>
  BY DEF DhcpSendMessage, Exchanging
<1>2. CASE /\ sent' = Repeated
           /\ thread' = [thread EXCEPT !.pc = "receiving", !.until = End(thread.tmo)]
           /\ UNCHANGED dhcpState
  <2>1. End(thread.tmo) \in Nat \cup {Never}
    BY <1>1, Exchanged, MillisNat DEF End, Thread
  <2>2. /\ thread' \in Thread /\ thread'.pc = "receiving"
        /\ thread'.branch = thread.branch /\ thread'.aqsTime = thread.aqsTime
    BY <1>1, <1>2, <2>1, Exchanged DEF Thread
  <2>3. now \in 0 .. now /\ thread.aqsTime <= now
    <3>1. now \in 0 .. MaxTime /\ thread.aqsTime \in 0 .. MaxTime
      BY DEF IInv, TypeOK, Thread
    <3>2. thread.aqsTime <= now
      BY <1>1, Exchanged
    <3> QED BY <3>1, <3>2
  <2>4. \A m \in sent' : /\ m.at \in 0 .. now /\ thread.aqsTime <= m.at
                       /\ m.state = thread.branch
    BY <1>1, <1>2, <2>3, Exchanged DEF Repeated
  <2>5. TypeOK'
    BY <1>1, <1>2, <2>2, <2>4 DEF IInv, TypeOK, Alone, interface
  <2>6. ConfigKept' /\ BranchKept'
    BY <1>1, <1>2, <2>2 DEF IInv, ConfigKept, BranchKept, Exchanging
  <2>7. XidCurrent' /\ AskedBefore'
    BY <2>2, <2>3, <2>4 DEF XidCurrent, AskedBefore, Alone
  <2>8. Heard' /\ Woken'
    BY <2>2 DEF Heard, Woken
  <2> QED BY <2>5, <2>6, <2>7, <2>8 DEF IInv
<1>3. CASE SendFailed /\ UNCHANGED sent
  <2>1. CASE thread.branch = "RENEWING" /\ GoTo("REBINDING", [thread EXCEPT !.retries = 0])
    <3> DEFINE t == [thread EXCEPT !.retries = 0]
    <3>1. t \in Thread /\ t.retries = 0 /\ t.aqsTime = thread.aqsTime
      BY <1>1, Exchanged, Numbers DEF Thread
    <3>2. GoTo("REBINDING", t)
      BY <2>1
    <3> HIDE DEF t
    <3> QED BY <1>1, <1>3, <2>1, <3>1, <3>2, Exchanged, TurnKeeps
  <2>2. CASE GoTo(dhcpState, thread)
    BY <1>1, <1>3, <2>2, Exchanged, GoOnKeeps
  <2>3. CASE GoTo("IDLE", thread)
    BY <1>1, <1>3, <2>3, Exchanged, TurnKeeps
  <2> QED BY <1>3, <2>1, <2>2, <2>3 DEF SendFailed
<1> QED BY <1>2, <1>3 DEF DhcpSendMessage

LEMMA OfferedKeeps ==
    ASSUME IInv, Exchanging, thread.branch = "SELECTING",
           NEW offer \in Config("OFFER") \cup {NULL}, Offered(offer),
           Alone, UNCHANGED sent
    PROVE  IInv'
<1>1. /\ Typed(dhcpConfig) /\ thread \in Thread /\ thread.tmo \in Nat
      /\ dhcpState \in {"SELECTING", "INIT"}
  BY Exchanged DEF Thread
<1>2. Typed(dhcpConfig') /\ (dhcpConfig # NULL => dhcpConfig' # NULL)
  BY <1>1 DEF Offered, CheckOffer, Typed
<1>3. CASE GoTo(dhcpState, Enough)
  <2>1. Enough \in Thread /\ Enough.aqsTime = thread.aqsTime
    BY <1>1, Numbers DEF Enough, Thread
  <2> QED BY <1>2, <1>3, <2>1, GoOnKeeps
<1>4. CASE ~GoTo(dhcpState, Enough)
  <2> DEFINE wait == IF dhcpConfig' = NULL THEN thread.tmo ELSE MinWait
  <2>1. /\ thread' = [thread EXCEPT !.tmo = wait, !.until = End(wait)]
        /\ UNCHANGED dhcpState
    BY <1>4 DEF Offered
  <2>2. wait \in Nat /\ End(wait) \in Nat \cup {Never}
    BY <1>1, MillisNat, Numbers DEF End, IInv
  <2> HIDE DEF wait
  <2>3. /\ thread' \in Thread /\ thread'.pc = thread.pc /\ thread'.branch = thread.branch
        /\ thread'.aqsTime = thread.aqsTime /\ thread'.retries = thread.retries
    BY <1>1, <2>1, <2>2 DEF Thread
  <2>4. TypeOK'
    BY <1>2, <2>1, <2>3 DEF IInv, TypeOK, Alone, interface, Typed
  <2>5. ConfigKept' /\ BranchKept'
    BY <1>1, <1>2, <2>1, <2>3 DEF IInv, ConfigKept, BranchKept, Exchanging
  <2>6. XidCurrent' /\ AskedBefore'
    BY <2>1, <2>3 DEF IInv, XidCurrent, AskedBefore, Exchanging, Alone
  <2>7. Heard' /\ Woken'
    BY <2>3 DEF Heard, Woken, Exchanging
  <2> QED BY <2>4, <2>5, <2>6, <2>7 DEF IInv
<1> QED BY <1>3, <1>4

LEMMA RefusedKeeps ==
    ASSUME IInv, Exchanging, Refused, Alone, UNCHANGED <<dhcpConfig, sent>>
    PROVE  IInv'
<1>1. /\ Typed(dhcpConfig') /\ thread \in Thread
      /\ "INIT" \in State \ Working /\ "REBINDING" \in State
  BY Exchanged
<1>2. CASE thread.branch = "REBOOTING" /\ GoTo("INIT", [thread EXCEPT !.last_ip = NoAddress])
  <2> DEFINE t == [thread EXCEPT !.last_ip = NoAddress]
  <2>1. t \in Thread /\ t.aqsTime = thread.aqsTime /\ GoTo("INIT", t)
    BY <1>1, <1>2 DEF Thread
  <2> HIDE DEF t
  <2> QED BY <1>1, <2>1, TurnKeeps
<1>3. CASE thread.branch = "RENEWING" /\ GoTo("REBINDING", [thread EXCEPT !.retries = 0])
  <2> DEFINE t == [thread EXCEPT !.retries = 0]
  <2>1. /\ t \in Thread /\ t.aqsTime = thread.aqsTime /\ t.retries = 0
        /\ GoTo("REBINDING", t)
    BY <1>1, <1>3, Numbers DEF Thread
  <2>2. dhcpConfig' # NULL
    BY <1>3, Exchanged
  <2> HIDE DEF t
  <2> QED BY <1>1, <2>1, <2>2, TurnKeeps
<1>4. CASE thread.branch = "REBINDING" /\ GoTo("INIT", thread)
  BY <1>1, <1>4, TurnKeeps
<1> QED BY <1>2, <1>3, <1>4 DEF Refused

LEMMA ReceiveKeeps == IInv /\ DhcpRecvMessage /\ Alone => IInv'
<1> SUFFICES ASSUME IInv, DhcpRecvMessage, Alone PROVE IInv'
  OBVIOUS
<1>1. Exchanging /\ UNCHANGED sent
  BY DEF DhcpRecvMessage, Exchanging
<1>2. /\ Typed(dhcpConfig) /\ thread \in Thread /\ "IDLE" \in State \ Working
      /\ "BOUND" \in State \ Working
  BY <1>1, Exchanged
<1>3. ASSUME NEW m \in sent, NEW reply \in Reply(m), Replied(reply) PROVE IInv'
  <2>1. m.state = thread.branch
    BY <1>1, <1>3, Exchanged
  <2>2. CASE thread.branch = "SELECTING" /\ Offered(reply)
    <3>1. reply \in Config("OFFER") \cup {NULL}
      BY <2>1, <2>2, <1>3 DEF Reply
    <3> QED BY <1>1, <2>2, <3>1, OfferedKeeps
  <2>3. CASE /\ thread.branch = "INFORMING"
             /\ dhcpConfig' = IF reply = NULL THEN dhcpConfig ELSE reply
             /\ GoTo("IDLE", thread)
    <3>1. reply \in Config("ACK") \cup {NULL}
      BY <2>1, <2>3, <1>3 DEF Reply
    <3>2. Typed(dhcpConfig')
      BY <1>2, <2>3, <3>1 DEF Typed
    <3> QED BY <1>1, <1>2, <2>3, <3>2, TurnKeeps
  <2>4. CASE /\ thread.branch = "RELEASING"
             /\ GoTo(IF reply = NULL THEN dhcpState ELSE "IDLE", thread)
             /\ UNCHANGED dhcpConfig
    <3>1. CASE reply = NULL
      BY <1>1, <1>2, <2>4, <3>1, GoOnKeeps
    <3>2. CASE reply # NULL
      BY <1>1, <1>2, <2>4, <3>2, TurnKeeps
    <3> QED BY <3>1, <3>2
  <2>5. CASE reply = NULL /\ GoTo(dhcpState, thread) /\ UNCHANGED dhcpConfig
    BY <1>1, <1>2, <2>5, GoOnKeeps
  <2>6. CASE reply = Nak /\ Refused /\ UNCHANGED dhcpConfig
    BY <1>1, <2>6, RefusedKeeps
  <2>7. CASE /\ thread.branch \in {"REBOOTING", "RENEWING", "REBINDING"}
             /\ reply \notin {NULL, Nak} /\ Acknowledged(reply)
    <3>1. reply \in Config("ACK")
      BY <2>1, <2>7, <1>3 DEF Reply
    <3>2. Typed(dhcpConfig') /\ dhcpConfig' # NULL
      BY <2>7, <3>1 DEF Acknowledged, Typed
    <3> DEFINE t == [thread EXCEPT !.leaseTime = thread.aqsTime]
    <3>3. t \in Thread /\ t.aqsTime = thread.aqsTime /\ GoTo("BOUND", t)
      BY <1>2, <2>7 DEF Acknowledged, Thread
    <3> HIDE DEF t
    <3> QED BY <1>1, <1>2, <3>2, <3>3, TurnKeeps
  <2> QED BY <1>3, <2>2, <2>3, <2>4, <2>5, <2>6, <2>7 DEF Replied
<1>4. CASE GoTo("IDLE", thread) /\ UNCHANGED dhcpConfig
  BY <1>1, <1>2, <1>4, TurnKeeps
<1>5. CASE /\ GoTo(dhcpState, IF thread.branch = "SELECTING" /\ dhcpConfig # NULL
                               THEN Enough ELSE thread)
           /\ UNCHANGED dhcpConfig
  <2> DEFINE t == IF thread.branch = "SELECTING" /\ dhcpConfig # NULL THEN Enough ELSE thread
  <2>1. t \in Thread /\ t.aqsTime = thread.aqsTime /\ GoTo(dhcpState, t)
    BY <1>2, <1>5, Numbers DEF Enough, Thread
  <2> HIDE DEF t
  <2> QED BY <1>1, <1>2, <1>5, <2>1, GoOnKeeps
<1>6. CASE WaitsOn
  <2>1. /\ thread' \in Thread /\ thread'.pc = thread.pc /\ thread'.branch = thread.branch
        /\ thread'.aqsTime = thread.aqsTime /\ thread'.retries = thread.retries
    <3>1. thread.until + Word \in Nat \cup {Never}
      BY <1>2, <1>6, Numbers DEF WaitsOn, Thread
    <3> QED BY <1>2, <1>6, <3>1 DEF WaitsOn, Thread
  <2>2. UNCHANGED <<dhcpState, dhcpConfig, sent>>
    BY <1>1, <1>6 DEF WaitsOn
  <2>3. TypeOK'
    BY <2>1, <2>2 DEF IInv, TypeOK, Alone, interface
  <2>4. ConfigKept' /\ BranchKept'
    BY <1>1, <2>1, <2>2 DEF IInv, ConfigKept, BranchKept, Exchanging
  <2>5. XidCurrent' /\ AskedBefore'
    BY <2>1, <2>2 DEF IInv, XidCurrent, AskedBefore, Exchanging, Alone
  <2>6. Heard' /\ Woken'
    BY <1>1, <2>1 DEF Heard, Woken, Exchanging
  <2> QED BY <2>3, <2>4, <2>5, <2>6 DEF IInv
<1> QED BY <1>3, <1>4, <1>5, <1>6 DEF DhcpRecvMessage

-----------------------------------------------------------------------------
(* The inactive states.                                                    *)

Still == UNCHANGED <<dhcpApiStart, dhcpApiTimeout, interface, now>>
Callers ==
    [App -> [pc : {"out", "created", "posted", "missed", "waiting", "late", "woken"},
             call : {"none", "NutDhcpIfConfig", "static", "other"}]]

\* Nobody that has posted, or waits in time, is left by a broadcast.
LEMMA BroadcastTells ==
    ASSUME TypeOK, Broadcast
    PROVE  app' \in Callers /\ \A a \in App : app'[a].pc \notin {"posted", "waiting"}
<1>1. app \in Callers
  BY DEF TypeOK, Callers
<1>2. ASSUME NEW a \in App
      PROVE  /\ app'[a] \in [pc : {"out", "created", "posted", "missed", "waiting", "late", "woken"},
                             call : {"none", "NutDhcpIfConfig", "static", "other"}]
             /\ app'[a].pc \notin {"posted", "waiting"}
  <2>1. CASE app[a].pc \in {"waiting", "late"}
    <3>1. app'[a] = [app[a] EXCEPT !.pc = "woken"]
      BY <2>1 DEF Broadcast
    <3> QED BY <1>1, <3>1 DEF Callers
  <2>2. CASE app[a].pc = "posted"
    <3>1. app'[a] = [app[a] EXCEPT !.pc = "missed"]
      BY <2>2 DEF Broadcast
    <3> QED BY <1>1, <3>1 DEF Callers
  <2>3. CASE app[a].pc \notin {"waiting", "late", "posted"}
    <3>1. app'[a] = app[a]
      BY <2>3 DEF Broadcast
    <3> QED BY <1>1, <2>3, <3>1 DEF Callers
  <2> QED BY <2>1, <2>2, <2>3
<1>3. app' = [a \in App |-> app'[a]]
  BY DEF Broadcast
<1> QED BY <1>2, <1>3 DEF Callers

\* The client has told its callers, in state s.
LEMMA ToldKeeps ==
    ASSUME IInv, NEW s \in {"BOUND", "IDLE"}, NEW pc \in {"bound", "idle"},
           At(s), NextXid, thread' = Told(pc), Broadcast, Still,
           UNCHANGED <<dhcpState, dhcpWake>>, Typed(dhcpConfig'),
           s = "BOUND" => dhcpConfig' # NULL,
           s = "BOUND" <=> pc = "bound"
    PROVE  IInv'
<1>1. /\ TypeOK /\ thread \in Thread /\ dhcpState = s /\ sent' \subseteq sent
  BY DEF IInv, TypeOK, At, NextXid
<1>2. /\ thread' \in Thread /\ thread'.pc = pc /\ thread'.retries = 0
      /\ thread'.aqsTime = thread.aqsTime
  <2>1. 0 \in 0 .. MaxRetries + 1 /\ MinWait \in Nat
    BY Numbers
  <2>2. thread' = [thread EXCEPT !.pc = pc, !.retries = 0, !.tmo = MinWait, !.held = FALSE]
    BY DEF Told
  <2> QED BY <1>1, <2>1, <2>2 DEF Thread
<1>3. app' \in Callers /\ \A a \in App : app'[a].pc \notin {"posted", "waiting"}
  BY <1>1, BroadcastTells
<1>4. TypeOK'
  BY <1>1, <1>2, <1>3 DEF TypeOK, Still, interface, Typed, Callers
<1>5. ConfigKept' /\ BranchKept' /\ XidCurrent'
  BY <1>1, <1>2 DEF ConfigKept, BranchKept, XidCurrent, Exchanging
<1>6. AskedBefore'
  BY <1>1, <1>2 DEF IInv, AskedBefore, Still
<1>7. Heard' /\ Woken'
  BY <1>1, <1>2, <1>3 DEF Heard, Woken
<1> QED BY <1>4, <1>5, <1>6, <1>7 DEF IInv

LEMMA InactiveKeeps == IInv /\ (Bound \/ Idle) /\ Still => IInv'
<1> SUFFICES ASSUME IInv, Bound \/ Idle, Still PROVE IInv'
  OBVIOUS
<1>1. CASE Bound
  <2>1. At("BOUND") /\ dhcpConfig # NULL /\ Typed(dhcpConfig')
    BY <1>1 DEF Bound, At, IInv, ConfigKept, TypeOK, Typed
  <2> QED BY <1>1, <2>1, ToldKeeps DEF Bound
<1>2. CASE Idle
  <2>1. Typed(dhcpConfig')
    BY <1>2 DEF Idle, Typed
  <2> QED BY <1>2, <2>1, ToldKeeps DEF Idle
<1> QED BY <1>1, <1>2

\* A nap in the state that the broadcast left, unless the client was woken already.
LEMMA NapKeeps ==
    ASSUME IInv, NEW ms \in Nat, NEW pc, Nap(pc, ms),
           \/ thread.pc = "idle" /\ pc = "sleep"
           \/ thread.pc = "bound" /\ pc = "nap",
           UNCHANGED <<dhcpConfig, sent, app>>, Still
    PROVE  IInv'
<1>1. /\ TypeOK /\ thread \in Thread /\ thread.retries = 0
  BY DEF IInv, TypeOK, BranchKept
<1>2. End(ms) \in Nat \cup {Never}
  BY <1>1, MillisNat DEF End
<1>3. /\ thread' \in Thread /\ thread'.pc = IF dhcpWake THEN "ready" ELSE pc
      /\ thread'.retries = 0 /\ thread'.aqsTime = thread.aqsTime
  BY <1>1, <1>2 DEF Nap, Thread
<1>4. UNCHANGED dhcpState /\ dhcpWake' = FALSE
  BY DEF Nap
<1>5. TypeOK'
  BY <1>1, <1>3, <1>4 DEF TypeOK, Still, interface
<1>6. ConfigKept' /\ BranchKept' /\ XidCurrent'
  BY <1>3, <1>4 DEF IInv, ConfigKept, BranchKept, XidCurrent, Exchanging
<1>7. AskedBefore'
  BY <1>3 DEF IInv, AskedBefore, Still
<1>8. Heard' /\ Woken'
  BY <1>3, <1>4 DEF IInv, Heard, Woken
<1> QED BY <1>5, <1>6, <1>7, <1>8 DEF IInv

LEMMA AfterBroadcastKeeps == IInv /\ AfterBroadcast /\ UNCHANGED app /\ Still => IInv'
<1> SUFFICES ASSUME IInv, AfterBroadcast, UNCHANGED app, Still PROVE IInv'
  OBVIOUS
<1>0. UNCHANGED <<dhcpConfig, sent>> /\ Infinite \in Nat
  BY DEF AfterBroadcast, Infinite
<1>1. CASE thread.pc = "idle" /\ Nap("sleep", Infinite)
  BY <1>0, <1>1, NapKeeps
<1>2. CASE thread.pc = "bound"
  <2>1. TypeOK /\ thread \in Thread /\ thread.retries = 0 /\ dhcpConfig # NULL
    BY <1>2 DEF IInv, TypeOK, BranchKept, ConfigKept
  <2>2. RenewalTime(dhcpConfig) \in Nat /\ SinceLease \in Int
    BY <2>1, Times
  <2>3. CASE RenewalTime(dhcpConfig) <= SinceLease
    <3>1. GoTo("RENEWING", thread) /\ Alone
      BY <1>2, <2>3 DEF AfterBroadcast, Alone, Still
    <3>2. "RENEWING" \in State /\ Typed(dhcpConfig')
      BY <1>0, <2>1 DEF State, TypeOK, Typed
    <3>3. /\ thread.aqsTime <= now
          /\ \A m \in sent' : m.at \in 0 .. now /\ thread.aqsTime <= m.at
      BY <1>0 DEF IInv, TypeOK, AskedBefore
    <3> QED BY <1>0, <2>1, <3>1, <3>2, <3>3, GoToKeeps
  <2>4. CASE ~(RenewalTime(dhcpConfig) <= SinceLease)
    <3> DEFINE s == AtMost(RenewalTime(dhcpConfig) - SinceLease, MaxNap)
    <3>1. s \in Nat
      BY <2>2, <2>4, Numbers DEF AtMost
    <3>2. Nap("nap", s * Second)
      BY <1>2, <2>4 DEF AfterBroadcast
    <3> HIDE DEF s
    <3>3. s * Second \in Nat
      BY <3>1, Numbers
    <3> QED BY <1>0, <1>2, <3>2, <3>3, NapKeeps
  <2> QED BY <2>3, <2>4
<1> QED BY <1>1, <1>2 DEF AfterBroadcast

LEMMA WakeKeeps == IInv /\ Wake /\ UNCHANGED app /\ Still => IInv'
<1> SUFFICES ASSUME IInv, Wake, UNCHANGED app, Still PROVE IInv'
  OBVIOUS
<1>1. /\ TypeOK /\ thread \in Thread /\ thread.pc \in {"new", "ready", "nap"}
      /\ thread.retries = 0 /\ now \in 0 .. MaxTime
      /\ cdn_ip_addr \in Address \cup {NoAddress}
      /\ UNCHANGED <<dhcpState, dhcpConfig, dhcpWake, sent>>
  BY DEF IInv, TypeOK, Wake, BranchKept
<1>2. /\ thread' \in Thread /\ thread'.pc = "top" /\ thread'.retries = 0
      /\ thread'.aqsTime = IF thread.pc = "new" THEN now ELSE thread.aqsTime
  <2>1. CASE thread.pc = "new" /\ thread' = [thread EXCEPT !.pc = "top", !.last_ip = cdn_ip_addr,
                                                          !.aqsTime = now]
    BY <1>1, <2>1 DEF Thread
  <2>2. CASE thread.pc # "new" /\ thread' = [thread EXCEPT !.pc = "top", !.until = Never]
    BY <1>1, <2>2 DEF Thread
  <2> QED BY <2>1, <2>2 DEF Wake
<1>3. TypeOK'
  BY <1>1, <1>2 DEF TypeOK, Still, interface
<1>4. ConfigKept' /\ BranchKept' /\ XidCurrent'
  BY <1>1, <1>2 DEF IInv, ConfigKept, BranchKept, XidCurrent, Exchanging
<1>5. AskedBefore'
  BY <1>1, <1>2 DEF IInv, AskedBefore, Still
<1>6. Heard' /\ Woken'
  BY <1>2 DEF Heard, Woken
<1> QED BY <1>3, <1>4, <1>5, <1>6 DEF IInv

LEMMA NutDhcpClientKeeps == IInv /\ NutDhcpClient => IInv'
<1> SUFFICES ASSUME IInv, NutDhcpClient PROVE IInv'
  OBVIOUS
<1>1. Still
  BY DEF NutDhcpClient, Still
<1>2. CASE Bound \/ Idle
  BY <1>1, <1>2, InactiveKeeps
<1>3. CASE GiveUp /\ UNCHANGED app
  BY <1>1, <1>3, GiveUpKeeps DEF Alone, Still, GiveUp
<1>4. CASE Handle /\ UNCHANGED app
  BY <1>1, <1>4, HandleKeeps DEF Alone, Still, Handle
<1>5. CASE DhcpSendMessage /\ UNCHANGED app
  BY <1>1, <1>5, SendKeeps DEF Alone, Still, DhcpSendMessage
<1>6. CASE DhcpRecvMessage /\ UNCHANGED app
  BY <1>1, <1>6, ReceiveKeeps DEF Alone, Still, DhcpRecvMessage
<1>7. CASE AfterBroadcast /\ UNCHANGED app
  BY <1>1, <1>7, AfterBroadcastKeeps
<1>8. CASE Wake /\ UNCHANGED app
  BY <1>1, <1>8, WakeKeeps
<1> QED BY <1>2, <1>3, <1>4, <1>5, <1>6, <1>7, <1>8 DEF NutDhcpClient

-----------------------------------------------------------------------------
(* The application threads.                                                *)

\* A post wakes the client, or is remembered.
LEMMA PostWakes ==
    ASSUME thread \in Thread, Post(thread)
    PROVE  /\ thread' \in Thread /\ thread'.branch = thread.branch
           /\ thread'.retries = thread.retries /\ thread'.aqsTime = thread.aqsTime
           /\ \/ thread'.pc = thread.pc /\ thread.pc \notin {"nap", "sleep"} /\ dhcpWake' = TRUE
              \/ /\ thread.pc \in {"nap", "sleep"} /\ thread'.pc = "ready"
                 /\ UNCHANGED dhcpWake
BY DEF Post, Thread

\* The client has been posted to, by threads that may have changed dhcpState before.
LEMMA PostKeeps ==
    ASSUME IInv, thread.pc # "top", Post(thread), dhcpState' \in State,
           thread.pc = "none" => UNCHANGED dhcpState,
           dhcpState' \notin {"BOUND", "RENEWING", "REBINDING"} \/ UNCHANGED dhcpState,
           Exchanging => dhcpState' \in {dhcpState, "INIT"},
           dhcpApiStart' \in Nat, dhcpApiTimeout' \in Nat, app' \in Callers,
           cdn_ip_addr' \in Address \cup {NoAddress}, UNCHANGED <<dhcpConfig, sent, now>>
    PROVE  IInv'
<1>1. TypeOK /\ thread \in Thread
  BY DEF IInv, TypeOK
<1>2. /\ thread' \in Thread /\ thread'.branch = thread.branch
      /\ thread'.retries = thread.retries /\ thread'.aqsTime = thread.aqsTime
      /\ \/ thread'.pc = thread.pc /\ thread.pc \notin {"nap", "sleep"} /\ dhcpWake' = TRUE
         \/ /\ thread.pc \in {"nap", "sleep"} /\ thread'.pc = "ready"
            /\ UNCHANGED dhcpWake
  BY <1>1, PostWakes
<1>3. TypeOK'
  BY <1>1, <1>2 DEF TypeOK, Callers
<1>4. ConfigKept' /\ BranchKept' /\ XidCurrent'
  BY <1>2 DEF IInv, ConfigKept, BranchKept, XidCurrent, Exchanging
<1>5. AskedBefore'
  BY <1>2 DEF IInv, AskedBefore
<1>6. Heard' /\ Woken'
  BY <1>2 DEF IInv, Heard, Woken
<1> QED BY <1>3, <1>4, <1>5, <1>6 DEF IInv

\* A command: DhcpKick up to its post.
LEMMA KickKeeps ==
    ASSUME IInv, thread.pc # "top", NEW a \in App,
           NEW call \in {"NutDhcpIfConfig", "static", "other"},
           NEW state \in {"INIT", "RELEASING", "INFORMING"}, NEW ms \in Nat,
           DhcpKick(a, call, state, ms), state # "INIT" => dhcpState \in Inactive,
           cdn_ip_addr' \in Address \cup {NoAddress}, UNCHANGED <<dhcpConfig, sent, now>>
    PROVE  IInv'
<1>1. TypeOK /\ thread \in Thread /\ app \in Callers /\ Millis \in Nat
  BY MillisNat DEF IInv, TypeOK, Callers
<1>2. Exchanging => state = "INIT"
  BY DEF IInv, BranchKept, Working, State, Inactive
<1>3. /\ dhcpState' = state /\ state \in State /\ dhcpApiStart' \in Nat /\ dhcpApiTimeout' \in Nat
  BY <1>1 DEF DhcpKick, Command, State, Infinite
<1>4. /\ app' = [app EXCEPT ![a] =
                   [pc |-> IF thread.pc = "none" THEN "created" ELSE "posted", call |-> call]]
      /\ app' \in Callers
  BY <1>1 DEF DhcpKick, Command, Callers
<1>5. CASE thread.pc = "none"
  <2>1. thread' = [thread EXCEPT !.pc = "new"] /\ UNCHANGED dhcpWake
    BY <1>5 DEF DhcpKick
  <2>2. /\ thread' \in Thread /\ thread'.pc = "new" /\ thread'.retries = thread.retries
        /\ thread'.aqsTime = thread.aqsTime
    BY <1>1, <2>1 DEF Thread
  <2>3. TypeOK'
    BY <1>1, <1>3, <1>4, <2>1, <2>2 DEF TypeOK, Callers
  <2>4. ConfigKept' /\ BranchKept' /\ XidCurrent'
    BY <1>3, <1>5, <2>2 DEF IInv, ConfigKept, BranchKept, XidCurrent, Exchanging
  <2>5. AskedBefore'
    BY <1>5, <2>2 DEF IInv, AskedBefore
  <2>6. Heard' /\ Woken'
    BY <2>2 DEF Heard, Woken
  <2> QED BY <2>3, <2>4, <2>5, <2>6 DEF IInv
<1>6. CASE thread.pc # "none"
  <2>1. Post(thread)
    BY <1>6 DEF DhcpKick
  <2> QED BY <1>2, <1>3, <1>4, <1>6, <2>1, PostKeeps
<1> QED BY <1>5, <1>6

\* A step in which no thread begins to wait for the client.
LEMMA QuietKeeps ==
    ASSUME IInv, UNCHANGED <<command, dhcpWake, thread, dhcpConfig, sent, now>>, app' \in Callers,
           cdn_ip_addr' \in Address \cup {NoAddress},
           \A a \in App : app'[a].pc \in {"posted", "waiting"} =>
                             app[a].pc \in {"posted", "waiting"}
    PROVE  IInv'
<1>1. TypeOK'
  BY DEF IInv, TypeOK, Callers, command
<1>2. ConfigKept' /\ BranchKept' /\ XidCurrent' /\ AskedBefore' /\ Heard'
  BY DEF IInv, ConfigKept, BranchKept, XidCurrent, AskedBefore, Heard, Exchanging, command
<1>3. Woken'
  BY DEF IInv, Woken
<1> QED BY <1>1, <1>2, <1>3 DEF IInv

\* The addresses that the interface is set up with.
LEMMA NetIfConfigType ==
    ASSUME NEW ip \in Address \cup {NoAddress}, NetIfConfig(ip)
    PROVE  cdn_ip_addr' \in Address \cup {NoAddress}
BY DEF NetIfConfig

LEMMA CallKeeps ==
    ASSUME IInv, thread.pc # "top", NEW a \in App, UNCHANGED <<dhcpConfig, sent, now>>,
           \/ NutDhcpIfConfig(a) \/ NutDhcpIfConfigStatic(a)
           \/ NutDhcpRelease(a) \/ NutDhcpInform(a)
    PROVE  IInv'
<1>1. /\ cdn_ip_addr \in Address \cup {NoAddress} /\ app \in Callers
  BY DEF IInv, TypeOK, Callers
<1>2. CASE NutDhcpIfConfig(a)
  <2>1. PICK ms \in Timeout : DhcpKick(a, "NutDhcpIfConfig", "INIT", ms)
    BY <1>2 DEF NutDhcpIfConfig
  <2>2. ms \in Nat /\ UNCHANGED cdn_ip_addr
    BY <1>2, NumberAssumption DEF NutDhcpIfConfig
  <2> QED BY <1>1, <2>1, <2>2, KickKeeps
<1>3. CASE NutDhcpIfConfigStatic(a)
  <2>1. CASE dhcpState = "BOUND"
    <3>1. DhcpKick(a, "static", "RELEASING", 3 * MinWait) /\ UNCHANGED cdn_ip_addr
      BY <1>3, <2>1 DEF NutDhcpIfConfigStatic
    <3>2. 3 * MinWait \in Nat /\ dhcpState \in Inactive
      BY <2>1, Numbers DEF Inactive
    <3> QED BY <1>1, <3>1, <3>2, KickKeeps
  <2>2. CASE dhcpState # "BOUND"
    <3>1. /\ \E ip \in Address : NetIfConfig(ip)
          /\ UNCHANGED <<command, dhcpWake, thread, app>>
      BY <1>3, <2>2 DEF NutDhcpIfConfigStatic
    <3> QED BY <1>1, <3>1, NetIfConfigType, QuietKeeps
  <2> QED BY <2>1, <2>2
<1>4. CASE NutDhcpRelease(a)
  <2>1. PICK ms \in Timeout : DhcpKick(a, "other", "RELEASING", ms)
    BY <1>4 DEF NutDhcpRelease
  <2>2. ms \in Nat /\ UNCHANGED cdn_ip_addr /\ dhcpState \in Inactive
    BY <1>4, NumberAssumption DEF NutDhcpRelease, interface, Inactive
  <2> QED BY <1>1, <2>1, <2>2, KickKeeps
<1>5. CASE NutDhcpInform(a)
  <2>1. PICK ms \in Timeout : DhcpKick(a, "other", "INFORMING", ms)
    BY <1>5 DEF NutDhcpInform
  <2>2. ms \in Nat /\ UNCHANGED cdn_ip_addr /\ dhcpState \in Inactive
    BY <1>5, NumberAssumption DEF NutDhcpInform, interface, Inactive
  <2> QED BY <1>1, <2>1, <2>2, KickKeeps
<1> QED BY <1>2, <1>3, <1>4, <1>5

LEMMA ReturnKeeps ==
    ASSUME IInv, NEW a \in App, Return(a), UNCHANGED <<dhcpConfig, sent, now>>
    PROVE  IInv'
<1>1. TypeOK /\ cdn_ip_addr \in Address \cup {NoAddress} /\ app \in Callers
  BY DEF IInv, TypeOK, Callers
<1>2. /\ app' \in Callers
      /\ \A b \in App : app'[b].pc \in {"posted", "waiting"} =>
                           app[b].pc \in {"posted", "waiting"}
  BY <1>1 DEF Return, Out, Callers
<1>3. cdn_ip_addr' \in Address \cup {NoAddress}
  <2>1. CASE \E ip \in Address : NetIfConfig(ip)
    BY <2>1, NetIfConfigType
  <2>2. CASE dhcpState = "BOUND" /\ NetIfConfig(dhcpConfig.dyn_yiaddr)
    <3>1. dhcpConfig # NULL
      BY <2>2 DEF IInv, ConfigKept
    <3>2. dhcpConfig.dyn_yiaddr \in Address
      BY <1>1, <3>1 DEF TypeOK, Config
    <3> QED BY <2>2, <3>2, NetIfConfigType
  <2>3. CASE NetIfConfig(cdn_ip_addr)
    BY <1>1, <2>3, NetIfConfigType
  <2>4. CASE UNCHANGED interface
    BY <1>1, <2>4 DEF interface
  <2> QED BY <2>1, <2>2, <2>3, <2>4 DEF Return
<1>4. UNCHANGED <<command, dhcpWake, thread>>
  BY DEF Return
<1> QED BY <1>2, <1>3, <1>4, QuietKeeps

LEMMA ApplicationKeeps == IInv /\ Application => IInv'
<1> SUFFICES ASSUME IInv, Application PROVE IInv'
  OBVIOUS
<1>1. /\ thread.pc # "top" /\ UNCHANGED <<dhcpConfig, sent, now>>
      /\ TypeOK /\ cdn_ip_addr \in Address \cup {NoAddress} /\ app \in Callers
  BY DEF Application, IInv, TypeOK, Callers
<1>2. ASSUME NEW a \in App,
             \/ NutDhcpIfConfig(a) \/ NutDhcpIfConfigStatic(a)
             \/ NutDhcpRelease(a) \/ NutDhcpInform(a)
      PROVE  IInv'
  BY <1>1, <1>2, CallKeeps
<1>3. ASSUME NEW a \in App, KickDone(a) PROVE IInv'
  <2>1. Post(thread) /\ UNCHANGED <<command, interface>> /\ app' \in Callers
    BY <1>1, <1>3 DEF KickDone, Callers
  <2>2. /\ dhcpState' = dhcpState /\ dhcpState \in State /\ dhcpApiStart' \in Nat
        /\ dhcpApiTimeout' \in Nat /\ cdn_ip_addr' \in Address \cup {NoAddress}
    BY <1>1, <2>1 DEF TypeOK, command, interface
  <2> QED BY <1>1, <2>1, <2>2, PostKeeps
<1>4. ASSUME NEW a \in App, WaitDone(a) PROVE IInv'
  <2>1. /\ app' = [app EXCEPT ![a].pc = IF @ = "posted" THEN "waiting" ELSE "late"]
        /\ app[a].pc \in {"posted", "missed"}
        /\ UNCHANGED <<command, dhcpWake, thread, interface>>
    BY <1>4 DEF WaitDone
  <2>2. /\ app' \in Callers
        /\ \A b \in App : app'[b].pc \in {"posted", "waiting"} =>
                             app[b].pc \in {"posted", "waiting"}
    BY <1>1, <2>1 DEF Callers
  <2> QED BY <1>1, <2>1, <2>2, QuietKeeps DEF interface
<1>5. ASSUME NEW a \in App, Return(a) PROVE IInv'
  BY <1>1, <1>5, ReturnKeeps
<1>6. CASE ConfigureExternally
  BY <1>1, <1>6, QuietKeeps DEF ConfigureExternally
<1> QED BY <1>2, <1>3, <1>4, <1>5, <1>6 DEF Application

-----------------------------------------------------------------------------
(* The specification.                                                      *)

LEMMA InitInvariant == Init => IInv
<1> SUFFICES ASSUME Init PROVE IInv
  OBVIOUS
<1>1. 0 \in 0 .. MaxTime /\ 0 \in 0 .. MaxRetries + 1 /\ MinWait \in Nat
  BY Numbers
<1>2. thread \in Thread /\ thread.pc = "none" /\ thread.retries = 0 /\ thread.aqsTime = 0
  BY <1>1 DEF Init, Thread, State
<1>3. app \in Callers
  BY DEF Init, Out, Callers
<1>4. TypeOK
  BY <1>1, <1>2, <1>3 DEF Init, TypeOK, State, Callers
<1>5. ConfigKept /\ BranchKept /\ XidCurrent /\ AskedBefore /\ Heard /\ Woken
  BY <1>2 DEF Init, ConfigKept, BranchKept, XidCurrent, AskedBefore, Heard, Woken,
              Exchanging, Working
<1> QED BY <1>4, <1>5 DEF IInv

LEMMA TickKeeps == IInv /\ Tick => IInv'
<1> SUFFICES ASSUME IInv, Tick PROVE IInv'
  OBVIOUS
<1>1. /\ now' = now + 1 /\ now \in 0 .. MaxTime /\ now < MaxTime /\ MaxTime \in Nat
      /\ UNCHANGED <<dhcpState, dhcpConfig, dhcpWake, thread, sent, dhcpApiStart,
                     dhcpApiTimeout, app, interface>>
  BY Numbers DEF IInv, TypeOK, Tick, client
<1>2. now' \in 0 .. MaxTime
  BY <1>1
<1>3. \A m \in sent' : m.at \in 0 .. now'
  BY <1>1 DEF IInv, TypeOK
<1>4. TypeOK'
  BY <1>1, <1>2, <1>3 DEF IInv, TypeOK, interface
<1>5. thread'.aqsTime <= now'
  BY <1>1 DEF IInv, TypeOK, Thread, AskedBefore
<1>6. /\ ConfigKept' /\ BranchKept' /\ XidCurrent' /\ AskedBefore' /\ Heard' /\ Woken'
  BY <1>1, <1>5 DEF IInv, ConfigKept, BranchKept, XidCurrent, AskedBefore, Heard, Woken,
                    Exchanging
<1> QED BY <1>4, <1>6 DEF IInv

LEMMA NextInvariant == IInv /\ [Next]_vars => IInv'
<1>1. IInv /\ UNCHANGED vars => IInv'
  BY DEF vars, client, interface, IInv, TypeOK, ConfigKept, BranchKept, XidCurrent,
         AskedBefore, Heard, Woken, Exchanging
<1> QED BY <1>1, NutDhcpClientKeeps, ApplicationKeeps, TickKeeps DEF Next

\* The inductive invariant of the client and its callers, in every reachable state.
THEOREM DhcpInvariant == Spec => []IInv
BY InitInvariant, NextInvariant, PTL DEF Spec

\* The variables keep their types, and no retry is counted beyond MaxRetries + 1.
THEOREM DhcpTypes == Spec => []TypeOK
<1>1. IInv => TypeOK
  BY DEF IInv
<1> QED BY <1>1, DhcpInvariant, PTL

\* NutDhcpClient finds a configuration wherever it reads one without a test, for any
\* number of threads that give it commands in between.
THEOREM DhcpConfigWhereRead == Spec => []ConfigWhereRead
<1>1. IInv => ConfigWhereRead
  BY DEF IInv, ConfigKept, ConfigWhereRead, Exchanging
<1> QED BY <1>1, DhcpInvariant, PTL

\* No command of DhcpKick that is still in dhcpState is slept over by NutDhcpClient; one
\* that RENEWING has replaced after the broadcast of BOUND is not spoken of.
THEOREM DhcpCommandsAreHeard == Spec => []CommandsAreHeard
<1>1. IInv => CommandsAreHeard
  BY DEF IInv, Heard, CommandsAreHeard
<1> QED BY <1>1, DhcpInvariant, PTL

\* No thread that waits in DhcpKick in time is left there when the client naps.
THEOREM DhcpWaitersAreTold == Spec => []WaitersAreTold
<1>1. IInv => WaitersAreTold
  BY DEF IInv, Woken, WaitersAreTold
<1> QED BY <1>1, DhcpInvariant, PTL

\* Late answers to messages of an earlier state do not count.
THEOREM DhcpAnswersFit == Spec => []AnswersFitTheState
<1>1. IInv => AnswersFitTheState
  BY DEF IInv, XidCurrent, AnswersFitTheState, Exchanging
<1> QED BY <1>1, DhcpInvariant, PTL

\* The client is bound by an acknowledgement only, while it waits for an answer.
LEMMA BoundByAnswer ==
    ASSUME IInv, thread.pc = "receiving", [Next]_vars, dhcpState' = "BOUND"
    PROVE  thread'.leaseTime = thread.aqsTime /\ UNCHANGED sent
<1>1. Exchanging /\ dhcpState # "BOUND" /\ TypeOK
  BY Exchanged DEF Exchanging
<1>2. DhcpRecvMessage
  <2>1. CASE NutDhcpClient
    BY <2>1 DEF NutDhcpClient, Bound, Idle, GiveUp, Handle, DhcpSendMessage,
                AfterBroadcast, Wake, Restart, Selecting, Rebooting, Renewing, Rebinding,
                Informing, Releasing, Active, At
  <2>2. ASSUME Application PROVE FALSE
    BY <1>1, <2>2 DEF Application, NutDhcpIfConfig, NutDhcpIfConfigStatic, NutDhcpRelease,
                      NutDhcpInform, KickDone, WaitDone, Return, ConfigureExternally,
                      DhcpKick, Command, command
  <2>3. ASSUME Tick \/ UNCHANGED vars PROVE FALSE
    BY <1>1, <2>3 DEF Tick, vars, client
  <2> QED BY <2>1, <2>2, <2>3 DEF Next
<1>3. ASSUME NEW t, GoTo(dhcpState, t) \/ GoTo("IDLE", t) \/ GoTo("INIT", t) \/ GoTo("REBINDING", t)
      PROVE  FALSE
  BY <1>1, <1>3 DEF GoTo
<1>4. PICK reply : Replied(reply)
  <2>1. ~WaitsOn
    BY <1>1 DEF WaitsOn
  <2> QED BY <1>2, <1>3, <2>1 DEF DhcpRecvMessage
<1>5. Acknowledged(reply)
  <2>1. ~Offered(reply)
    BY <1>1, <1>3 DEF Offered
  <2>2. ~Refused
    BY <1>3 DEF Refused
  <2> QED BY <1>3, <1>4, <2>1, <2>2 DEF Replied
<1>6. thread \in Thread
  BY <1>1 DEF TypeOK
<1> QED BY <1>2, <1>5, <1>6 DEF Acknowledged, GoTo, DhcpRecvMessage, Thread

\* A lease that was acknowledged counts from before every message that the server may
\* have answered.
THEOREM DhcpLeaseCounts == Spec => LeaseCountsFromRequest
<1>1. ASSUME IInv, [Next]_vars, thread.pc = "receiving", dhcpState' = "BOUND"
      PROVE  \A m \in sent : thread'.leaseTime <= m.at
  BY <1>1, BoundByAnswer DEF IInv, AskedBefore
<1>2. IInv /\ [Next]_vars =>
        [thread.pc = "receiving" /\ dhcpState' = "BOUND" =>
            \A m \in sent : thread'.leaseTime <= m.at]_vars
  BY <1>1
<1> QED BY <1>2, DhcpInvariant, PTL DEF Spec, LeaseCountsFromRequest

=============================================================================
