------------------------------ MODULE NutDhcp -------------------------------
(***************************************************************************)
(* The DHCP client: the thread NutDhcpClient, and the application threads  *)
(* that give it commands by setting dhcpState and wait for it.  The        *)
(* servers are the environment: any message that left may be answered,     *)
(* late, more than once, or never.                                         *)
(*                                                                         *)
(* Threads give up the CPU only while they send, receive, wait or post, so *)
(* while thread.pc = "top" the client runs alone.  In between, dhcpState   *)
(* may become another one than that of the branch the client is in.        *)
(***************************************************************************)
EXTENDS Integers

CONSTANTS
    App,                \* application threads
    Address, NoAddress, \* IP addresses, and 0
    Lease,              \* lease times in seconds
    RenewalOption, RebindOption,        \* what the servers' options say, 0 for none
    Timeout,            \* API timeouts in milliseconds, 0 for none
    MaxRetries, MaxReleaseRetries, MinWait, MaxWait, MaxNap,    \* the macros
    MinLeft,            \* 250 in DhcpRecvMessage
    Second,             \* milliseconds in a second
    Word,               \* 2^32
    MaxTime,            \* bounds the clock
    NULL

ASSUME TimeAssumption == {MinWait, MaxWait, MaxNap, Second, Word} \subseteq Nat \ {0}
ASSUME NumberAssumption ==
    /\ {RenewalOption, RebindOption, MaxRetries, MaxReleaseRetries, MinLeft, MaxTime}
          \subseteq Nat
    /\ Lease \subseteq Nat /\ Timeout \subseteq Nat

VARIABLES
    dhcpState, dhcpConfig,
    dhcpWake,                       \* the root is SIGNALED
    dhcpApiStart, dhcpApiTimeout,
    thread,                         \* dhcpThread and its local variables
    sent,                           \* the messages out with the current xid
    app,                            \* where the application threads are
    if_local_ip, cdn_ip_addr,       \* of the interface, and of confnet
    now                             \* NutGetSeconds

command == <<dhcpState, dhcpApiStart, dhcpApiTimeout>>
interface == <<if_local_ip, cdn_ip_addr>>
client == <<dhcpState, dhcpConfig, dhcpWake, thread, sent>>
vars == <<client, dhcpApiStart, dhcpApiTimeout, app, interface, now>>

Infinite == 0                       \* NUT_WAIT_INFINITE
Never == -1                         \* the end of an infinite wait

\* REQUESTING is not here: the one statement that would set it is a comment.
State == {"IDLE", "INIT", "SELECTING", "REBOOTING", "BOUND", "RENEWING",
          "REBINDING", "INFORMING", "RELEASING"}
Inactive == {"BOUND", "IDLE"}

\* What ParseReply returns.  The times that no option gives are calculated.
Config(type) == [dyn_msgtyp : {type}, dyn_yiaddr : Address, dyn_leaseTime : Lease]
Nak == [dyn_msgtyp |-> "NAK", dyn_yiaddr |-> NoAddress, dyn_leaseTime |-> 0]
RenewalTime(c) ==
    IF RenewalOption # 0 THEN RenewalOption ELSE c.dyn_leaseTime \div 2
RebindTime(c) ==
    LET t == RenewalTime(c)
    IN  IF RebindOption # 0 THEN RebindOption ELSE t + t \div 2 + t \div 4

AtMost(a, b) == IF a < b THEN a ELSE b
Millis == now * Second
End(ms) == IF ms = Infinite THEN Never ELSE Millis + ms
Over(until) == until # Never /\ Millis >= until

-----------------------------------------------------------------------------
(* The top of the client's loop.                                           *)

SinceKick == Millis - dhcpApiStart

\* The timeout of the last call.
TimeIsUp ==
    dhcpState # "IDLE" /\ dhcpApiTimeout # Infinite /\ dhcpApiTimeout <= SinceKick

\* Retries are counted as far as the code tells the counts apart.
Counted(n) == IF n > MaxRetries THEN n ELSE n + 1

Doubled ==
    [thread EXCEPT !.tmo =
        IF thread.retries = 0 THEN MinWait ELSE AtMost((2 * @) % Word, MaxWait)]

Timed(aqsTime) ==
    LET left == IF dhcpState = "IDLE" \/ dhcpApiTimeout = Infinite
                  THEN Doubled.tmo ELSE dhcpApiTimeout - SinceKick
    IN  [Doubled EXCEPT !.tmo = AtMost(@, left), !.aqsTime = aqsTime]

Asking == dhcpState \in {"SELECTING", "RENEWING", "REBINDING"}

\* Seeded fault: every transmission restarts the acquisition time.
PacedAnew == Timed(IF Asking THEN now ELSE thread.aqsTime)

\* The wait for an answer, and since when the client is asking.
Paced == Timed(IF Asking /\ thread.retries = 0 THEN now ELSE thread.aqsTime)

\* Seeded fault: the xid of the last state is used on.
SameXid == sent' = sent

\* ++xid for a first transmission: no answer to an earlier message counts any more.
NextXid == sent' = IF thread.retries = 0 THEN {} ELSE sent

\* The handler of state s is reached, with the socket and the buffer it needs (held).
Ready == [Paced EXCEPT !.held = TRUE, !.retries = Counted(@)]
At(s) == thread.pc = "top" /\ dhcpState = s /\ ~TimeIsUp
Elsewhere == dhcpConfig = NULL /\ if_local_ip # NoAddress
Active(s) == At(s) /\ ~Elsewhere

\* Back to the top.  What no statement reads again is cleared, as is the wait when the
\* first transmission sets it anew.
GoTo(s, t) ==
    /\ dhcpState' = s
    /\ thread' = [t EXCEPT !.pc = "top", !.branch = "IDLE", !.until = Never,
                           !.tmo = IF t.retries = 0 THEN MinWait ELSE @]
Transmit(s, t) ==
    dhcpState' = dhcpState /\ thread' = [t EXCEPT !.pc = "sending", !.branch = s]

\* The three ways to the idle state before any handler.
GiveUp ==
    /\ thread.pc = "top"
    /\ \/ TimeIsUp /\ GoTo("IDLE", Doubled)
       \/ /\ ~TimeIsUp /\ Elsewhere /\ dhcpState \notin Inactive
          /\ GoTo("IDLE", Paced)
       \/ /\ ~TimeIsUp /\ ~Elsewhere /\ dhcpState \notin Inactive
          /\ ~thread.held /\ GoTo("IDLE", Paced)
    /\ NextXid
    /\ UNCHANGED <<dhcpConfig, dhcpWake>>

-----------------------------------------------------------------------------
(* The handlers of the active states, up to the transmission.              *)

Restart ==
    /\ Active("INIT")
    /\ sent' = {}
    /\ GoTo(IF thread.last_ip = NoAddress THEN "SELECTING" ELSE "REBOOTING",
            [Ready EXCEPT !.retries = 0])

\* Seeded fault: bound whether or not there was an offer.
SelectingBlindly ==
    /\ Active("SELECTING") /\ NextXid
    /\ IF thread.retries <= MaxRetries
         THEN Transmit("SELECTING", Ready)
         ELSE GoTo("BOUND", [Ready EXCEPT !.leaseTime = Ready.aqsTime])

Rebooting ==
    /\ Active("REBOOTING") /\ NextXid
    /\ IF Ready.retries > MaxRetries
         THEN GoTo("INIT", [Ready EXCEPT !.last_ip = NoAddress])
         ELSE Transmit("REBOOTING", Ready)

\* With an offer, or with the configuration of before, the client is bound.
Selecting ==
    /\ Active("SELECTING") /\ NextXid
    /\ \/ thread.retries <= MaxRetries /\ Transmit("SELECTING", Ready)
       \/ /\ thread.retries > MaxRetries /\ dhcpConfig # NULL
          /\ GoTo("BOUND", [Ready EXCEPT !.leaseTime = Ready.aqsTime])
       \/ /\ thread.retries > MaxRetries /\ dhcpConfig = NULL
          /\ GoTo("IDLE", Ready)

\* What is left until the rebind time, as uint32_t.
SinceLease == now - thread.leaseTime
UntilRebind == (RebindTime(dhcpConfig) - SinceLease) % Word

\* The last wait before the rebind time should be cut, but seconds and milliseconds
\* are mixed up.
Renewing ==
    /\ Active("RENEWING") /\ NextXid
    /\ LET cut == (RebindTime(dhcpConfig) - SinceLease * Second) % Word
           t   == IF Ready.tmo \div Second > UntilRebind
                    THEN [Ready EXCEPT !.tmo = cut] ELSE Ready
       IN  IF RebindTime(dhcpConfig) <= SinceLease
             THEN GoTo("REBINDING", [t EXCEPT !.retries = 0])
             ELSE Transmit("RENEWING", t)

Rebinding ==
    /\ Active("REBINDING") /\ NextXid
    /\ LET cut == (RebindTime(dhcpConfig) - now - thread.leaseTime) % Word
           t   == IF Ready.tmo > UntilRebind THEN [Ready EXCEPT !.tmo = cut] ELSE Ready
       IN  IF RebindTime(dhcpConfig) <= SinceLease
             THEN GoTo("REBINDING", [t EXCEPT !.retries = 0])
             ELSE Transmit("REBINDING", t)

Informing ==
    /\ Active("INFORMING") /\ NextXid
    /\ IF thread.retries > MaxRetries THEN GoTo("IDLE", Ready)
                                      ELSE Transmit("INFORMING", Ready)

\* Without a configuration the count does not matter: the client gives up at once.
Releasing ==
    /\ Active("RELEASING") /\ NextXid
    /\ IF dhcpConfig = NULL \/ thread.retries > MaxReleaseRetries
         THEN GoTo("IDLE", Ready) ELSE Transmit("RELEASING", Ready)

Handle ==
    /\ \/ Restart \/ Selecting \/ Rebooting \/ Renewing \/ Rebinding
       \/ Informing \/ Releasing
    /\ UNCHANGED <<dhcpConfig, dhcpWake>>

-----------------------------------------------------------------------------
(* Messages and answers.                                                   *)

\* The address a message asks for.
Asked ==
    CASE thread.branch = "REBOOTING" -> thread.last_ip
      [] thread.branch \in {"RENEWING", "REBINDING"} -> dhcpConfig.dyn_yiaddr
      [] OTHER -> NoAddress

\* Only the first release is sent to the server's own address; it may fail and be
\* repeated.  A renewal that cannot be sent turns to all servers.
SendFailed ==
    \/ /\ thread.branch = "RENEWING"
       /\ GoTo("REBINDING", [thread EXCEPT !.retries = 0])
    \/ /\ thread.branch = "RELEASING" /\ thread.retries = 1
       /\ GoTo(dhcpState, thread)
    \/ /\ thread.branch # "RENEWING"
       /\ ~(thread.branch = "RELEASING" /\ thread.retries = 1)
       /\ GoTo("IDLE", thread)

\* A repetition may be answered like the first message.
Repeated ==
    IF \E m \in sent : m.state = thread.branch /\ m.ip = Asked
      THEN sent ELSE sent \cup {[state |-> thread.branch, ip |-> Asked, at |-> now]}

DhcpSendMessage ==
    /\ thread.pc = "sending"
    /\ \/ /\ sent' = Repeated
          /\ thread' = [thread EXCEPT !.pc = "receiving", !.until = End(thread.tmo)]
          /\ UNCHANGED dhcpState
       \/ SendFailed /\ UNCHANGED sent
    /\ UNCHANGED <<dhcpConfig, dhcpWake>>

\* What ParseReply makes of the answers to message m; NULL if it is not valid, or if
\* there is no memory.
Reply(m) ==
    {NULL} \cup
    CASE m.state = "SELECTING" -> Config("OFFER")
      [] m.state = "INFORMING" -> Config("ACK")
      [] OTHER -> {Nak} \cup {c \in Config("ACK") : m.ip \in {c.dyn_yiaddr, NoAddress}}

\* offer replaces the configuration c.
Better(c, offer) ==
    CASE c = NULL -> TRUE
      [] c # NULL /\ cdn_ip_addr # NoAddress ->
             c.dyn_yiaddr # cdn_ip_addr /\ offer.dyn_yiaddr = cdn_ip_addr
      [] OTHER -> offer.dyn_leaseTime > c.dyn_leaseTime

CheckOffer(c, offer) ==
    IF offer # NULL /\ Better(c, offer) THEN offer ELSE c

\* No offer is awaited after the next round.
Enough == [thread EXCEPT !.retries = MaxRetries + 1]

\* The client collects offers until the time is up, or takes the first one.
Offered(offer) ==
    /\ dhcpConfig' = CheckOffer(dhcpConfig, offer)
    /\ IF dhcpConfig' # NULL /\ dhcpApiTimeout < 3 * MinWait
         THEN GoTo(dhcpState, Enough)
         ELSE LET wait == IF dhcpConfig' = NULL THEN thread.tmo ELSE MinWait
              IN  /\ thread' = [thread EXCEPT !.tmo = wait, !.until = End(wait)]
                  /\ UNCHANGED dhcpState

Acknowledged(reply) ==
    /\ dhcpConfig' = reply
    /\ GoTo("BOUND", [thread EXCEPT !.leaseTime = thread.aqsTime])

Refused ==
    \/ /\ thread.branch = "REBOOTING"
       /\ GoTo("INIT", [thread EXCEPT !.last_ip = NoAddress])
    \/ /\ thread.branch = "RENEWING"
       /\ GoTo("REBINDING", [thread EXCEPT !.retries = 0])
    \/ thread.branch = "REBINDING" /\ GoTo("INIT", thread)

\* A reply in the branch that waits for it, whatever dhcpState is by now.
Replied(reply) ==
    \/ thread.branch = "SELECTING" /\ Offered(reply)
    \/ /\ thread.branch = "INFORMING"
       /\ dhcpConfig' = IF reply = NULL THEN dhcpConfig ELSE reply
       /\ GoTo("IDLE", thread)
    \/ /\ thread.branch = "RELEASING"
       /\ GoTo(IF reply = NULL THEN dhcpState ELSE "IDLE", thread)
       /\ UNCHANGED dhcpConfig
    \/ /\ thread.branch \in {"REBOOTING", "RENEWING", "REBINDING"}
       /\ \/ reply = NULL /\ GoTo(dhcpState, thread) /\ UNCHANGED dhcpConfig
          \/ reply = Nak /\ Refused /\ UNCHANGED dhcpConfig
          \/ reply \notin {NULL, Nak} /\ Acknowledged(reply)

\* A message with another xid: the client waits for what is left, unless that is little.
\* A wait shorter than MinLeft is never found to be nearly over, the test wraps; at its
\* end 0 is left, which is for ever, after its end almost 2^32.
Left == thread.until - Millis
NearlyOver == thread.until # Never /\ thread.tmo >= MinLeft /\ Left <= MinLeft

WaitsOn ==
    /\ thread.until # Never /\ thread.tmo < MinLeft /\ Left <= 0
    /\ thread' = [thread EXCEPT !.until = IF Left = 0 THEN Never ELSE @ + Word]
    /\ UNCHANGED <<dhcpState, dhcpConfig>>

\* A reply, a receive error, or nothing within the time.
DhcpRecvMessage ==
    /\ thread.pc = "receiving"
    /\ \/ \E m \in sent : \E reply \in Reply(m) : Replied(reply)
       \/ GoTo("IDLE", thread) /\ UNCHANGED dhcpConfig
       \/ WaitsOn
       \/ /\ Over(thread.until) \/ NearlyOver
          /\ GoTo(dhcpState, IF thread.branch = "SELECTING" /\ dhcpConfig # NULL
                               THEN Enough ELSE thread)
          /\ UNCHANGED dhcpConfig
    /\ UNCHANGED <<dhcpWake, sent>>

-----------------------------------------------------------------------------
(* The inactive states: the application is told, and the client naps.      *)

\* NutEventBroadcast(&dhcpDone).  An application thread that posted, but does not wait
\* yet, misses it.
Broadcast ==
    app' = [a \in App |->
              CASE app[a].pc \in {"waiting", "late"} -> [app[a] EXCEPT !.pc = "woken"]
                [] app[a].pc = "posted" -> [app[a] EXCEPT !.pc = "missed"]
                [] OTHER -> app[a]]

Told(pc) == [thread EXCEPT !.pc = pc, !.retries = 0, !.tmo = MinWait,
                   !.held = FALSE]

Bound ==
    /\ At("BOUND") /\ NextXid
    /\ thread' = Told("bound")
    /\ Broadcast
    /\ UNCHANGED <<dhcpState, dhcpConfig, dhcpWake>>

\* Seeded fault: who waits is not told.
IdleUntold ==
    /\ At("IDLE") /\ NextXid
    /\ thread' = Told("idle")
    /\ dhcpConfig' = NULL
    /\ UNCHANGED <<dhcpState, dhcpWake, app>>

Idle ==
    /\ At("IDLE") /\ NextXid
    /\ thread' = Told("idle")
    /\ dhcpConfig' = NULL
    /\ Broadcast
    /\ UNCHANGED <<dhcpState, dhcpWake>>

\* NutEventWait(&dhcpWake, ms).
Nap(pc, ms) ==
    /\ thread' = IF dhcpWake THEN [thread EXCEPT !.pc = "ready"]
                             ELSE [thread EXCEPT !.pc = pc, !.until = End(ms)]
    /\ dhcpWake' = FALSE
    /\ UNCHANGED dhcpState

\* After the broadcast, which yields.
AfterBroadcast ==
    /\ \/ thread.pc = "idle" /\ Nap("sleep", Infinite)
       \/ /\ thread.pc = "bound"
          /\ IF RenewalTime(dhcpConfig) <= SinceLease
               THEN GoTo("RENEWING", thread) /\ UNCHANGED dhcpWake
               ELSE Nap("nap", AtMost(RenewalTime(dhcpConfig) - SinceLease, MaxNap)
                                   * Second)
    /\ UNCHANGED <<dhcpConfig, sent>>

\* The thread begins, or its wait ends.
Wake ==
    /\ \/ /\ thread.pc = "new"
          /\ thread' = [thread EXCEPT !.pc = "top", !.last_ip = cdn_ip_addr,
                                      !.aqsTime = now]
       \/ /\ thread.pc = "ready" \/ (thread.pc = "nap" /\ Over(thread.until))
          /\ thread' = [thread EXCEPT !.pc = "top", !.until = Never]
    /\ UNCHANGED <<dhcpState, dhcpConfig, dhcpWake, sent>>

NutDhcpClient ==
    /\ \/ Bound \/ Idle
       \/ GiveUp /\ UNCHANGED app
       \/ Handle /\ UNCHANGED app
       \/ DhcpSendMessage /\ UNCHANGED app
       \/ DhcpRecvMessage /\ UNCHANGED app
       \/ AfterBroadcast /\ UNCHANGED app
       \/ Wake /\ UNCHANGED app
    /\ UNCHANGED <<dhcpApiStart, dhcpApiTimeout, interface, now>>

-----------------------------------------------------------------------------
(* The application's side.                                                 *)

Out == [pc |-> "out", call |-> "none"]

\* NutEventPost(&dhcpWake).
Post(t) ==
    IF t.pc \in {"nap", "sleep"}
      THEN thread' = [t EXCEPT !.pc = "ready"] /\ UNCHANGED dhcpWake
      ELSE thread' = t /\ dhcpWake' = TRUE

\* The start of the call counts only with a timeout.
Command(a, call, state, timeout) ==
    /\ dhcpApiStart' = IF timeout = Infinite THEN 0 ELSE Millis
    /\ dhcpApiTimeout' = timeout
    /\ dhcpState' = state
    /\ app' = [app EXCEPT ![a] =
                  [pc |-> IF thread.pc = "none" THEN "created" ELSE "posted",
                   call |-> call]]

\* Seeded fault: a client that exists is not woken.
DhcpKickSilently(a, call, state, timeout) ==
    /\ Command(a, call, state, timeout)
    /\ thread' = IF thread.pc = "none" THEN [thread EXCEPT !.pc = "new"] ELSE thread
    /\ UNCHANGED dhcpWake

\* A thread that is created may run before the post.
DhcpKick(a, call, state, timeout) ==
    /\ Command(a, call, state, timeout)
    /\ IF thread.pc = "none"
         THEN thread' = [thread EXCEPT !.pc = "new"] /\ UNCHANGED dhcpWake
         ELSE Post(thread)

\* A fixed address, confnet.cdn_cip_addr.
NetIfConfig(ip) == if_local_ip' = ip /\ cdn_ip_addr' = ip

NutDhcpIfConfig(a) ==
    /\ app[a].pc = "out"
    /\ if_local_ip' = NoAddress /\ UNCHANGED cdn_ip_addr
    /\ \E ms \in Timeout : DhcpKick(a, "NutDhcpIfConfig", "INIT", ms)

\* With a fixed address in the configuration, a lease is given up first.
NutDhcpIfConfigStatic(a) ==
    /\ app[a].pc = "out"
    /\ IF dhcpState = "BOUND"
         THEN /\ if_local_ip' = NoAddress /\ UNCHANGED cdn_ip_addr
              /\ DhcpKick(a, "static", "RELEASING", 3 * MinWait)
         ELSE /\ \E ip \in Address : NetIfConfig(ip)
              /\ UNCHANGED <<command, dhcpWake, thread, app>>

NutDhcpRelease(a) ==
    /\ app[a].pc = "out" /\ dhcpState = "BOUND"
    /\ \E ms \in Timeout : DhcpKick(a, "other", "RELEASING", ms)
    /\ UNCHANGED interface

NutDhcpInform(a) ==
    /\ app[a].pc = "out" /\ dhcpState = "IDLE"
    /\ \E ms \in Timeout : DhcpKick(a, "other", "INFORMING", ms)
    /\ UNCHANGED interface

KickDone(a) ==
    /\ app[a].pc = "created"
    /\ app' = [app EXCEPT ![a].pc = "posted"]
    /\ Post(thread)
    /\ UNCHANGED <<command, interface>>

\* NutEventWait(&dhcpDone, NUT_WAIT_INFINITE).
WaitDone(a) ==
    /\ app[a].pc \in {"posted", "missed"}
    /\ app' = [app EXCEPT ![a].pc = IF @ = "posted" THEN "waiting" ELSE "late"]
    /\ UNCHANGED <<command, dhcpWake, thread, interface>>

\* The rest of NutDhcpIfConfig configures the interface, if it can.
Return(a) ==
    /\ app[a].pc = "woken"
    /\ app' = [app EXCEPT ![a] = Out]
    /\ \/ app[a].call = "static" /\ \E ip \in Address : NetIfConfig(ip)
       \/ /\ app[a].call = "NutDhcpIfConfig" /\ dhcpState = "BOUND"
          /\ NetIfConfig(dhcpConfig.dyn_yiaddr)
       \/ /\ app[a].call = "NutDhcpIfConfig" /\ dhcpState # "BOUND"
          /\ if_local_ip = NoAddress /\ NetIfConfig(cdn_ip_addr)
       \/ /\ \/ app[a].call = "other"
             \/ app[a].call = "NutDhcpIfConfig" /\ dhcpState # "BOUND"
                  /\ if_local_ip # NoAddress
          /\ UNCHANGED interface
    /\ UNCHANGED <<command, dhcpWake, thread>>

\* Something else configures the interface, for example auto ARP.
ConfigureExternally ==
    /\ if_local_ip = NoAddress
    /\ if_local_ip' \in Address
    /\ UNCHANGED <<command, dhcpWake, thread, app, cdn_ip_addr>>

Application ==
    /\ thread.pc # "top"
    /\ \/ \E a \in App :
            \/ NutDhcpIfConfig(a) \/ NutDhcpIfConfigStatic(a)
            \/ NutDhcpRelease(a) \/ NutDhcpInform(a)
            \/ KickDone(a) \/ WaitDone(a) \/ Return(a)
       \/ ConfigureExternally
    /\ UNCHANGED <<dhcpConfig, sent, now>>

\* A spell of the client between two waits takes no time, unless it goes round in
\* circles, as it may when it is rebinding.
Tick ==
    /\ now < MaxTime
    /\ thread.pc = "top" => dhcpState = "REBINDING"
    /\ now' = now + 1
    /\ UNCHANGED <<client, dhcpApiStart, dhcpApiTimeout, app, interface>>

Init ==
    /\ dhcpState = "IDLE" /\ dhcpConfig = NULL /\ dhcpWake = FALSE
    /\ dhcpApiStart = 0 /\ dhcpApiTimeout = 0
    /\ thread = [pc |-> "none", branch |-> "IDLE", retries |-> 0, tmo |-> MinWait,
                 last_ip |-> NoAddress, aqsTime |-> 0, leaseTime |-> 0,
                 held |-> FALSE, until |-> Never]
    /\ sent = {}
    /\ app = [a \in App |-> Out]
    /\ if_local_ip = NoAddress
    /\ cdn_ip_addr \in Address \cup {NoAddress}
    /\ now = 0

Next == NutDhcpClient \/ Application \/ Tick

Spec == Init /\ [][Next]_vars

-----------------------------------------------------------------------------
Thread ==
    [pc : {"none", "new", "top", "sending", "receiving", "bound", "idle", "nap",
           "sleep", "ready"},
     branch : State, retries : 0 .. MaxRetries + 1, tmo : Nat,
     last_ip : Address \cup {NoAddress}, aqsTime : 0 .. MaxTime,
     leaseTime : 0 .. MaxTime, held : BOOLEAN, until : Nat \cup {Never}]

\* The variables keep their types; no count passes the number of retries.
TypeOK ==
    /\ dhcpState \in State
    /\ dhcpConfig \in Config("OFFER") \cup Config("ACK") \cup {NULL}
    /\ dhcpWake \in BOOLEAN
    /\ dhcpApiStart \in Nat /\ dhcpApiTimeout \in Nat
    /\ thread \in Thread
    /\ \A m \in sent : m.at \in 0 .. now
    /\ app \in [App -> [pc : {"out", "created", "posted", "missed", "waiting", "late", "woken"},
                        call : {"none", "NutDhcpIfConfig", "static", "other"}]]
    /\ cdn_ip_addr \in Address \cup {NoAddress}
    /\ now \in 0 .. MaxTime

\* dhcpConfig is there wherever it is read without a test, although callers change the
\* state while the client sends, receives, or has just broadcast.
ConfigWhereRead ==
    /\ dhcpState \in {"BOUND", "RENEWING", "REBINDING"} => dhcpConfig # NULL
    /\ thread.pc = "bound" => dhcpConfig # NULL
    /\ thread.pc \in {"sending", "receiving"} /\ thread.branch = "RELEASING" =>
          dhcpConfig # NULL

\* The client does not nap over a command: what a caller has set when the client begins
\* to nap, or sets and posts while it naps, is looked at.  Not so a command that is set
\* during the broadcast of BOUND when the lease is due: RENEWING replaces it, unseen.
CommandsAreHeard ==
    /\ thread.pc = "sleep" => dhcpState = "IDLE"
    /\ thread.pc = "nap" => dhcpState = "BOUND"

\* A thread that waits in DhcpKick since before the last broadcast is not left there
\* when the client naps.
WaitersAreTold ==
    \A a \in App : app[a].pc = "waiting" => thread.pc \notin {"nap", "sleep"}

\* The client takes only answers to messages of the state it is in: those of an earlier
\* state, which come late, carry an xid that has been given up.
AnswersFitTheState ==
    thread.pc \in {"sending", "receiving"} =>
        \A m \in sent : m.state = thread.branch

\* A lease that a server has acknowledged counts from before any message that the
\* server may have answered, so that it never ends later for the client.
LeaseCountsFromRequest ==
    [][thread.pc = "receiving" /\ dhcpState' = "BOUND" =>
          \A m \in sent : thread'.leaseTime <= m.at]_vars

=============================================================================
