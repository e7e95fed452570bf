# Nut/OS: TLA+ models, model checking and proofs

Nut/OS (Ethernut 4.9) is a small operating system with a TCP/IP stack for 8 to
32 bit micro-controllers. Its threads are *cooperative*: a thread keeps the CPU
until the code it runs reaches `NutThreadSwitch`. Interrupts are the only thing
that can strike in between. Everything else in the system - drivers, network,
file systems, applications - waits with four kernel mechanisms: threads, event
queues, system timers and the run queue. This directory models these, the
services built on them (mutexes, semaphores, conditions, message queues, the heap)
and the four parts of the network in which several threads meet: the ARP cache,
TCP, PPP and the DHCP client.

Paths below are relative to `src/`.

## 1. Inventory

| Component | State | Operations | Modelled in |
|---|---|---|---|
| Threads, scheduler: `os/thread.c`, `arch/*/os/context.c` | `runQueue`, `nutThreadList`, `runningThread`, `killedThread`; per thread `td_state`, `td_priority`, `td_queue`, `td_qnxt` | Create, Exit/Kill/Destroy, Yield, SetPriority, Resume, Wake, Switch, Add/RemovePriQueue | `PriQueue`, `NutKernel` |
| Events: `os/event.c`, `include/sys/event.h` | the root of each queue (NULL, a thread, SIGNALED), `td_qpec`, `td_timer` | Wait, WaitNext, Post(Async), Broadcast(Async), PostFromIrq, Timeout callback | `NutKernel`, `EventQueue` |
| System timers: `os/timer.c` | `nut_ticks`, `nut_ticks_resume`, delta list `nutTimerList` | tick interrupt, Start, Stop, ProcessElapsed, Sleep | `NutTimer`, `TimerService`, `NutKernel` |
| Mutex, semaphore, condition: `os/mutex.c`, `os/semaphore.c`, `os/condition.c` | owner, count, value, an event queue | Lock, Trylock, Unlock; Wait, TryWait, Post; Wait, TimedWait, Signal, Broadcast | `NutSync` |
| Message queues: `os/msg.c` | ring, event queue, timers | Post, Send, GetMessage, Full, Flush, StartTimer, StopTimer, timer callback | `NutMsgQ`, `MessageQueue` |
| Heap: `os/heap.c` | free list ordered by address | Add, Alloc, Free, Realloc | `NutHeap`, `Allocator` |
| ARP: `net/arpcache.c` | cache entries with a queue of waiting threads | Query, Update, ageing and flush | `ArpCache` |
| TCP: `net/tcp*.c` | sockets, input queue, backlog, retransmission queue | state machine thread, timers, socket calls | `NutTcp` |
| PPP: `net/ppp*.c`, `lcp*.c`, `ipcp*.c`, `pap*.c`, `dev/ppp.c` | states of LCP, IPCP and PAP, one retry counter, one request id | packets, link up and down, open, close, configuration, retry thread | `NutPpp` |
| Segment buffer: `os/bankmem.c` | segment ring | request and commit of reads and writes | - |
| Start, devices, diagnostics: `os/nutinit.c`, `os/devreg.c`, `os/tracer.c`, ... | device list, trace buffer | sequential | - |
| UDP, ICMP, IP, IGMP, routing: `net/` | socket buffers, tables | input handlers, socket calls | - |
| DHCP client: `pro/dhcpc.c` | `dhcpState`, `dhcpConfig`, retries, timeouts, the queues `dhcpWake` and `dhcpDone` | client thread, IfConfig, Release, Inform | `NutDhcp` |
| Other protocols, file systems, drivers, C library, tools: `pro/`, `fs/`, `dev/`, `crt/`, ... | see `PROJECT.json` | mostly parsing, formats and register I/O | - |

How they interact: an interrupt posts on a waiting thread (`td_qpec`) or on a root;
`NutThreadResume`, which every release of the CPU passes, turns the counters into
posts and processes elapsed timers, whose callbacks end timed waits and sleeps.
Mutexes, semaphores, conditions, message queues, the ARP cache and the sockets are
structures with one event queue or more; their functions read the structure, wait,
and must cope with what others did to it meanwhile. Timers, threads, ARP entries,
sockets and message timers live in heap blocks, which are reused at once. The TCP
state machine has a thread of its own that serves the timers and the input of all
sockets and wakes the threads that wait in socket calls. The states of a PPP link are
written by three threads, the receiver, the retry thread and the application, each of
which may lose the CPU in the output of a packet. The DHCP client takes its commands
from a variable that any thread may set while the client sends, receives or tells others.

What is hard here:

* *Interrupts between two critical sections.* `NutEventWait`, `NutEventPostAsync`,
  the broadcast and `NutThreadResume` read a queue's root in one critical section
  and change it in another. An interrupt may signal the root or count an event on
  the first waiter in between.
* *The travelling counter.* Events that interrupts post on a waiting thread are
  counted in `td_qpec` of whichever thread is first; as threads enter and leave,
  the counter has to move (to the new head, to the successor, to the root).
* *Timeout against post.* A waiter is in an event queue and its timer in the timer
  list; one of the two ends the wait and has to disarm the other. `td_timer` is
  handle, NULL and flag (SIGNALED) in one word, and timer memory is reused.
* *Delta list.* A timer stores its distance to the one in front. Stops hand ticks
  on, callbacks start and stop timers in the middle of the round that walks the
  list, rounds come late, `nut_ticks` wraps.
* *Woken is not served.* An event is no hand-over: whoever is woken for a mutex, a
  message, an ARP entry or a socket competes with threads that did not wait.
* *Pointers across a release of the CPU.* Sending a packet, waiting, yielding after
  a post: the entry or socket may be another one, or none, afterwards.
* *State written after an output.* The PPP automatons send first and set their state
  when the output returns, whatever the other threads have done meanwhile.
* *A command in a state variable.* Callers of the DHCP client write the variable the
  client itself steers by, and post and wait on two events without a lock.
* *Loss, duplication, reordering* of segments, and a connection that ends from both
  sides, from the network and from the application at the same time.
* *Partial failure.* Memory runs out after a thread has left the run queue, a
  request cannot be sent, a retransmission is given up.
* *Liveness without preemption.* A pending event or an elapsed timer is noticed
  only when somebody releases the CPU.

What makes each component correct: no thread in two queues or in none; queues in
priority order; no lost, duplicated or misdirected event; a wait that reports
correctly why it ended; no dangling timer handle; no callback early or after its
timer was stopped; every timed wait ends. Mutual exclusion and no forgotten waiter
(mutex, semaphore); FIFO, no stranded message and no read of an empty ring (message
queues); disjoint blocks, joined free memory and best fit (heap); one request per
unresolved address, no stale entry and an end of every query (ARP); bytes in order
and once, no end of input before the last byte, nobody left waiting and no socket left
over (TCP); no datagram over a link that is not open and authenticated, an end of
every attempt (PPP); no command slept over, no caller left behind, no answer taken for
another state's, no lease that ends later for the client than for the server (DHCP).

## 2. Modules

| Module | Contents |
|---|---|
| `PriQueue` | `NutThreadAddPriQueue`, `NutThreadRemoveQueue` and the moves of `td_qpec` as operators on sequences |
| `NutKernel` | threads, events, timeouts, sleep; one action per critical section; the safety properties |
| `EventQueue` | abstract: what the event functions promise |
| `NutKernelRefinement` | the refinement mapping from `NutKernel` to `EventQueue` |
| `NutTimer` | the delta list, the tick counter and the round of callbacks in detail |
| `TimerService` | abstract: what a system timer promises |
| `NutSched` | the thread and event functions as the services call them: a step is the code between two releases of the CPU |
| `NutSync` | mutexes, semaphores and conditions on `NutSched` |
| `NutMsgQ` | message queues and their timers on `NutSched` |
| `MessageQueue` | abstract: a bounded FIFO |
| `NutServices` | `NutSync` and `NutMsgQ` composed over one scheduler, the mapping to `MessageQueue` |
| `NutHeap` | free list, best fit, release, reallocation |
| `Allocator` | abstract: an allocator of bytes |
| `ArpCache` | the cache with any number of querying threads |
| `NutTcp` | two nodes, each with socket, state machine thread and application, and the network |
| `NutPpp` | the PPP automatons of one node with their threads; the peer is arbitrary |
| `NutDhcp` | the client thread, the threads that command it, any servers |
| `MCNutKernel`, `MCNutTimer`, `MCNutServices`, `MCNutTcp`, `MCNutHeap`, `MCNutDhcp` | model values, symmetry, fairness, restricted specifications |
| `PriQueueProofs`, `NutKernelProofs`, `NutServicesProofs`, `NutHeapProofs`, `ArpCacheProofs`, `NutPppProofs`, `NutDhcpProofs`, `NutTcpProofs` | the theorems |

`NutServices` extends `NutSync` and `NutMsgQ`, both of which extend `NutSched`, which
extends `PriQueue` as `NutKernel` does. `ArpCache`, `NutTcp`, `NutPpp`, `NutDhcp`
and `NutHeap` stand by themselves. Operators marked *Seeded fault* are variants of the definition behind
them in which the code would have a plausible bug; no specification uses them. With
each of them in place of the definition, TLC finds the property that `PROJECT.json`
names with it violated.

### NutKernel and the code

A linked list is the sequence of its elements: `runQueue` is `runQueue`,
`waitq[q]` the threads behind the root `q`, `q \in signaled` means that the root is
SIGNALED. `td_*`, `nutThreadList`, `runningThread`, `killedThread` are the code's.
One CPU executes the code, so `pc` is the position of the one kernel call in
progress (`pc = "user"`: application or idle code), and `api`, `qhp`, `ms`, `scan`,
`ticksNew` are the local variables of that call. A thread that lost the CPU inside
`NutEventWait` is in `waiting` and goes on with the tail of that function
(`WaitReturn`); all other calls have nothing left to do after the switch.

A call is cut where an interrupt can matter:

| Position | Code about to run |
|---|---|
| `wait`, `clear`, `enqueue` | `NutEventWait`: read the root; clear it; queue the thread and start its timer |
| `signal`, `wake` | `NutEventPostAsync` after reading the root: mark it, or take the first waiter |
| `resume` | `NutThreadResume`: one thread of `nutThreadList` per step, then the new ticks |
| `elapsed` | `NutTimerProcessElapsed`: one elapsed timer with its callback per step |
| `switch`, `return` | the context switch; the tail of `NutEventWait` |

`IrqTick` and `IrqPost` are enabled at every position. Steps between which an
interrupt finds and leaves the same roots and counters are merged. The walk of
`NutThreadAddPriQueue` runs with interrupts enabled; it changes nothing before its
last critical section, and the counter an interrupt may raise meanwhile is read in
that section, so the action does the walk and the insertion at once.

`timeLeft` is the number of ticks from `nut_ticks_resume` to the expiry of a timer,
the sum of the `tn_ticks_left` up to it; `TicksLeft` gives the difference where the
code tests it (`NutTimerStop`). `NutTimer` has the differences themselves. A
timer block that is not in the list is free memory: `NutTimerStart` fails in the
model only when all blocks are in use.

The application may make any sequence of calls: `UserCall` offers each call with
each argument whenever application code has the CPU.

### NutTimer and the code

Variables are the code's. The tick counter has `Word` values and may start
anywhere. `pc` distinguishes outside the round, the loop (`timer.c:449`), the
callback of `cur` (467) and the unlinking (469-489). In a callback any timer may be
started or stopped, as the callbacks of `event.c`, `msg.c` and of applications do.

### NutSched, NutSync, NutMsgQ and the code

The services are called by threads only, and no interrupt of this level posts to their
queues. So `td_qpec` is 0, the critical sections of `NutKernel` need not be told
apart, and a step of a thread ends where it releases the CPU: in `NutEventWait`,
`NutEventPost`, `NutThreadYield`. `running = NIL` is `NutThreadResume`, where timers
may end timed waits (`NutEventTimeout`) and message timers elapse
(`NutMsgQTimerCb`) before the first thread of the run queue goes on. `step[t]` and
`obj[t]` are where the code of `t` goes on after it was switched away: in the loop of
`NutMutexLock`, between the unlock and the wait of a condition, in front of the lock
behind it, in `NutMsgQGetMessage` after the wait.

`owner`, `count`, `value`, `mq_que`, `mq_read`, `mq_write` are the fields of the
structures; `held` is what the callers know, the number of locks they have not
undone, which the code nowhere stores. The ring keeps its old contents behind
`mq_read` as in the code. The functions compare and mask indices as the code does.
Callers obey what the code's comments ask of them and the code cannot check: a mutex is unlocked
by a thread that holds it, a condition is waited for with its mutex held, a queue is
not flushed while somebody waits, a one-shot message timer is not stopped after its
message has been received. For the flush the model asks a little more than the comment and the
disabled assertion (`msg.c:427-430`), which look at the root: no reader may be on its way
either, woken by an event but not yet run, since it would find the ring empty.

### ArpCache and the code

An entry is a heap block in `table`; `complete` is ATF_COM; `nb` holds the threads
that own a request packet. `place` is the release of the CPU a query is in: in
`NutArpOutput`, in `NutEventWait`, or woken. `Round` is one turn of the loop at
`arpcache.c:506-534`, `Continue` the look-up after the wait with the round it leads to.
`NutArpCacheUpdate` is the receiver thread. Time is left out except that an entry
may be outdated in any call that ages the cache, unless a query uses it: ageing needs
nine minutes without an update and a query lasts seconds.

### NutTcp and the code

`sock[e]` has the fields of TCPSOCKET (`una`, `nxt`, `win`, `rxNxt`, `rxWin`,
`nbq`, `rxBuf`, `adv`, ...), where the application thread is (`app`) and where
`NutTcpSm` goes on after a segment it has sent (`sm`). Each state of the code has its
handler as an operator on the socket, as in `tcpsm.c`; the segments a step outputs
are collected in `out` and go to the network at its end. Posting an event does not
stop `NutTcpSm`, whose priority is above the application's; sending a segment may.
Segments carry one byte at most, so a byte is known by its sequence number. Whatever
a timer does may happen at any time: retransmission, giving up, the end of
TIME_WAIT and FIN_WAIT_2, the backlog timer, the time-out of `NutTcpAccept`. The network
loses and reorders; retransmission duplicates.

### NutPpp and the code

`dcb` has the fields of PPPDCB that the automatons use. Each function of `pppsm.c`,
`lcpin.c`, `ipcpin.c` and `papin.c` is an operator from the device to the device and
what its thread has left to do: `Output(d, left)` ends in a packet that waits for the
transmitter (`SendRawByte`), so other threads run before `left` is done (`Resumed`).
LCP and IPCP share an operator where their code is the same. `Answered` is the
end of `LcpRxConfReq` behind the output, `Timeout` one of the three parts of a round of
`NutPppSm` with its copy of `dcb_retries`, `AfterResend` the rest of the round behind an
output. Posting yields, but the receiver is more urgent than the other threads.

A request id is compared with `dcb_reqid` only, so `current` holds the layers whose last
request still carries it. A packet has its code, whether it is acceptable (`good`: id and
options are right, or the options of a request are accepted), and memory may be short
(`mem`). The peer sends what it likes; an acknowledgement comes only for
a request that has been made. `NutNetIfConfig` is cut where it releases the CPU: the
broadcast, the attachment, the wait. `early` is a history, no member of PPPDCB: IPCP was up at
the broadcast (`ifconfig.c:354`) and has been ever since. It guards nothing; it tells the wait
in which no event is to come from one that has missed its event.
The device is not opened again while another thread configures it.

### NutDhcp and the code

`dhcpState`, `dhcpConfig`, `dhcpApiStart`, `dhcpApiTimeout` are the code's; `thread` has the
local variables of `NutDhcpClient` and where it is: at the top of its loop, sending,
receiving, behind a broadcast in `BOUND` or `IDLE`, napping, sleeping. It runs alone
from one release of the CPU to the next; in between `dhcpState` may become another one than
that of the branch it is in, so the branch is kept (`branch`). Each state has its handler up
to the transmission (`Selecting`, `Rebooting`, ...), each branch its treatment of a
reply (`Replied`). `sent` are the messages with the current xid that left: a server may
answer any of them, late, more than once, with an address of its own choice or a refusal.
A send, a receive or an allocation may fail at any time. An application thread is
between its call, its post (`DhcpKick`), its wait and its return; a thread that posted but
does not wait yet misses a broadcast (`missed`, then `late`).

Abstracted: message formats, the MAC address and the half second spent on it, `dhcpError`. Times
of a lease are in seconds and waits in milliseconds as in the code, and where the code mixes
them the model does, too. A message with another xid does not end a wait,
unless less than `MinLeft` (250 ms) of it is left (`NearlyOver`); of a wait that was shorter
from the start, the rest may become infinite or wrap (`WaitsOn`, `dhcpc.c:1107-1112`). An infinite
wait stays one, where the code makes 49 days of it. A spell of the client takes no time, except
when it goes round in circles. A server identifies itself in every answer. `retries` is counted as far as the code
tells counts apart.

### NutHeap and the code

The free list is a sequence of `[addr, size]`; a block is its address with `hn_size`.
`BestFit`, `Cut`, `Freed` are the loops of `NutHeapRootAlloc` (smallest node that
fits, split unless the remainder is too small for a node) and `NutHeapRootFree` (walk by
address, join in front and behind). `NutHeapRootRealloc` grows into the free node
behind, moves, or gives the end back; a relocation passes a size to
`NutHeapRootAlloc` that includes the overhead already, so the overhead is added twice.

### Abstract specifications

`EventQueue` has per queue a set of waiters and a number of undelivered events. An
event wakes one of the most urgent waiters, a queue without waiters keeps one
event, a thread leaves for an event or a timeout and nothing else. The mapping
counts the signaled root, the counter of the first waiter (the only one that has
any, `PendingAtHead`) and the event that `NutThreadResume` has taken from a counter
and not yet posted.

`TimerService` has per timer the ticks left, negative when overdue. A callback runs
when they are over, longest overdue first; a periodic timer keeps its phase; a
stopped timer runs no callback. A timer that a *callback* starts is short by the
ticks the round still holds (`backlog`): the code adds the ticks since
`nut_ticks_resume`, which the round has already advanced.

`MessageQueue` is a FIFO per queue with the capacity `mq_mask`, in which a message may
be blanked where it stands. `Allocator` knows only bytes: which are free, which form
a block. An allocation takes the shortest maximal run of free bytes that is long
enough and fails only if there is none; this holds of the code only because
`NutHeapRootFree` never leaves two free nodes that touch.

## 3. Runs

Bounds: `MaxLag` (ticks not yet processed), `MaxPending` (`td_qpec`), `Delay` and
`Interval` (timeouts, 0 is endless for an event wait), `Level` (priorities; `Lowest`
stands for 254), `Word` (2^32, for the heap the modulus of `size_t`), `MaxNest` (count
of a mutex), `MaxValue` (of a semaphore), `Mask` (`mq_mask`), `MaxRequests`
(MAX_ARPREQUESTS), `Capacity` (segments on their way to a node), `MaxSyn`, `MaxSeq`
(SYNs answered, sequence numbers acknowledged), `MaxRetries` (9 in `NutPppSm`, in
`NutDhcp` a macro of `dhcpc.c`, like `MinWait`, `MaxWait` and `MaxNap`), `MinLeft` (its
250 ms), `MaxTime` (of the DHCP client's clock).

| Run | Instance | Shows |
|---|---|---|
| `kernel_timeouts` | 2 application threads and idle, 2 queues, 2 timers, 2 priorities, timeouts 1 and 2, lag 2, pending 2 | pending events at the head, placement, control, handles, thread states; only the failure path of `NutSleep` disorders the run queue; refinement of `EventQueue` |
| `kernel_liveness` | 2 threads, 1 queue, 2 timers, no symmetry | pending events are served; timed waits and sleeps end |
| `timers` | 3 timers, intervals 0, 1, 2, lag 2, counter of 8 values | the head of the list after a callback; refinement of `TimerService`; one-shot timers leave the list |
| `services` | 3 threads (one urgent), a condition with its mutex, a semaphore, a queue with a ring of 4, 2 message timers, one reader | mutual exclusion, hand-over, semaphore counting, events and messages agree, timer messages belong to their timer, refinement of `MessageQueue` |
| `arp` | 3 querying threads, 2 addresses, 3 entries, 2 requests per query | one owner per unresolved entry, no stale pointer, a reply counts, every query ends |
| `tcp` | 2 nodes, 3 bytes one way, window of 2 segments, one segment on its way in each direction | order and completeness of the stream, acknowledged is kept, end of input, window, nobody forgotten, sockets are not destroyed under the state machine and go in the end |
| `ppp` | one node, any peer, 2 retries | datagrams only over an open, authenticated link; nobody misses that the network layer came up; every attempt ends when the peer is gone |
| `dhcp` | 2 callers, one address, lease of 4 seconds, calls with and without a timeout, 1 retry, 3 seconds | the configuration is there where it is read, no command still set is slept over, no caller is left behind, late answers do not count, a lease counts from before its request |
| `heap` | 29-byte heap in three regions (18, 6 and 5 bytes), two of which touch, requests of 1, 3 and 6 bytes | the free list is ordered and nothing in it touches; refinement of `Allocator` |
| `runqueue_order` | finding | `NutSleep` without timer memory disorders the run queue |
| `cond_broadcast` | finding | a broadcast made with the mutex held misses a thread that is about to wait |
| `tcp_stream` | finding | SYN_RECEIVED takes a segment out of sequence |

Why the bounds suffice to meet the interesting cases.
*Kernel:* a scan of `NutThreadResume` needs two waiters to pass a counter from one the
scan has yet to reach to one it has passed, and for one to enter in front of the other
while interrupts post; two priorities give order, a tie and an
overtaking; two timers give equal and different expiries and, since a stopped timer
keeps its block until the next round, run out; a lag of two makes one round elapse two
timers that were started at different times; two pending events outnumber the waiters
that remain. For any number of threads the invariants and the refinement are proved; the
invariants `TypeOK`, `WaitersOrdered` and `TimersOrdered` are only proved, no run repeats
them, and so are the type invariants of the other modules.
*Timers:* three timers are what a stop needs to have a predecessor and a successor. The
counter of eight values wraps within any run.
*Services:* three threads let one hold or be woken for a mutex while a second locks it
and a third waits, at both priorities; a count of 2 nests; the semaphore goes from 1 to
-2. The ring of four holds three messages, wraps, and keeps two timers' and a user's
message at once. Threads of this instance use the synchronisation objects or the queue, not
both in one behaviour (`OneKindSpec`); the composition without this restriction is
covered by `NutServicesProofs` for the objects.
*ARP:* an owner of the request, a waiter, and a third query that creates the entry
again; three blocks let an address get a different block than before; two requests give a
first, a last and a middle round.
*TCP:* three bytes exceed the window of two, so the sender waits, a segment can
arrive ahead of sequence, and the window fills. One segment per direction and
loss at any time give every order of arrivals that retransmission can produce. One
direction of data suffices as the handlers do not depend on the side; both sides close
in any order.
*PPP:* the first round of a count only counts, the second sends again, the third gives
up: two retries have each kind of round, more repeat the second.
*DHCP:* two callers let one change the state under the other; one retry gives a first, a
last and no transmission; three seconds pass the renewal time and the rebind time, which the
options set to 1 and 3. One address suffices because what is asked of an address is whether it
is the one remembered, offered or configured, or none. `MinLeft` is as long as `MinWait`, so that
there are waits on both sides of it; that exactly 0 is left of a shorter one does not happen on a
clock of whole seconds, and only the proofs cover it.
*Heap:* a block can have free or used memory, or the end of a region, on either side,
requests lead to splits, whole nodes and remainders too short to split; the
region that is added last joins an earlier one. `Word` is larger than all addresses.

Deadlock is checked where the system must never stop (kernel, timers, ARP, PPP). It is
allowed where threads may rightly all be waiting or finished: threads of an application can wait for
each other (`services`, `cond_broadcast`), both TCP applications close and are done
(`tcp`, `tcp_stream`), and a heap may be empty (`heap`).

### Findings

* `runqueue_order`: when `NutTimerStart` fails, `NutSleep` restores the caller in front of
  more urgent threads (`timer.c:652`).
* `cond_broadcast`: `condition.c:199` says that all threads waiting are woken up; the
  unlock in `NutConditionTimedWait` releases the CPU before the wait begins (174), and a
  broadcast in between is lost even if it is made with the mutex held.
* `tcp_stream`: the comment at `tcpsm.c:1118` says that segments out of sequence are
  rejected; the code tests the acknowledgement number only. After the loss of the first
  byte, the second one is taken for the first.

`StreamIntact`, `AckedIsKept` and `EofMeansAll` leave out the sockets that have
met the last finding (`skew`), to show that it is the only cause.

Other disagreements the models reproduce, without a run of their own:

* The comment at `timer.c:667` says that stopping a one-shot timer releases its memory; a
  timer due at the same tick as the one in front of it is taken for elapsed by
  `NutTimerStop` (687) and may remain until then.
* `dhcp.h:161-162`: after an offer the client "will change to DHCPST_REQUESTING". The
  assignment is a comment (`dhcpc.c:1696`): the client is bound with what was offered and never
  acknowledged (`Selecting`).
* `dhcp.h:189-190`: the client remains bound until the renewal time. The timeout of the
  call that asked for the lease is checked in every state (`dhcpc.c:1528-1533`, `TimeIsUp`)
  and ends BOUND when the nap is over.
* `dhcpc.c:319-320`: waits are limited by MAX_DHCP_WAIT. RENEWING and REBINDING subtract
  milliseconds from seconds (1808-1809, 1849-1850), and the difference wraps (`cut`).
* `dhcp.h:214-215`: when the lease is over the client moves to INIT. REBINDING sets itself
  again without having waited (`dhcpc.c:1852-1854`), and no other thread runs any more.
* `dhcpc.c:1965-1966`: the caller relies on the client to wake it up. A client that fails before
  it has waited itself broadcasts while the caller is between its post (2001) and
  its wait (`late`).
* `dhcpc.c:710`: a configuration "must be released by the caller"; with a remembered
  address `CheckOffer` does not release an offer that is not better (1354-1363).

### Fairness

*Kernel.* `FairSpec` assumes weak fairness of `KernelStep` (kernel code runs on;
it has no loop that waits), of `IrqTick` (the timer hardware ticks; the bound
`MaxLag` only stops ticks while they are not processed) and of `IdleLoop` (the
endless loop of `NutIdle`). Nothing in the code makes an application thread release
the CPU, so both liveness properties are of the form `CpuReleased => ...` with
`CpuReleased == []<>(pc = "resume")`. Interrupt posts and user calls are not fair.

*Timers.* `TimerFairSpec`: fair ticks and a fair round (every release of the CPU runs
`NutTimerProcessElapsed`, and the idle loop releases it all the time). `OneShotEnds`
supposes that rounds end (`[]<>(pc = "idle")`): zero-interval timers that start each other
from their callbacks could keep one round going for ever.

*ARP.* Weak fairness of each querying thread's own steps: the driver's output returns,
the wait has a time-out, a ready thread runs. Replies are not fair.

*TCP.* Weak fairness of `Continue` (the state machine goes on when its output
returns) and strong fairness of `GiveUp`: the retries of a segment and the time in
TIME_WAIT and FIN_WAIT_2 are limited and looked at in each round of `NutTcpSm`. It is
strong because an acknowledgement may start the time anew. Nothing is assumed of the
network and the applications.

*PPP.* Weak fairness of `Continue` (outputs return, the write time-out sees to that if
the line does not) and of `NutPppSm` (an endless loop with a sleep). Nothing is assumed of
the peer and the application; `GivesUp` is about a peer that has fallen silent.

## 4. Proofs

All theorems hold for any values of the constants that satisfy the named ASSUMEs of
the modules, which TLC evaluates in the runs.

| Module | Theorem | Statement |
|---|---|---|
| `NutKernelProofs` | `KernelInvariant` | `Spec => []IInv` |
| | `KernelTypes`, `KernelControl`, `KernelPlacesThreads`, `KernelHandles`, `KernelPending`, `KernelWaitersOrder`, `KernelTimersOrder` | its parts `TypeOK`, `ControlOK`, `ThreadsPlaced`, `HandlesValid`, `PendingAtHead`, `WaitersOrdered`, `TimersOrdered` |
| | `KernelStates`, `KernelRunQueueOrder` | `StatesAgree`, and the action property `OrderKept` |
| | `KernelImplementsEvents` | `Spec => ImplementsEventQueue`, that is `Spec => Abs!Spec` |
| `NutServicesProofs` | `SyncInvariant` | the inductive invariant of mutexes, semaphores and conditions |
| | `SyncPlaced`, `MutualExclusion`, `MutexPassedOn`, `SemaphoreCounts` | `Placed`, `MutexExclusive`, `MutexHandedOn`, `SemWaiters` |
| | `ServicesSafe` | these invariants hold in the composition with message queues |
| | `MsgTypes`, `ReadersFindMessages`, `NoMessageStranded`, `TimersOwnTheirMessages` | `MsgTypeOK`, `EventMeansMessage`, `MessageMeansEvent`, `TimerMessagesOwned` |
| | `QueuesAreFifos` | `ServicesSpec => ImplementsMessageQueue`, the refinement of `MessageQueue` |
| `NutHeapProofs` | `HeapInvariant`, `HeapFreeList`, `HeapBlocksApart` | the inductive invariant, `FreeListSound`, `BlocksApart` |
| | `HeapImplementsAllocator` | `Spec => ImplementsAllocator`, the refinement of `Allocator` |
| | `TimerInvariant`, `TimerTypes`, `TimerHeadElapsed` | the inductive invariant of the timers, `TypeOK`, `HeadElapsed` |
| | `TimersImplementService` | `TimerSpec => ImplementsTimerService`, the refinement of `TimerService` |
| `ArpCacheProofs` | `ArpInvariant`, `ArpNoOrphan`, `ArpEntryValid`, `ArpReplyCounts` | the inductive invariant, `NoOrphan`, `EntryValid`, `ReplyCounts` |
| `NutPppProofs` | `PppInvariant`, `PppTypes`, `NetworkOverOpenLink`, `ConfigurationIsTold` | the inductive invariant, `TypeOK`, `OpenMeansOpen`, `NobodyWaitsInVain` |
| `NutDhcpProofs` | `DhcpInvariant`, `DhcpTypes` | the inductive invariant, `TypeOK` |
| | `DhcpConfigWhereRead`, `DhcpCommandsAreHeard`, `DhcpWaitersAreTold`, `DhcpAnswersFit`, `DhcpLeaseCounts` | `ConfigWhereRead`, `CommandsAreHeard`, `WaitersAreTold`, `AnswersFitTheState`, `LeaseCountsFromRequest` |
| `NutTcpProofs` | `TcpInvariant`, `TcpTypes` | the inductive invariant, `TypeOK` |
| | `TcpStreamIntact`, `TcpAckedIsKept`, `TcpBufferBounded`, `TcpNobodyForgotten` | `StreamIntact`, `AckedIsKept`, `BufferBounded`, `NobodyForgotten` |
| | `TcpSmKeepsSocket` | the action property `SmKeepsSocket` |
| | `TcpFlowInvariant`, `TcpEofMeansAll` | the invariant of the two streams, `EofMeansAll` |
| `PriQueueProofs` | `EnqueuedOrdered`, `AddPending`, `LeavePending` | what entering and leaving a priority queue does |

### The kernel

Assumptions: the idle thread is not an application thread, NIL and SIGNALED are not
the address of a thread, timer or queue, priorities are naturals below `Lowest`.

None of the parts is inductive alone; `IInv` is their conjunction and needs no more:

* `WakeHead` takes `Head(waitq[qhp])`: `ControlOK` says that the queue read by an
  earlier step still has a waiter. It is preserved by interrupts because these
  never remove one.
* A timeout may take a waiter from the middle of a queue. Only with `PendingAtHead`
  does such a waiter have no events to pass on, and only with `HandlesValid` does
  the callback find the thread whose timer it is.
* `HandlesValid` needs `ThreadsPlaced` (a thread waits in one queue) when a timer
  block is reused, and `TimersOrdered` when distances are reduced by a round: no
  distance gets negative (`TypeOK`).
* `WaitersOrdered` survives `NutThreadSetPriority` because the caller is in the run
  queue (`ControlOK`) and hence in no wait queue (`ThreadsPlaced`).
* The idle thread stays last in the run queue because its priority is above all
  others (`ControlOK`), even when `NutSleep` puts its caller in front; so the run
  queue is never empty.

`NutKernelProofs` has one lemma per action, built on lemmas about what a thread's
entering and leaving a queue and a timer's start and stop preserve.
`PriQueueProofs` proves what `Enqueued`, `Dequeued`, `PendingAfterAdd`,
`PendingAfterLeave` do to a queue: the set of its threads, its order, who is first,
where the pending events are.

Its second part adds the states of the threads to `IInv` (`SInv`); `OrderKept` follows
from `IInv` step by step, since a thread put into an ordered queue by its priority leaves it
ordered, and `NutSleep` finds a timer block.

Its last part is the step simulation of `NutKernelRefinement`. Its invariant `RInv` adds to `IInv` who
is inside `NutEventWait` (`WaitersKnown`). Each step is one step of `EventQueue` or none:
`IrqPost` and `SignalRoot` are `Post`; `ClearRoot` and `NutEventWaitNext` are `Consume`
if the queue is signaled; `Enqueue` is `Enter`; `WakeHead` is `Deliver` when
`NutThreadResume` posts what it has in hand and `PostDirect` otherwise; `TimerElapse` is
`Expire` when it finds a waiter; `WaitReturn` is `Return`; a thread that changes its priority or is
created is `Reprioritize`. The work is in two lemmas about the counters:
`PendingOnAdd` (a thread that enters a queue, in front or not, changes nothing of what
is pending there) and `PendingOnLeave` (one that leaves hands it to the next waiter or to the
root).

### Mutexes and semaphores

Assumptions: threads are finite in number and not an address of a root; a semaphore's,
a mutex's, a condition's queue and `Stray` are different roots.

The invariant joins `SyncTypeOK`, `Placed`, `MutexExclusive`, `MutexHandedOn`,
`SemWaiters` and what a thread that is at a place in the code knows: who waits at a
mutex is in the loop of `NutMutexLock` for this mutex (`LockersWait`), and without a
timer (`Untimed`), so only a post can end the wait. `MutexHandedOn` is the
delicate one: an unlock wakes one waiter, which stays on its way to the mutex until it
has the CPU; if it then finds the mutex taken it waits again, and it is the owner whose
unlock will wake one.  `MutexExclusive` does not depend on the wake-ups at all, but on
`LockRetry` testing the count again.

The end of `NutServicesProofs` shows that the composition keeps this invariant: a step of a
message queue uses roots and places in the code of its own, and leaves the run queue
to the same rules.

### Message queues

Assumptions: each queue has one reader (`Reader`), which the code asks for by an assertion
(`msg.c:389`); the root of a message queue is not that of a semaphore, mutex or condition.

`MInv` joins to the invariant above what the ring, the root and the timers have to do with each
other. `EventsCount` is the heart: the ring holds a message exactly if the root is signaled or
the reader was woken, and if both, then two at least. Posting keeps it, since the root is posted
with every message; so does `NutMsgQGetMessage`, which posts again when messages are left; a
flush clears the root with the ring; and the time-out of a wait finds its reader in the queue, so
that the ring is empty and the root clear. `TimersServeOne` says that a NUTMSGTMR is on one
queue's list, and that a one-shot timer whose message waits does not run and has no second
message there; so freeing it with its message (`msg.c:411`) frees it once and leaves none of its messages behind
(`TimerMessagesOwned`).

The ring is an array whose indices are masked. `SlotIs` and `SlotsAre` give the slots of the
messages, `RingPut`, `RingTake`, `RingEmpty` and `ContentsAre` say what storing, fetching and
flushing do to the sequence in it. `QueuesAreFifos` is the step simulation on top of them: each
step of a queue puts a message behind the others, takes the first, empties the queue or voids
the messages of a stopped timer in their places.

### The heap

Assumptions (`HeapAssumption`, `RegionAssumption`): the regions are different memory within
the address space; a request, with overhead and guards, takes at least NUTMEM_HEAPNODE_MIN
bytes, which is not less than a HEAPNODE, so that the subtraction at `heap.c:649`
does not wrap.

`FreeListSound` alone is not inductive: a node that is freed must not overlap a free one. The
invariant says that free nodes, blocks and the regions yet to be added share no byte, and
that a block is no shorter than `NodeMin`. Four lemmas say what a change of the list
does (`ReplaceSound`, `RemoveSound`, `InsertSound`, `AppendSound`); `FreedSound` puts
them together for the walk of `NutHeapRootFree`, `CutSound` for the split. Each says that
the list stays sound and that whatever was clear of the list and of the node that was added is
clear of the result. `HeapBlocksApart` follows: no byte is given out twice.

For the refinement, `ReplaceBytes`, `RemoveBytes`, `InsertBytes` and `AppendBytes` say which bytes
a change of the list frees or takes; `FreedBytes` and `CutBytes` follow. `Gaps` (the bytes
before and behind a node are not free) and `StretchIsNode` make the maximal runs of free bytes
the nodes of the list (`RunsAre`), so that the best fit of the code is the shortest run of
`Allocator`, and a list without a fitting node is a heap without a fitting run. Without
`FreeListSound` neither holds. `RelocateRefines` shows why a block only moves if
it cannot grow: if all missing bytes were free, one node directly behind the block would
hold them. One lemma per call says which step of `Allocator` it is; the second release of a block
is none.

### The timers

The second half of `NutHeapProofs`, beside the heap whose blocks the timers are (so that the module
can extend both, `NutTimer` has names of its own for its specification: `TimerInit`,
`TimerSpec`). Assumptions (`TimerAssumption`): `NoTimer` is no timer, an interval with the largest lag fits into a uint32_t.

The list stores distances, and its promise is about their sums. `Due` is a recursive function on
the positions of a list; `DueIs` and `DueUnique` (by the smallest position at which they would fail)
say that it is the one function that adds the distances up, so a proof about an operation
only has to name the sums afterwards. `Expiry` is the sum up to the place of a timer:

* `InsertExpiry`: `NutTimerInsert` gives the new timer its expiry and leaves all others theirs; if
  the head was due now, it stays the head.
* `RemoveExpiry`: a timer that leaves hands its distance to the next one, and nothing else changes.
* `HeadExpiry`: what is taken off the head is taken off every timer.

`TmInv` joins to the list without duplicates that a timer out of the list has no distance
(NutTimerStop adds to it), that no expiry reaches `TickWord`, and that in a callback its timer is the
head and due now. The last part is what the code relies on when it unlinks the head but goes on with `tn`:
whatever the callback starts or stops is inserted behind it, since the walk passes every
timer that is due at the same tick. For the refinement, `SameTimer` says that a timer's state is
kept if its expiry moves as much as the ticks that are accounted for; the round (`ticks_new`), the ticks since
`nut_ticks_resume` and the distances may change against each other. `SinceIs` is the arithmetic of the
wrapping counter. Each step is one of `TimerService` or none: `Elapse` is `Fire` unless the
timer was stopped, `Unlink` is `Release` unless it is periodic.

### The ARP cache

Assumptions: one request at least per query; NIL is neither an entry nor an address.

An incomplete entry needs an owner (`Owned`); that it is only one (`NoOrphan`) rests on
`OwnerOK`: the address of every query that owns a request is in the table, complete or not,
so no second query creates it. `OneAddress` (an entry serves one address) is what
keeps the removal of one entry from touching others. `Weaker` describes what ageing may do
to the cache; `WeakerKeeps` shows that it disturbs no query. `ArpReplyCounts` is an action
property proved from the same invariant.

### The PPP link

Assumption: at least one retry.

`OpenMeansOpen` alone is not inductive, since a handler sets the state only after its output.
The invariant (`Good`, with `RxOK`) relates the device to what the threads have left to do:

* IPCP that is acknowledged counts as open (`Up`): the answer on its way will open it. So
  every handler that closes LCP or starts PAP must have brought IPCP out of `Up`.
* While the receiver has something left to do to LCP, IPCP is down; while it has an
  acknowledgement left to note, PAP does not wait for an answer (or NutPppSm, out of retries,
  would stop LCP under the application's request).
* While the application sends a request of LCP from CLOSED, LCP is not up, and if an
  acknowledgement has been noted, LCP has stayed down: otherwise the late `REQSENT` would fall
  into an open link.
* NutPppSm only sends again when its local count is below `MaxRetries`, so counting
  afterwards keeps `retries` in its range.
* While the configuring thread is between its broadcast and its wait, or waits, and no event is
  there for it (`Unheard`), IPCP is not up, unless it has been since before the broadcast. Every
  handler that brings IPCP up posts the event and so ends `Unheard`.

The lemmas `GoodSet`, `GoodTx`, `GoodDown`, `GoodRequest`, `GoodAnswer` say what each piece of
a handler keeps; one lemma per handler puts the pieces together, and `NextOK` the handlers.

### The DHCP client

Assumptions: times and retry limits are naturals, waits and the length of a second positive.

None of the properties is inductive, since each speaks of one moment of the client:

* `BranchKept`: while the client exchanges messages, `dhcpState` is the state of its branch, or
  INIT because a caller starts anew. RELEASING and INFORMING are commands of the inactive states
  only. So what a branch reads (`ConfigKept`) is still there when an answer comes.
* `XidCurrent`: messages that are out belong to the branch, and at the top of the loop to the
  state, unless a new xid will be taken at once because no retry has been counted.
* `AskedBefore`: the client began to ask (`aqsTime`) before any message left that still
  counts. `LeaseCountsFromRequest` follows, as only an acknowledgement makes a receiving
  client BOUND (`BoundByAnswer`).
* `Heard` and `Woken` cover the moment between broadcast and nap: whoever commands or posts
  then has signaled `dhcpWake`, and the nap will not begin.

`GoToKeeps` and `TransmitKeeps` say what the two ends of a handler keep; each handler is shown
to meet their conditions.

### The TCP connection

Assumptions (`TcpAssumption`): the window is at least one segment; the bounds on bytes, capacity
and sequence numbers are naturals. The theorems hold for all of them, so for any
number of bytes and any number of segments on their way.

The invariant (`TcpInv`) has two parts. The first (`Good`) is about one socket, whatever the peer does:

* `Control` says which places of the application and of `NutTcpSm` go with which state. A
  handler that has sent a segment goes on in a state that a call of the application may have
  changed meanwhile, so the pairs are more than the code seems to have.
* `Tidy`: the bytes that were read and those in the input buffer follow `rxIsn`, and `rxNxt`
  is behind them, plus the FIN in CLOSE_WAIT.
* `Room`: buffer and offered window together are within `WinSize`, and the segments received in
  advance lie beyond `rxNxt` and within the window. Since their numbers ascend
  (`AscendingBounded`), they are fewer than the window has places, so there is room for
  them and for the missing segment.

The second is about the two nodes (`Sound`, `Agree`): no segment of a node that is still
around, on its way, kept for retransmission or as a SYN in the backlog, acknowledges or offers more
than its socket has by now; no socket knows of more than the peer has acknowledged and offered; no
data on its way lies behind the receiver's window. `Grows` makes this stable: the acknowledged number and the
edge of the window never move back, whatever a handler does. This is why a segment
that is late or repeated does no harm.

Handlers and calls are compositions of a few operators. For each operator a lemma says what it changes
(`Same`), that it only sends what it may (`Issues`) and that it does not move the edge back (`Goes`);
`GoesTrans` composes them. One lemma per handler then shows `Handled`, one lemma per action shows that
its result is `Allowed`, and `StepKeeps`, the only lemma that speaks of the network, that the step then keeps
`TcpInv` whatever is lost. `Progress` states this form of every step; `TcpSmKeepsSocket` follows from it.

That the end of the stream is its end (`EofMeansAll`) needs a second invariant, `FlowInv`, for which
`TcpInv` is a hypothesis. `TcpInv` compares what a socket has acknowledged with what its peer takes for
acknowledged; it never says that the peer has *sent* it. `FlowInv` says so for each node and its peer:

* `Level`: `rxNxt` is at most `nxt` of the peer; it is less while the socket still receives and the peer
  has closed, since the FIN is missing, and equal in CLOSE_WAIT. Segments received in advance lie below
  the FIN. A skewed socket, one whose peer is gone and one that is closed itself are left out: for them
  it is not true, or nobody reads any more.
* `FinHeld`: a handler that stops for an output with `flags` to deal with stops at `"finish"` or
  `"closewait"`, and the peer has closed. An old segment with a FIN leads to `"finish"` too
  (`Unexpected`), and `CheckFin` moves `rxNxt` on for it; that this never happens to a socket that has
  kept in step is what `OldStays` shows: the FIN of the peer has the highest number, so it cannot be old.
* `InStream`: every segment of the peer that is still around lies below its `nxt`; after it has
  closed, a FIN is the last number and everything else with a number is before it.

A step keeps `FlowInv` when its socket is `Turned`: it has sent at most one numbered segment
(`Speaks`), a FIN only as it closes or enters CLOSE_WAIT, and nothing numbered after it has closed. The
two sides meet in `FlowKeeps` alone. `Mute`, `Stays` and `Turned` compose as `Goes` does; there is
one lemma per handler again (`ProcessTurned`, `ContinuedTurned`) and one per action (`NextFlows`).

### Only model-checked

The liveness properties, which are outside the prover's reach. Every invariant of the passing runs is
stated by a theorem.

## 5. Not modelled, and why

*Of the modelled components*

* Overflow of `td_qpec`, and of `ticks + lag` in `NutTimerCreate` (`TimerAssumption`
  excludes it); conversion of milliseconds to ticks; the clock and delay functions.
* Stacks, register frames and the interrupt-disable mechanism: a critical section is
  a step.
* `NutThreadKill` and `NutThreadDestroy` called by an application directly; their
  comments reserve them for the system. They are part of `NutThreadExit` and
  `IdleLoop`. Failure of `NutThreadCreate` (nothing changes).
* Callbacks in `NutKernel` are the kernel's own two; arbitrary ones are in `NutTimer`.
* A waiter that inherits an event behind the scan of `NutThreadResume` may be timed out in the
  same call, and a broadcast that meets pending events leaves the queue signaled:
  `EventQueue` allows both, as the code does.
* `NutConditionInit` and `NutConditionFree`. `NutConditionWait` waits on an arbitrary root
  (`Stray`, `condition.c:133`), and no property speaks of it.
* `NutMsgQBroadcast`; two readers of one queue, of which the second may read an empty ring
  (`msg.c:389`, guarded by an assertion only); a flush while somebody
  waits or has been woken and did not run yet (`msg.c:432`).
* Statistics, debug lists and guard patterns of the heap. Blocks shorter than
  NUTMEM_HEAPNODE_MIN, which an 8-bit target with guard bytes can have (`heap.c:649`).
* `arpin.c` and `arpout.c` but for their effect.
* TCP options, several sockets, several segments in flight per direction, round trip
  times, sequence numbers that wrap, the buffered device interface. There is no persist
  timer in the code: that a sender with a closed window goes on depends on an update that is not
  lost, so no liveness of the transfer is stated. A reader woken by an abort may find
  `so_rx_cnt` without a buffer (`tcpsm.c:1860`): the application is then at `"fault"`,
  where it stays.

* PPP options, addresses and echoes, the reply to a peer that authenticates itself, protocol
  rejects (`LcpRxProtRej` and `IpcpRxProtRej` have no caller) and the frame format.
  What the model shows of PPP beyond its properties: `NutNetIfConfig` called while IPCP is
  open waits in vain for a state change (`ifconfig.c:361`): the layer was up at the broadcast
  (354) and stays so, which `early` records and `NobodyWaitsInVain` leaves out; an
  authentication that times out sets LCP to STOPPED even if the lower layer is down,
  after which `LcpLowerUp` does nothing (`pppsm.c:165`); `PapTxAuthReq` counts
  `dcb_reqid` once more, so that another layer's request that is resent in the same
  round carries an id its acknowledgement cannot match (`papout.c:215`).

*Other components.* Device drivers and the C library are register I/O and
sequential functions. The application protocols and most of the file systems parse and
format. UDP and ICMP are queues of datagrams with one event each. The segment buffer
(`bankmem.c`) is worth a model of its own, see below. Host tools, boot loaders and sample programs are not part of the running system.

## 6. Plan

1. (done) kernel, timers and their abstract specifications; the services and the heap;
   ARP; a TCP connection; a PPP link; the DHCP client; proofs of the kernel's invariants and of
   its refinement of `EventQueue`, of the timers' of `TimerService`, of the heap's of `Allocator`, of the invariants of the synchronisation objects, the heap,
   the ARP cache, the PPP link, the DHCP client, the message queues and the TCP connection.
2. PPP with two nodes of this code instead of an arbitrary peer: both reach OPENED
   over a line that loses packets, restart of one end.
3. `SegBuf` with a producer and a consumer that is interrupted; PNUT's block lists.
4. Proofs: what a socket that starts with a skewed stream may still rely on; the new parts above.
