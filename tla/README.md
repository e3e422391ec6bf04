# TLA+ models of MVAPICH2's InfiniBand channel

MVAPICH2 is an MPI library: MPICH2's CH3 device with a channel of its own ("mrail", in its
`gen2` flavour) that moves messages over InfiniBand verbs. This directory holds TLA+
specifications of the parts of it that carry its own concurrency and its own protocols, TLC
configurations that check them on small instances, and proofs that TLAPS checks for all
instances. File names without a path below are in `src/src/mpid/ch3/channels/mrail/src/gen2/`
unless another directory is named.

## 1. Inventory: the system's parts

| component | state it keeps | operations | talks to | what is hard, what must hold |
|---|---|---|---|---|
| Connection manager (`cm.c`) | state of every virtual connection (VC), queue pairs, list of pending requests and replies, `new_conn_complete` | `CM_Connect`, request and reply handlers, `CM_Establish`, timer | progress engine (shared flag, lock), remote connection managers (unreliable datagrams) | three threads, lost and repeated datagrams, crossing requests; roles agree, pairs match, no queued message is stranded |
| Progress engine and send paths (`rdma/ch3_progress.c`, `rdma/ch3_istart*.c`, `rdma/ch3_isend*.c`) | per-VC send queues | send now or queue, flush on connect, receive | all transports, CH3 | order between queued and direct messages |
| UD transport (`ibv_ud.c`, `channels/common/include/mv2_ud*.h`, `channels/common/src/.../mv2_ud*.c`) | per-VC sequence numbers, send window, extended window, receive window, acks | send, acknowledge, receive in or out of order, resend on timeout | datagram QP, progress engine | 16-bit sequence numbers that wrap, loss, repetition, reordering; exactly-once in-order delivery |
| RC flow control (`ibv_send.c`, `ibv_recv.c`, `rdma_impl.h`) | credits, backlog queue, preposted receives, piggybacked credits, extended send queue | post or backlog, NOOP credit updates, repost, drain | completion queue | credits never overrun the peer's receives, neither side waits for ever for credits |
| RDMA fast path and reordering (`ibv_channel_manager.c`, `vbuf.c`, `vbuf.h`) | rings of vbufs with head/tail flags, sequence numbers over rails | RDMA write into a slot, poll the head, free a slot, process in order | RC flow control | slots are never overwritten, messages of several rails are ordered |
| Rendezvous (`ibv_rndv.c`, `rdma/ch3_rndvtransfer.c`, `rdma/mpid_mrail_rndv.c`) | request state, registrations, R3 segments | RTS, CTS, put/get, finish | registration cache, RC | finish after data, both protocols agree |
| Registration cache (`channels/common/src/reg_cache/dreg.c`) | AVL tree of registered ranges, reference counts, LRU | register, unregister, evict, unmap hook | memory hooks | no stale registration is used |
| Shared-memory channel (`rdma/ch3_smp_progress.c`) | per-pair circular queues and buffer pools in shared memory | write, poll, free | progress engine | memory ordering, wrap-around |
| Checkpoint/restart (`cr.c`, `cm.c` suspend/reactivate) | CR state of process and VC | suspend, drain, reactivate | connection manager, mpirun | nothing in flight at a checkpoint, no thread waits on another |
| CH3 receive queues (`src/src/mpid/ch3/src/ch3u_recvq.c`) | posted and unexpected queues | post, probe, match, cancel | packet handlers | MPI matching order; a message matches one receive |
| CH3 packet handlers, cancel, rendezvous state (`ch3u_eager.c`, `ch3u_rndv.c`, `mpid_cancel_send.c`, `ch3u_handle_*`) | request objects and completion counters | send, cancel, reply | receive queues, channel | a cancel races with a match |
| CH3 VC close (`ch3u_handle_connection.c`, `mpid_vc.c`) | VC state machine, reference counts | close, close ack, terminate | channel | two sides closing at once |
| CH3 RMA (`ch3u_rma_ops.c`, `ch3u_rma_sync.c`, `rdma_iba_1sc.c`) | window lock, lock queue, op lists, counters | put/get/accumulate, fence, post-start-complete-wait, lock/unlock | channel | lock grants are exclusive, no lost grant |
| Process manager (`src/src/pm/mpirun/`) | m_state machine, work queue, thread pool, spawn tree, PMI key-value store and barrier | launch, wait, abort, checkpoint, PMI requests | MPI processes, signals | signals against threads, abort once, barrier completes |
| Start-up (`ring_startup.c`, `rdma_iba_init.c`, `ibv_param.c`, `rdma_cm.c`) | parameters, ring QPs, rdma_cm events | initial exchange | PMI, verbs | one-time initialisation |
| LiMIC2 module (`limic2-0.5.5/module`) | kernel descriptors of user buffers | map, copy | SMP channel | kernel code over Linux APIs |
| Upper layers and vendored code (MPI bindings, collectives, datatypes, ROMIO, hwloc, MPE2, OpenPA, other channels and process managers) | - | - | - | inherited from MPICH2 or third parties; sequential algorithms over the layers above |

Shared-memory queues, close, window locks and the process manager come from MPICH2 and from
MVAPICH2's own launcher; the rest of the table is this channel. What the modules below do not
reach is listed in section 13.

## 2. The modules

One module per component, each with a module `MC<name>` that gives it small instances and a
configuration per run. A module describes one behaviour of its environment at a time with a
variable that never changes (`load`, `plan`, `script`, `faults`, `useCoalesce`), so that one
run covers all the situations of its component.

| module | models | run | theorems |
|---|---|---|---|
| `FifoChannels` | what a transport promises: every message once, in order | (as a property) | |
| `ConnMgr` | on-demand connections over RC | `conn_two` | `ConnMgrProofs` |
| `UdWindow` | the sliding window over datagrams | `ud_wrap`, `ud_first` | `UdWindowProofs` |
| `CreditFlow` | credits and backlogs of RC | `credit_two`, `credit_server` | `CreditFlowProofs` |
| `SendQueue` | work requests, coalescing, striped rendezvous writes | `sendq_rails` | `SendQueueProofs` |
| `FastPath` | the RDMA ring | `fast_ring` | `FastPathProofs` |
| `SmpQueue` | the ring and buffers in shared memory | `smp_ring` | |
| `VcClose` | the close protocol and `MPID_Finalize` | `close_all` | `VcCloseProofs` |
| `WinLock` | the lock of an RMA window | `win_queue` | `WinLockProofs` |
| `PmiTree` | keys, barriers and names over the tree of mpispawns | `pmi_rounds` | `ProcessManagerProofs` |
| `JobLife` | the life of a job, as the user of mpirun_rsh sees it | (as a property) | |
| `Launcher` | the threads of mpirun_rsh and mpispawn | `launch_faults` | `ProcessManagerProofs` |

`ConnMgr` and `UdWindow` implement `FifoChannels`, `Launcher` implements `JobLife`. `ConnMgr`
brings up the connections that `CreditFlow`, `SendQueue` and `FastPath` then use; their models
meet at the numbers of messages (`seqnum_next_tosend`, `seqnum_next_torecv`): each shows that
its part keeps or restores their order. `VcClose` and `WinLock` take the channel below for
granted: a FIFO queue per pair.

## 3. ConnMgr: the connection manager

A process opens no connection to a peer before it first sends to it. The first sender
becomes client: it makes a queue pair, sends a request over an unreliable datagram QP and
puts an entry on a pending list, whose entries a timer thread sends again until they are
removed. The peer's completion thread makes a queue pair, moves it to RTR, replies and
becomes server; the reply makes the client connected (RTS). The server learns that the reply
has arrived from the first message on the new connection (`CM_Establish`). If two requests
cross, ranks are compared and one side, with its queue pair already made, turns server.

Correspondence, by variable and action (`PROJECT.json`'s map gives the lines):

- `chState`, `qp`, `qpn`, `remoteQpn`: `vc->ch.state`, the RC queue pair's verbs state, which
  queue pair it is, and which peer queue pair it was moved to RTR with. `pendCli`, `pendSrv`:
  the entries of `cm_pending_head` by kind. `newConn`: `new_conn_complete`.
- The main thread: `MPIDI_CH3_iSend` reads the state *without* the lock and remembers in
  `connecting` that it is about to call `CM_Connect`, which takes the lock and tests again;
  between the two the completion thread may act. `NewConnComplete` and
  `cm_handle_pending_send` are the progress engine's poll of the flag and its walk over all
  VCs, one VC a step. `ReadProgress` receives a message and establishes a server's VC.
- The completion thread: `cm_handle_REQ` and `cm_handle_REP`, each one critical section, but
  for `cm_enable`, which sets the VC's state and only then the flag (`cmBusy`), because main
  reads both without the lock.
- The timer thread: `TimerCheck` and `TimerTick`; `SignalTimer` is the condition variable.
- The network: `Exchange` leaves a copy behind or not, `LoseDatagram` drops; a set of
  datagrams has no order.

Run: `conn_two` (two ranks that send to each other, three messages each way: enough for
messages queued before the connection, posted directly and queued behind others at once; safety
and liveness). The message bound `MaxMsgs` is the only bound: everything else is finite by
itself, as the proofs confirm (no more than one queue pair is ever made per VC). What a third
rank adds, one process in two handshakes that share the flag, the timer, the pending list and
the connect call, is left to the proofs, which hold for any number of ranks.

Fairness (`Fairness`), for `Delivery` only: threads are scheduled, a process that expects
messages polls; the timer resends all expired entries infinitely often; and strong fairness
on handling a kind of datagram says that a datagram sent for ever is received at some time.
Loss is not limited otherwise. Sending is not fair: the program need not send.

What is proved (`ConnMgrProofs`), for every set of ranks, pattern of
communication and number of messages: type correctness (`TypeOK`), that the ends agree on
their roles (`RolesAgree`), that sends are posted on queue pairs in RTS (`PostedOnRTS`), that
the timer never sleeps on a pending entry (`TimerArmed`), the invariants of the run, and that
`ConnMgr` implements `FifoChannels`. The inductive invariant `IInv` ties the pending entries,
the queue pair and every datagram on the wire to the VC's state. `RolesAgree` alone is not
inductive: the step that accepts a reply must know that its sender is still a server or
connected (`DatagramsMatchState`), and the one that accepts a crossing request must know that
its sender, who has the larger rank, cannot have turned server too. For the refinement,
`Contiguous` says that what is posted and what is queued are, together, consecutive numbers.
Liveness stays with TLC.

Not modelled: XRC, RDMA-CM, VCs without a process group (raw requests), several rails,
checkpointing, and finalisation.

## 4. UdWindow: the window over unreliable datagrams

With `MV2_USE_ONLY_UD`, and on every VC of the hybrid channel until it has an RC queue pair,
messages travel over one datagram queue pair. A message gets a 16-bit sequence number when it is
posted and stays in the sender's send window until it is acknowledged; a message that finds the
window full, or others waiting, waits in the extended window without a number. The receiver handles
the next number at once, keeps those just ahead in its receive window and drops the rest. Every
message carries an acknowledgement; a receiver that has nothing to send acknowledges explicitly when
too many messages have come in, or on the next timeout, which also sends again what is in the
window.

Correspondence:

- `nextSend`, `nextRecv`, `nextAck` are `seqnum_next_tosend`, `seqnum_next_torecv` and
  `seqnum_next_toack` modulo `SeqMod`, which stands for 2^16. `sendWin`, `extWin`, `recvWin` are the
  three windows, `ackDue` and `ackPending` what decides on explicit acks. `net` is the set of
  datagrams on the wire. A datagram also has the true number of its message (`n`, 0 in an explicit
  ack) and of the messages its sender had received (`got`), which the code has not: no guard of an
  operation reads them, the life time of datagrams and the properties do.
- `post_ud_send` is the function of that name; `MRAILI_Process_recv` is what `ibv_recv.c` and
  `mv2_ud_inline.h` do with a datagram: process its ack, flush the extended window, perhaps
  acknowledge explicitly, place the message. `DrainRecvWindow` is one turn of the loop at the end of
  `mv2_ud_place_recvwin`; the handler of each message may send, so a send can come between two
  turns, and no receipt or timeout can. `ProgressTimeout` is `UD_ACK_PROGRESS_TIMEOUT` with any set
  of expired vbufs.
- The circular comparisons are the code's: `InclBetween` is `INCL_BETWEEN`, and the end of the
  receive window is taken modulo 65535, not 65536, as in `RECV_WINDOW`.

Assumption. A datagram does not live for ever (`Lifetime`, counted in later messages of the same
connection): numbers that come round would be confused otherwise, in the code too. The code has no
such bound of its own; with 2^16 numbers and the default windows of a few hundred it amounts to a
datagram delayed by more than sixty thousand messages.

All three numbers start at 0: `vc->mrail` is cleared (`rdma_iba_init.c:1124`, and 264 without the
connection manager) before `MRAILI_Init_vc` sets two of them. For `nextAck` that is a value with a
meaning, "message 0 has been received", which every datagram carries until message 0 has been. The
finding below is what comes of it, and the properties are about what holds nevertheless.

Runs and bounds. `ud_wrap`: 8 messages one way with 7 sequence numbers, so numbers wrap while old
datagrams and acks are about, or two one way and one the other, so that acks travel on messages too;
windows of 2 (the send window one more by the code's comparison), so the extended window and the
receive window fill; at most `NetCap` datagrams on the wire for a voluntary send. A receipt is never
stopped by `NetCap`, and neither is a timeout: it then loses one of the others (`StillUnderWay`), as
the wire may. `ud_first` has three messages one way, windows of 1 and 2, and finds `NoFalseAck`
violated in five steps.

Properties. `OnlyFirstEarly` is `NoFalseAck` but for the first message: at no later time does a
wrapped, old or repeated ack release anything that the peer has not handled. `WindowsInStep`,
`NoStrandedExt` and `InOrder` hold as they stand, early release or not: the numbers stay right, and
what is lost is missing, not out of order. `EventuallyAcked` says that all is acknowledged again and
again, unless the first message has been released and lost (`FirstLost`), after which the connection
stands still: the later messages are resent and kept or dropped by the receiver, which waits for
number 0, until the sender gives up.

Fairness, for `EventuallyAcked`: a waiting process polls (weak fairness on the drain loop and on the
timeout that sends everything again); the next message, once on the wire, is received or lost; and
what is sent again and again, the oldest message of the send window and an ack that releases
something, is received some time (strong fairness).

Where the code departs from what is written about it:

- `ibv_ud.c:209` and 135 (run `ud_first`): an ack sent before anything was received releases the
  peer's message 0, although `mv2_ud_inline.h:25-26` says "We process this only if ackno had
  advanced". The shortest way is an explicit ack for an early message 1, but any message of the
  other side does it, when both begin to send at the same time. It matters only if message 0 is then
  lost.
- `mv2_ud_inline.h:62`: the send window takes one vbuf more than the maximum that `ibv_param.c:163`
  documents, as `SEND_WINDOW_CHECK` compares with `>`. It does no harm.

One observation that is not a finding: a duplicate or out-of-window datagram sets `ackDue`, but even
without that its acknowledgement would be sent, because every data message counts in `ackPending`.

Proved, in `UdWindowProofs`, for all window sizes, loads and numbers of sequence numbers that
`WindowAssumption` allows, from the code's initial state: `OnlyFirstEarly`, `WindowsInStep`,
`NoStrandedExt`, and that `UdWindow` implements `FifoChannels` (`InOrder`). The inductive invariant
`IInv` says what is known of a datagram that is still alive: its number and its ack are the rests of
true numbers that lie within `Lifetime` of where the receiver is (`DatagramOK`), so that the
circular comparisons of the code, which see the rests only, decide as if they saw the true numbers
(the lemmas on `InclBetween`, with `RECV_WINDOW`'s modulus one too small). The ack of a datagram
whose sender has received k messages covers k messages, or one if k is 0 (`Covered`): that is the
early release, and the whole of it. `OnlyFirstEarly` alone is not inductive: an old ack must be
known to be old. `EventuallyAcked` stays with TLC.

Not modelled: the datagram QP's own send queue and its extension (a delay, like the wire's), the
`SEND_INPROGRESS` flag of a vbuf whose completion has not been polled, giving up after
`rdma_ud_max_retry_count`, zero-copy rendezvous, and the switch of a VC from UD to RC.

## 5. CreditFlow: credits over reliable connections

Without a shared receive queue each queue pair has its own posted receives, and a message
that finds none makes the hardware stall the sender. So a sender counts what the peer has
posted (`remote_credit`), puts messages that have no credit into a backlog, and learns of new
receives from the headers of the peer's messages, or from a NOOP, which uses no credit. A
connection has one queue pair per rail, each with credits and a backlog of its own, but one
sequence of message numbers: a message that overtakes another on a different rail is queued
until its turn comes, and the credits in its header wait with it.

Correspondence:

- `remoteCredit`, `remoteCc`, `localCredit`, `preposts` and `backlog` are the fields of
  `vc->mrail.srp.credits[rail]`; `issued` is `seqnum_next_tosend` and `received` is
  `seqnum_next_torecv`, less one; `early` is the channel manager's `v_queue` of the rail;
  `wire` is what is posted to the queue pair (or waits in its extended send queue, which keeps
  the order) and not polled by the peer.
- `post_send` is the function of that name for a message with a number, on any rail: the
  rail policies choose it. `Cq_poll` is one receive completion: the receive is taken off
  `preposts`, receives are posted anew (one for a NOOP, which gains no credit; a batch up to
  `Needed` for a message), a NOOP is sent if `MRAILI_Send_noop_if_needed` says so, and the
  packet goes to the handler or the queue. `Handle` establishes a connection that was accepted
  on demand, `Parse_header` takes the credits and runs `MRAILI_Backlog_send`. `Waiting_msg`
  is the handling of a queued message whose turn has come. `blocked`: having queued an early
  message a process polls on, in `MPIDI_CH3I_MRAILI_Waiting_msg`, and sends nothing until a
  packet is handed up.
- The order inside `Cq_poll` matters and is the code's: the NOOP is decided upon with the
  state before the packet's own credits are read, and before the connection becomes IDLE.

Runs and bounds. The depths are scaled down (4 receives and one for NOOPs, 3 at first;
defaults are 64 and 8 or so) and keep the relations the code needs: a full set of receives
less the threshold for posting anew still reaches the threshold for a NOOP. Five messages one
way need two rounds of credits, so the backlog fills and empties and NOOPs are sent. `credit_two`
has two rails, where credits are held up in early messages, five messages one way and one the
other, between ends that are both IDLE; `credit_server` has one end that accepted the connection
on demand. Credits are `uint8_t`: `DepthAssumption` asks for fewer than 256 receives, which the code does
not enforce, and `TypeOK` shows that nothing exceeds a byte then.

Fairness, for `EventuallyHandled`: a waiting process polls its completion
queues and its queues of early messages. Nothing is assumed of sending.

Finding `credit_server`: an end that accepted the connection on demand is not IDLE until it
hands a message up, and sends no NOOP before. If message 1 is late on one rail and the messages
on the other use up that rail's initial credits meanwhile, the NOOP that would return them is
suppressed, and nothing makes up for it: NOOPs are considered only when a packet arrives on
the rail. The sender's backlog then waits until the other end happens to send a message. With a
single rail the same happens with an initial depth of one. With two rails between ends that are both
IDLE (`credit_two`) everything is handled.

Proved, in `CreditFlowProofs`, for any rails, depths, thresholds and numbers of messages, from
`DepthAssumption` alone: `ReceiveQueueFits`, `BacklogWaitsForCredit`, `RailsInOrder`,
`CreditsMatchReceives` and `TypeOK` (whose bounds say that a byte holds each counter). The inductive
invariant `IInv` is the first two with the shape of counters and queues. The first rests on
`RepostedFits`: a batch stops at `Needed`, and one receive for a NOOP replaces the one it took.
The second rests on `ReleasedBounds`: `MRAILI_Backlog_send` leaves a message only when it has
used all credit; and on `post_send` queueing only without credit. `RailsInOrder` rests on `OrderInv`: what is
early, on the wire and in the backlog of a rail is one rising sequence, and a step moves a message
within that sequence, adds one at its end or takes the expected one off its front, which on no other
rail there can be. `CreditsMatchReceives` adds up the credit fields of the packets of a queue with
`SumFunction`; what that sum is of an empty queue, of one that grows and of one that loses its head is
proved from its definition, by an induction over finite sets that `CreditFlowProofs` derives from
their well-founded order. With it each action moves credit from one place of the sum to another.
`EventuallyHandled` is a liveness property and stays with TLC.

Not modelled here: the fast path and its credits (`FastPath`), coalescing and the count of send
WQEs (`SendQueue`), and the hybrid channel, where `MRAILI_RC_Enable` posts the first receives.
`rendezvous_packets_expected` is never set to anything but 0 in this channel, so `Needed` has
no term for it.

## 6. SendQueue: work requests, coalescing and striped rendezvous

A rail accepts `MaxWqe` work requests; what comes after waits in the rail's extended send queue
and is posted as completions are polled. With coalescing, small messages share a buffer: it is put
into an extended send queue *before* it is full and takes messages while it waits there. A
rendezvous by RDMA write puts its data on one rail or stripes it over all, and then a FINISH
packet on every rail; the receiver takes the data for complete when it has handled them all.

Correspondence: `rail[r]` is the extended queue (`ext_sendq_head`), what is posted and not
completed (`send_wqes_avail` is its complement) and the part of it the peer has not received.
`coalescing` is `coalesce_vbuf`, `outstanding` is `outstanding_eager_vbufs`. `Expected` and
`vqueue` are the channel manager's test of the number and its queues of early messages. `stripes`
and `written` are the RDMA writes that were queued and those that have arrived (the adapter's
work). The policies that choose a rail are a free choice. A message is named by CH3's sequence
number; the channel's own number is `num` in a buffer.

Run `sendq_rails`: two rails of two work requests, six messages or FINISH packets, buffers of two
messages, with coalescing and without; with these the extended queues fill on one rail while the
other is free, and a rendezvous finds the one full and the other empty. `InOrder` and
`NothingLeftBehind` are about the channel without coalescing, for the reason below. Fairness:
completions are polled, packets arrive, buffers that are filled are flushed when something
completes.

Where the code departs from what is written about it:

- `ibv_send.c:1052`: the coalesced buffer takes its number when it is flushed, and a message that
  is sent after it was begun, on another rail or too large for it, is numbered first, although
  `rdma/ch3_progress.c:1096-1099` says that order is kept: with coalescing TLC violates `InOrder`.
- `ibv_send.c:1314`: with `rdma_coalesce_threshold` 1, which `ibv_param.c:126-129` and `:1056`
  allow, the buffer that is being filled is the only thing left and nobody flushes it: `AllSent`
  fails. The run has a threshold of 2.
- `MRAILI_Coalesce_ok` tests `NULL == &(backlog)`, which is never true, so that messages are
  coalesced only with a shared receive queue; the model is of that case.

Proved, in `SendQueueProofs`, for any number of rails, work requests, messages per buffer and
messages: `DataBeforeFinish`, with coalescing and without, and without it `InOrder` and
`NothingLeftBehind`. The first invariant, `DataInv`, looks at all that a rail has to complete,
in order (`All`): as long as the data of a rendezvous is not written on a rail, its FINISH is behind it
there and nowhere else, wherever a coalesced buffer is inserted and however much is posted.
For the order, `OrderInv` says that on each rail the numbers on their way rise and that
each number from the expected one on is on exactly one rail (`Spread`). `AllSent` stays with TLC.

Not modelled: `force_rndv`, overflow of the completion queue, XRC, RDMA reads, packetized (R3)
rendezvous, one-sided operations.

## 7. FastPath: the ring written by RDMA

Small messages may be written into a ring of slots in the receiver's memory. The receiver polls a
slot's head flag and, where the length in it says, its tail flag. What the slot held from the lap
before is still there, so the sender, which has a copy of each slot, gives the flags an alternate
value whenever the word where the tail will be holds the same value already. Slots are handed up
and released in any order and given back in the order of the ring, as credits in the header of
other messages.

Correspondence: `slot` is the receiver's memory, `copy` and `flag` the sender's; `writes` is what
the adapters have of each slot, landing word by word in address order, slots in any order. `busy`
and `freed` are the padding fields of the two sides, `credit` is `rdma_credit`. A word of a message
may be anything, also what looks like a flag. Messages by the send/receive path go by `srWire`.

Run `fast_ring`: three slots, messages of one or two words, four messages: the ring wraps with a
shorter and a longer message over each other, and messages come by both paths out of order. Fairness:
writes land and the receiver polls its channels; nothing is assumed of releases and credits.

`AllHandled` needs no credits to return, as messages take the other path when the ring is full.
With a shared receive queue no NOOP is sent (`ibv_send.c:1645`), so credits of the ring return only
with messages of the program.

Proved, in `FastPathProofs`, for rings of any size, any lengths and words and any number of messages,
from `FastAssumption` alone: `FlagsMeanArrived`, `CreditsConserved`, `EachOnce` and `TypeOK`, and two
properties that no run names: `SlotTakenIsFree`, no message is written over one that the receiver
still needs, and `NothingStuck`, while messages are under way the next one is on the send/receive
path, at the head of a queue, or in the slot that is polled: the receiver's looking no further
than these finds it. None of them is inductive. The invariant is in three layers:

- `Core` says for each slot how its words, its flags, the sender's copy and the write under way fit
  together (`SlotOK`: a partial message has a word in its tail's place that differs from the head
  flag, and that is why `TailFlag` looks at the copy), and where the slots are on the ring
  (`RingAt`): counted from the last one given back, first those that the receiver holds, then those
  sent and not polled, then those free at the sender, and at last the credits on their way back. Each
  action moves one of the three borders; a release moves the first by `Run`, which is shown to give
  the longest row of released slots.
- `Mess` says that the numbers in the ring, on the wire and in the two queues are exactly those from
  `nextToRecv` to `nextToSend - 1`, each once. It needs `Core`: a slot is polled only when the number
  in it is that of the message sent.
- `Order` says that each path keeps its messages in order: from the queue of the ring on through the
  slots to be polled, and from the queue of the send/receive path on through the wire. `NothingStuck`
  follows: the least number is at a front.

`AllHandled` is a liveness property and stays with TLC.

Not modelled: the header cache, CRCs, the set of connections that are polled, the extended send
queue, the hybrid channel.

## 8. SmpQueue: the channel in shared memory

Between two processes of a node there is a ring in shared memory for packets and, in the memory of
each sender, a pool of buffers for long messages. Neither has a lock: the sender moves NEXT and the
counter IN, the receiver CURRENT and OUT, and a buffer changes hands by its `busy` flag.

Correspondence: `totalIn`, `totalOut`, `nextPos`, `current` are the fields of these names in
`rqueues_params` and `rqueues_msgs`; `mem` is the packets in the ring that are whole (a packet
written over another destroys it). `freeHead`, `qHead`, `qTail`, `link` are the lists of
`s_sh_buf_pool`, and `hasNext`, `busy`, `content` the buffer's fields. `CompareCounters` and the
operation after it are the two readings of the counters by `smpi_get_avail_length`; between them
the receiver may move on. (The second reading and the write are one step: the receiver can only
make room meanwhile.) A batch of buffers is filled one at a time (`FillBuffer`), while the receiver
frees those of the batch before.

Run `smp_ring`: a ring of 12 bytes beyond which one packet fits, three buffers, batches of two,
counters that are about to wrap at the start or not, and four messages: an eager one that is cut
in two by the end of the ring's room, long ones of up to four buffers, so that ring and pool both
fill. Fairness: both processes call the progress engine.

The code's difference of the counters once they have wrapped is one byte larger than the room, and
the packet that announces the first batch is written without a test for room; `PacketsIntact` holds
because every length is rounded down to lines and one line is kept back.

`MPIDI_CH3I_SMP_writev` (2078-2185) does not end if a segment fills the packet exactly and an empty
packet is left for a segment after it, which takes a message of three segments at least; the model
has messages of a header and one segment. Not modelled: LiMIC, checkpoints, one pool for several
receivers.

## 9. VcClose: closing connections

Both ends of a connection close it: `CLOSE(ack=FALSE)` begins, `CLOSE(ack=TRUE)` answers, and a
connection over the network is terminated when the completions of its CLOSE packets have been
polled. `MPID_Finalize` and `MPID_Comm_disconnect` wait for the closes they began.

Correspondence: `vcState` is `vc->state`, `closeOps` is `MPIDI_Outstanding_close_ops`,
`pendingOps` and `disconnect` are the fields of the VC, `uncompleted` the CLOSE packets whose
completion is not polled. A connection between processes of a node is INACTIVE until it is used
if connections are made on demand, and ACTIVE from the start otherwise
(`rdma_iba_init.c:579-595`), which the constant `InitActive` says. `Finalize` chooses whether a
communicator that was never freed still holds the connections. `Polls` tells where the main thread
receives: while it waits, and only as long as a close is outstanding.

Run `close_all`: three processes in a chain, 0 and 1 by a dynamic connection that may be
disconnected before, 1 and 2 on a node. Each may send one message before it finishes. Three
processes are needed for one that is between two closes. Fairness: every process goes on, polls and
is sent what was sent.

Where the code departs from what is written about it: `mpidi_pg.c:1255-1258` says that a connection
that was not used when the process finalizes rejects a later request (INACTIVE_CLOSED), and
`cm.c:43` makes it ACTIVE without a test; the request is accepted, and the peer waits for a close
that nobody answers. The program has to send a message nobody receives for that, which `Unmatched`
stands for; it is empty in the run.

Proved (`VcCloseProofs`), for any number of processes, any connections and any programs: `TypeOK`,
`PacketsExpected`, and that `MPIDI_Outstanding_close_ops` counts the closes begun and not terminated
(`OpsCountCloses`); for programs that receive all that is sent (`Unmatched = {}`), `QuietWhenDone` and
`PeersCanFinish`. The run has all of these properties on its instance. The argument is a diagram of
the two ends of one connection: they are always at one of eight stages (`Stage`), from `Open` by
`Begun`, `Asked` and `Answers`, or by `Crossed` and `BothAcked`, to `LastAck` and `Over`, each of which
says what is on either wire behind what. A stage needs to know that an end which
has begun to close sends no messages any more (`NoMoreSends`), which depends on the program: after
`MPID_Comm_disconnect` on that communicator, or in `MPID_Finalize`. `LastInv` adds that the last loop of
`MPID_Finalize` leaves nothing open behind it and that nothing makes a connection active
then, which is false with `Unmatched` messages, for the reason above. `AllFinish` stays with TLC.

Not modelled: failures (MORIBUND), XRC, reference counts of process groups, use of a connection
after a disconnect.

## 10. WinLock: the lock of a window

`MPI_Win_lock` at a remote window asks its target, which grants, or queues the request; a release
goes through the queue. Operations may come in one packet with the lock, in several after it, or
from the target's own program. A request may be granted in four places: the packet's handler, the
completion of the data of a queued put, the loop of a release, and the target's own lock.

Correspondence: `win` holds `current_lock_type`, `shared_lock_ref_cnt`, the operations under way,
`lock_queue`, and the static variables of `MPIDI_CH3I_Release_lock`, which is called again from
inside its own loop by an operation that completes there. The loop runs in steps; it receives
nothing except where it waits for operations.

An epoch with several packets has a last operation, whose completion releases the lock, and may have
one before it (`several`), which can complete before the last packet comes, before the last
operation is complete, or, for a rendezvous put, after it: `outstanding_rma` then falls below zero
for a while, because only the last packet adds the epoch's operations to it (`rma_issued`). A
lock-accumulate-unlock (`accs`) is queued whatever the lock.

Run `win_queue`: five epochs, one of them the target's own, in three plans: all exclusive, with a
put whose data comes late, a get whose response completes inside the loop or later, and an epoch of
two operations; one exclusive among shared ones, with an accumulate; two exclusive among shared
ones, with a shared get. With five, a shared one and an exclusive one wait behind one another while
two shared ones hold the lock. Each epoch runs once. Fairness: the target goes on and polls, an
origin ends what it has begun.

Two places of the code depart from its comments, and the properties say what holds until one of them
is reached:

- `ch3u_handle_recv_req.c:1355`: before it goes through the queue a release marks the window
  unlocked, whatever has been granted since it decided to: by a handler, while it waits for
  operations that are still under way (1335-1351), or by the loop itself, which is repeated when a
  shared get has completed inside it. From then on (`forgot`) an exclusive request may be granted
  beside a holder, against the rules in `ch3u_handle_recv_pkt.c:555-562`, and a holder's release may
  find no lock and release nothing. `MutualExclusion` and `AllServed` are about behaviours without
  this; with epochs of one operation and no shared get nothing of the kind can happen.
- `ch3u_handle_recv_req.c:1502`: when a ready request cannot be granted, an exclusive one behind a
  shared one that has just been, the pointer stays where it is (it moves on only with locks in
  shared memory), and the loop never ends (`Spins`), although the comment at 1357-1360 promises to
  grant "all other shared locks". `AllServed` makes an exception of it.

`QueueSatisfied` has no exception: when a release has returned, no request that is ready is left
that could be granted.

Proved (`WinLockProofs`), for any number of epochs and any plans that `EpochsAssumption` allows, so
for any mix of the kinds of epochs: `MutualExclusion` and `QueueSatisfied`. The inductive invariant
has three parts. `QInv` is about the queue alone and does not depend on the lock being right: it
holds each waiting epoch once, a call inside the loop has always been answered by a repetition
(`RepeatInv`), and the loop has passed over nothing that was ready (`PassedInv`). `CountInv` says
what `outstanding_rma` counts: the epochs whose last operation is under way, those whose last packet
has come and whose earlier operation is not complete, less those whose earlier operation was
complete before the last packet came. `LockInv` says that the type and the count of shared locks fit
the epochs that hold the lock, as long as no release has marked a locked window unlocked. The counts
are cardinalities, so that the last of several shared holders is the one that starts the loop. That
a release which has waited for `outstanding_rma` to be zero finds no operation of an epoch that is
done still under way needs all three.

One window is modelled, although `entered_flag` and `entered_count` (1049-1050) are shared by all
windows of a process.

Not modelled: windows whose lock is in shared memory, fence and post/start/complete/wait, the data.

## 11. PmiTree: keys, barriers and names

The mpispawns of the nodes form a tree. A key put by a process is remembered at its node; the keys
of a subtree go up in one bunch when their number is that of its processes, and the root sends all
down again. Barriers and the end are counted up the tree and announced down. A get is answered at
the node, so that every key must have come down before the barrier does. Names go up to the root hop
by hop, and the answer back to whoever asked.

Correspondence: `link` is one side of a socket; `kvs`, `puts`, `barrier`, `reqs` are `kv_cache`,
`kv_pending_puts`, `barrier_count`, `pending_req_head`. `parse_str` has an action for each command;
a get of a key that is not there ends the mpispawn, as in the code. A message between mpispawns must
have a header: one without (`Bare`) makes the reader lose its place.

Run `pmi_rounds`: a chain of three mpispawns (so that one of them is neither root nor leaf) with
four processes, two of them on one node, and four scripts: a round of keys, an urgent key of one
process, names published at the root, and one published at a leaf. Fairness: each mpispawn serves
all of its sockets, each process makes its calls.

Proved (`ProcessManagerProofs`): `BarrierHolds`, for any number of mpispawns and degree of the tree,
any processes on any nodes, and any scripts in which all processes make the same collective calls in
the same order (`CollectivesAssumption`; PMI demands it, and `barrier_count` serves barriers and the
end alike, so that without it one process's finalize would let another out of a barrier). Puts, gets
and names may be anywhere in between, whether or not the keys come in the numbers that
`check_pending_puts` wants. `BarrierHolds` alone is not inductive, because an mpispawn knows only a
count. `PInv` says what the count means. Its part `Rounds` gives every mpispawn the number of times
it has released those below it: one that was told has released as often as the one above it, one
whose message is on the way down once less; `barrier_count` is the number of those below that have
entered and whose message is on the link neither way; and the root has released each at most one
time more than it has left, and then only if it has entered. `LinksInv` says that a link carries at
most one such message and that what belongs to the request of a process is nowhere else, so that an
answer which is not a collective one ends no collective call. The step that matters is the root's
(`RootRound`): when its count is full, every process in the tree has entered, by induction from the
root down (`AllAreIn`). The number of collective calls becomes that of barriers in `BarriersMatch`,
by an injection between the calls of two processes. `PutsCommitted` and `NamesFound` stay with TLC:
they hold for scripts that put the right numbers of keys or use a name with a barrier between, which
would have to be assumed.

Where the code departs from what is written about it:

- `pmi_tree.c:401` compares the number of keys with `!=`: a second key of one process before the
  barrier passes the number, the bunch stays, and a get ends the mpispawn, although
  `src/src/include/pmi.h:366` promises that a committed key can be got. The scripts put one key a
  process and round, as MVAPICH2 itself does.
- `pmi_tree.c:863`: the root answers a publication or its withdrawal without a header also when it
  was passed up by a child, which never gets on; `src/test/mpi/spawn/namepub.c:40-44` expects
  success. In the script that publishes at the leaf this happens, nothing is answered any more, and
  `AllAnswered` makes an exception of just this state (`AnswerMisread`).

Not modelled: building the tree, spawning, the aggregation of checkpoints, end of file on a socket,
the type field that is left uninitialised in answers to lookups.

## 12. Launcher and JobLife: the life of a job

mpirun_rsh starts an mpispawn on each node and reports one exit code. Three of its threads move the
state of the job: main, `wfe_thread` (check-ins, then reports of failures) and the signal thread
(SIGCHLD and the user's interrupt). Each mpispawn forks the processes of its node and reaps them in
a signal thread of its own. `JobLife` is what all of this promises: the state goes from nothing to
launch to run to exit or error, an ended job stays ended, and a failure is not turned into success.

Correspondence: the variables of mpirun_rsh and mpispawn are named as in the code; a thread's place
is `main`, `wfe`, `sig`, `sp[s]`, `hand[s]`. `m_state_transition`, `m_state_exit` and `m_state_fail`
are the functions of `m_state.c` under its mutex. `backlog` is the queue of connections on
mpirun_rsh's socket. The tree of mpispawns is abstracted to its presence, finalization of the
processes to one step.

`alarm_handler` may ring at any time of the launch (a limit that is always set, except under a
debugger), and later if the user sets a limit for the job.

Run `launch_faults`: two mpispawns with a process each, and four sets of faults, any of which may
happen at any time: processes are killed and ssh fails; processes exit with another code than zero,
the user interrupts or limits the time; processes are killed before their pids are stored; processes
exit with zero before they finalize or before their pids are stored. Fairness: threads run, signals
are delivered, sockets are served, processes end after they have finalized, and the launch's alarm
rings at last. The user's limit of time is not relied on.

Proved (`ProcessManagerProofs`), for any number of mpispawns and processes and any faults: the job's
state changes as `JobLife` has it, and `KilledIsFailure`. The first proof maps every action to a
step of `JobLife` or to none; it rests on `m_state_transition` testing the old state under the
mutex. The second rests on `IInv`: an mpispawn that has reaped a killed process has ended with a
failure; what mpirun_rsh has reaped with a failure it has recorded; and a job that has ended with
success has reaped all of its mpispawns, none of which exits with zero before all processes have
finalized. `ProcessManagerProofs` extends `PmiTree` and `Launcher` both, whose initial states, steps
and specifications therefore have names of their own (`JobInit`, `JobNext`, `JobSpec`).

Exceptions that the properties make, because the code departs from what its comments say:

- `mpispawn.c:506`: an mpispawn that reported a code other than zero (comment at 565) itself exits
  with success; mpirun_rsh reaps it, cancels the wfe thread, and may return success without having
  read the report. `KilledIsFailure` therefore leaves out jobs in which processes also exit by
  themselves with a code other than zero ("nonzero"), and those with "early" or "unstored": an
  mpispawn whose processes have ended may exit with zero before mpirun_rsh has forked the next, and
  counts as the last.
- `mpispawn.c:292`: a process reaped before its pid is stored is reported by nobody ("unstored"),
  whatever its end. Its mpispawn then waits for it to connect, and mpirun_rsh for the mpispawn:
  `JobEnds` names this state (`WaitsInVain`). The launch's alarm does not help, because the job
  counts as running once all mpispawns have checked in.
- `mpispawn.c:547`: an mpispawn 0 whose processes have all exited with zero before they finalized
  ("early") exits with zero, and the others wait for the addresses it should send on: the second
  half of `WaitsInVain`.

Two more that no property excludes:

- `wfe_mpirun.c:150`: if all mpispawns have exited with success before the wfe thread moves the
  state to M_RUN, it takes M_EXIT for an error (comment in `mpirun_rsh.c:2346`: "exit mpirun_rsh
  cleanly").
- `mpirun_rsh.c:2494`: a report made while others check in is read as a check-in (comment in
  `wfe_mpirun.c:142`), its code as an id; the job fails all the same.

`mpispawn_abort` is one step, although `process_cleanup` sleeps twice for a second while the other
thread of the mpispawn runs: that one can only abort too, and `process_cleanup` runs once.
`m_state_fail` is one step although it writes the exit code before it takes the mutex for the state:
nothing else writes the code. The tree of mpispawns is a star, in which the end of a neighbour is
seen by the root or by all others.

Not modelled: checkpoints, dynamic processes (whose loop in `child_handler`,
`mpirun_rsh.c:2371-2386`, goes on with a list element it has freed), the debugger, the launch by a
tree, `cleanup`.

## 13. What is proved, what is only checked, what is not modelled

Proved with TLAPS for all values of the constants (and under the hypotheses named in the sections
above):

| module | theorems about | stays with TLC |
|---|---|---|
| `ConnMgr` | `NoAbort`, `SendersArePaired`, `NoStrandedSend`, refinement of `FifoChannels` | `Delivery` |
| `UdWindow` | `OnlyFirstEarly`, `WindowsInStep`, `NoStrandedExt`, refinement of `FifoChannels` | `EventuallyAcked` |
| `CreditFlow` | `ReceiveQueueFits`, `BacklogWaitsForCredit`, `RailsInOrder`, `CreditsMatchReceives` | `EventuallyHandled` |
| `FastPath` | `FlagsMeanArrived`, `CreditsConserved`, `EachOnce`, `SlotTakenIsFree`, `NothingStuck` | `AllHandled` |
| `SendQueue` | `DataBeforeFinish`, `InOrder`, `NothingLeftBehind` | `AllSent` |
| `VcClose` | `PacketsExpected`, `QuietWhenDone`, `PeersCanFinish` | `AllFinish` |
| `WinLock` | `MutualExclusion`, `QueueSatisfied` | `AllServed` |
| `Launcher` | refinement of `JobLife`, `KilledIsFailure` | `JobEnds` |
| `PmiTree` | `BarrierHolds` | `PutsCommitted`, `NamesFound`, `AllAnswered` |
| `SmpQueue` | - | all |

Liveness stays with TLC because TLAPS has no rule for fairness. The induction theorems of the library
take an operator and cannot be used; where an induction is needed (sums over queues in `CreditFlow`
and `FastPath`, the depth of the tree in `PmiTree`) it is derived from `FS_StrictSubsetOrderingWellFounded` and `WFMin`, which take none.

Not modelled:

- Suspend and reactivate for checkpoints, raw requests of dynamic processes, XRC, and the switch of
  the hybrid channel from UD to RC. They change what the connection manager's states mean and would
  be a model of their own.
- Receive queues, cancel and eager or rendezvous packets of CH3, the registration cache: sequential
  code over lists and trees, whose correctness is in data structures rather than in interleavings.
- Fence, post/start/complete/wait and the data of one-sided operations.
- Start-up, LiMIC2 (kernel code over Linux APIs), MPI bindings, collectives, ROMIO, hwloc, MPE2 and
  the other channels and process managers in the tree: inherited from MPICH2 or from third parties.
