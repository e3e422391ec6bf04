----------------------------- MODULE CreditFlow -----------------------------
(***************************************************************************)
(* Credit-based flow control of one virtual connection over reliable       *)
(* connected queue pairs without a shared receive queue (post_send and     *)
(* MRAILI_Backlog_send in ibv_send.c, Cq_poll in ibv_channel_manager.c,    *)
(* Parse_header in ibv_recv.c).                                            *)
(*                                                                         *)
(* A connection has one queue pair per rail, each of them FIFO, and each   *)
(* with credits of its own: a message is posted to a rail only if the peer *)
(* has told of a receive for it, and waits in the rail's backlog           *)
(* otherwise.  Credits travel in the headers of messages, and in NOOPs,    *)
(* which need no credit themselves.  Messages of all rails are handled in  *)
(* one order, by number; one that is early waits, and so do its credits.   *)
(*                                                                         *)
(* All steps are taken by the main thread of a process.  The fast path,    *)
(* coalescing, and the send queue with its extension (which keeps the      *)
(* order of a rail and is part of wire) are left out.  Message numbers are *)
(* only compared for equality, so their wrap-around is left out as well.   *)
(***************************************************************************)
EXTENDS Integers, Sequences, FiniteSetsExt

CONSTANTS
    Rails,             \* queue pairs of the connection
    Unestablished,     \* the end, if any, that accepted the connection on demand
                       \* and awaits the first message to become idle
    InitialPrepost,    \* rdma_initial_prepost_depth
    PrepostDepth,      \* rdma_prepost_depth
    NoopExtra,         \* rdma_prepost_noop_extra
    RendezvousExtra,   \* rdma_prepost_rendezvous_extra
    PrepostThreshold,  \* rdma_prepost_threshold
    DynamicThreshold,  \* rdma_dynamic_credit_threshold
    NotifyThreshold,   \* rdma_credit_notify_threshold
    CreditPreserve,    \* rdma_credit_preserve
    MaxMsgs            \* MaxMsgs[p]: bound on the messages p sends

Ends == {0, 1}
Peer(p) == 1 - p

\* A new connection starts with fewer credits than receives; the rest is for NOOPs.
InitialCredits ==
    IF InitialPrepost <= NoopExtra THEN InitialPrepost ELSE InitialPrepost - NoopExtra
\* The receives kept posted on a connection in use.  (rendezvous_packets_expected,
\* which would raise it, is never set in this channel.)
Needed == PrepostDepth + NoopExtra
RqSize == PrepostDepth + RendezvousExtra + NoopExtra

\* Credits are uint8_t in the code.
ASSUME DepthAssumption ==
    /\ InitialPrepost \in Nat \ {0} /\ PrepostDepth \in Nat \ {0}
    /\ NoopExtra \in Nat /\ RendezvousExtra \in Nat /\ PrepostThreshold \in Nat
    /\ RqSize < 256 /\ InitialPrepost <= RqSize
ASSUME ThresholdAssumption ==
    /\ DynamicThreshold \in Nat \ {0} /\ NotifyThreshold \in Nat \ {0}
    /\ CreditPreserve \in Nat
ASSUME EndsAssumption ==
    /\ Unestablished \subseteq Ends /\ Unestablished # Ends
    /\ MaxMsgs \in [Ends -> Nat]

VARIABLES
    issued,        \* issued[p]: messages p has numbered (seqnum_next_tosend)
    received,      \* received[p]: the last message p has handled (seqnum_next_torecv)
    remoteCredit,  \* remoteCredit[p][r]: messages p may still post on rail r
    remoteCc,      \* remoteCc[p][r]: the peer's remote_credit when it last told
    localCredit,   \* localCredit[p][r]: receives p has not told the peer of
    preposts,      \* preposts[p][r]: receives p has posted
    backlog,       \* backlog[p][r]: numbered messages that wait for credit
    wire,          \* wire[p][r]: what p has posted and the peer not polled
    early,         \* early[p][r]: polled by p before its turn (v_queue)
    idle,          \* vc->ch.state is IDLE
    blocked        \* p polls in Waiting_msg until the next message arrives

creditVars == <<remoteCredit, remoteCc, localCredit, preposts>>
vars == <<issued, received, creditVars, backlog, wire, early, idle, blocked>>

\* A packet: the message's number, 0 for a NOOP, and the credit fields of its header.
Packet == [n : Nat, vbufCredit : Nat, remoteCredit : Nat]
IsNoop(m) == m.n = 0

PerRail(S) == [Ends -> [Rails -> S]]

TypeOK ==
    /\ issued \in [Ends -> Nat] /\ received \in [Ends -> Nat]
    /\ remoteCredit \in PerRail(0..255) /\ remoteCc \in PerRail(0..255)
    /\ localCredit \in PerRail(0..255) /\ preposts \in PerRail(0..255)
    /\ backlog \in PerRail(Seq(Nat))
    /\ wire \in PerRail(Seq(Packet)) /\ early \in PerRail(Seq(Packet))
    /\ idle \in [Ends -> BOOLEAN] /\ blocked \in [Ends -> BOOLEAN]

OnAll(v) == [p \in Ends |-> [r \in Rails |-> v]]

Init ==
    /\ issued = [p \in Ends |-> 0] /\ received = [p \in Ends |-> 0]
    /\ remoteCredit = OnAll(InitialCredits) /\ remoteCc = OnAll(InitialCredits)
    /\ localCredit = OnAll(0) /\ preposts = OnAll(InitialPrepost)
    /\ backlog = OnAll(<< >>) /\ wire = OnAll(<< >>) /\ early = OnAll(<< >>)
    /\ idle = [p \in Ends |-> p \notin Unestablished]
    /\ blocked = [p \in Ends |-> FALSE]
-----------------------------------------------------------------------------
(* Faulty variants of definitions below, each with the mistake its name tells; *)
(* the specification does not use them.  PROJECT.json pairs each with the      *)
(* property that must notice it.                                               *)
NoopsCounted(m, k) == k
NoopOnlyWhenLow(p, r, lc) ==
    idle[p] /\ remoteCc[p][r] <= CreditPreserve /\ lc >= NotifyThreshold
ReleasesOne(p, r, rc) == IF backlog[p][r] # << >> /\ rc > 0 THEN 1 ELSE 0
-----------------------------------------------------------------------------
(* Building blocks. *)

\* post_send posts a message rather than to put it into the backlog.
MayPost(p, r) == remoteCredit[p][r] > 0

\* The receives posted once a message has taken one and k are left: none anew,
\* or up to Needed.
Reposted(k) == IF k < RqSize /\ k + PrepostThreshold < Needed THEN Needed ELSE k

\* The credits gained when k receives are posted after packet m: noops don't
\* count for credits.
Gained(m, k) == IF IsNoop(m) THEN 0 ELSE k

\* MRAILI_Send_noop_if_needed, with lc credits to tell of.
NoopNeeded(p, r, lc) ==
    /\ idle[p]
    /\ \/ lc >= DynamicThreshold
       \/ remoteCc[p][r] <= CreditPreserve /\ lc >= NotifyThreshold

\* PACKET_SET_CREDIT for a message with number n.
Header(n, lc, rc) == [n |-> n, vbufCredit |-> lc, remoteCredit |-> rc]

\* MRAILI_Backlog_send posts so many messages when there are rc credits.
Released(p, r, rc) == IF Len(backlog[p][r]) < rc THEN Len(backlog[p][r]) ELSE rc

\* p has a message in its queues whose turn it is.
Ready(p, r) == early[p][r] # << >> /\ Head(early[p][r]).n = received[p] + 1
-----------------------------------------------------------------------------
(* post_send: number the message, then post it, with all credits there are to *)
(* tell of, or put it into the backlog.  Any policy may choose the rail.      *)
post_send(p, r) ==
    LET n == issued[p] + 1 IN
    /\ idle[p] /\ ~blocked[p] /\ issued[p] < MaxMsgs[p]
    /\ issued' = [issued EXCEPT ![p] = n]
    /\ \/ /\ MayPost(p, r)
          /\ wire' = [wire EXCEPT ![p][r] =
                         Append(@, Header(n, localCredit[p][r], remoteCredit[p][r]))]
          /\ localCredit' = [localCredit EXCEPT ![p][r] = 0]
          /\ remoteCredit' = [remoteCredit EXCEPT ![p][r] = @ - 1]
          /\ UNCHANGED backlog
       \/ /\ ~MayPost(p, r)
          /\ backlog' = [backlog EXCEPT ![p][r] = Append(@, n)]
          /\ UNCHANGED <<wire, localCredit, remoteCredit>>
    /\ UNCHANGED <<received, remoteCc, preposts, early, idle, blocked>>

(* Parse_header takes the credits out of packet m, and Backlog_send posts what *)
(* they allow.  Before that p had lc credits to tell of and the wires were w.  *)
Parse_header(p, r, m, lc, w) ==
    LET rc == remoteCredit[p][r] + m.vbufCredit
        k  == Released(p, r, rc)
        posted == [i \in 1..k |->
                     Header(backlog[p][r][i], IF i = 1 THEN lc ELSE 0, rc - i + 1)]
    IN
    /\ remoteCc' = [remoteCc EXCEPT ![p][r] = m.remoteCredit]
    /\ remoteCredit' = [remoteCredit EXCEPT ![p][r] = rc - k]
    /\ localCredit' = [localCredit EXCEPT ![p][r] = IF k = 0 THEN lc ELSE 0]
    /\ backlog' = [backlog EXCEPT ![p][r] = SubSeq(@, k + 1, Len(@))]
    /\ wire' = [w EXCEPT ![p][r] = @ \o posted]

(* A message is handled: an end that accepted the connection is idle from its *)
(* first message on (CM_Establish).                                           *)
Handle(p, r, m, lc, w) ==
    /\ idle' = [idle EXCEPT ![p] = TRUE]
    /\ Parse_header(p, r, m, lc, w)

(* A message that is early is queued, with its credits, and p polls on in     *)
(* Waiting_msg until it gets the one whose turn it is.                        *)
Queue(p, r, m, lc, w) ==
    /\ early' = [early EXCEPT ![p][r] = Append(@, m)]
    /\ blocked' = [blocked EXCEPT ![p] = TRUE]
    /\ localCredit' = [localCredit EXCEPT ![p][r] = lc]
    /\ wire' = w
    /\ UNCHANGED <<received, remoteCredit, remoteCc, backlog, idle>>

(* Cq_poll gets packet m, posts receives anew, perhaps sends a NOOP, and      *)
(* then the packet is handled or queued.  A packet is delivered only if a     *)
(* receive is posted for it (RNR).                                            *)
Cq_poll(p, r) ==
    LET q == Peer(p)
        m == Head(wire[q][r])
        left == preposts[p][r] - 1
        posted == IF IsNoop(m) THEN left + 1 ELSE Reposted(left)
        lc == localCredit[p][r] + Gained(m, posted - left)
        taken == [wire EXCEPT ![q][r] = Tail(@)]
        tell == NoopNeeded(p, r, lc)
        rest == IF tell THEN 0 ELSE lc
        w == IF tell
             THEN [taken EXCEPT ![p][r] = Append(@, Header(0, lc, remoteCredit[p][r]))]
             ELSE taken
    IN
    /\ wire[q][r] # << >> /\ preposts[p][r] > 0
    /\ \A s \in Rails : ~Ready(p, s)
    /\ preposts' = [preposts EXCEPT ![p][r] = posted]
    /\ \/ /\ IsNoop(m)
          /\ Handle(p, r, m, rest, w)
          /\ UNCHANGED <<received, early>>
          /\ blocked' = [blocked EXCEPT ![p] = FALSE]
       \/ /\ m.n = received[p] + 1
          /\ Handle(p, r, m, rest, w)
          /\ received' = [received EXCEPT ![p] = m.n]
          /\ blocked' = [blocked EXCEPT ![p] = FALSE]
          /\ UNCHANGED early
       \/ /\ ~IsNoop(m) /\ m.n # received[p] + 1
          /\ Queue(p, r, m, rest, w)
    /\ UNCHANGED issued

(* Test_pkt and Waiting_msg: a queued message whose turn has come is handled. *)
Waiting_msg(p, r) ==
    LET m == Head(early[p][r]) IN
    /\ Ready(p, r)
    /\ received' = [received EXCEPT ![p] = m.n]
    /\ early' = [early EXCEPT ![p][r] = Tail(@)]
    /\ blocked' = [blocked EXCEPT ![p] = FALSE]
    /\ Handle(p, r, m, localCredit[p][r], wire)
    /\ UNCHANGED <<issued, preposts>>
-----------------------------------------------------------------------------
Next == \E p \in Ends, r \in Rails : post_send(p, r) \/ Cq_poll(p, r) \/ Waiting_msg(p, r)

Spec == Init /\ [][Next]_vars

\* A process that waits polls the progress engine, which polls all completion
\* queues.  Nothing is said of sending: a program need not send.
Fairness ==
    \A p \in Ends, r \in Rails : WF_vars(Cq_poll(p, r)) /\ WF_vars(Waiting_msg(p, r))

FairSpec == Spec /\ Fairness
-----------------------------------------------------------------------------
(* Properties. *)

\* The messages among packets, which have used a credit; the credits in packets.
Numbers(seq) == {seq[i].n : i \in 1..Len(seq)} \ {0}
CreditIn(seq) == SumFunction([i \in 1..Len(seq) |-> seq[i].vbufCredit])

\* Credits that p has told of and the peer has not taken yet.
OnTheWay(p, r) == CreditIn(wire[p][r]) + CreditIn(early[Peer(p)][r])

\* Every receive posted is accounted for by one credit of the peer, wherever
\* it is: with the peer, on its way there in a packet, in a packet that the
\* peer has queued, with p itself, or used by a message that p has not polled.
\* So no message is ever sent without a receive, and no credit is lost.
CreditsMatchReceives ==
    \A p \in Ends, r \in Rails :
        preposts[p][r] = remoteCredit[Peer(p)][r] + OnTheWay(p, r) + localCredit[p][r]
                         + Cardinality(Numbers(wire[Peer(p)][r]))
                         + (InitialPrepost - InitialCredits)

\* "Max number of entries on the RecvQ of QPs" (ibv_param.c:188).
ReceiveQueueFits == \A p \in Ends, r \in Rails : preposts[p][r] <= RqSize

\* A message is in the backlog only as long as there is no credit for it: the
\* credit it waits for must not go to a later message.
BacklogWaitsForCredit ==
    \A p \in Ends, r \in Rails : backlog[p][r] # << >> => remoteCredit[p][r] = 0

\* What p has sent on rail r and the peer not handled, oldest first; 0 is a NOOP.
NumbersIn(seq) == [i \in 1..Len(seq) |-> seq[i].n]
Sent(p, r) == NumbersIn(early[Peer(p)][r]) \o NumbersIn(wire[p][r]) \o backlog[p][r]
Carried(p, r) == {Sent(p, r)[i] : i \in 1..Len(Sent(p, r))} \ {0}

\* The messages of seq are in the order of their numbers.
Rising(seq) == \A i, j \in 1..Len(seq) : i < j /\ seq[j] # 0 => seq[i] < seq[j]

\* The peer looks only at the head of a rail's queue for the message whose turn
\* it is, so each rail keeps the order of numbers, backlog included; and every
\* message not handled is on exactly one rail.
RailsInOrder ==
    /\ \A p \in Ends, r \in Rails : Rising(Sent(p, r))
    /\ \A p \in Ends : \A n \in (received[Peer(p)] + 1)..issued[p] :
          \E r \in Rails : n \in Carried(p, r) /\ \A s \in Rails \ {r} : n \notin Carried(p, s)

\* "This is necessary to avoid credit deadlock" (ibv_send.c:1617): a message in
\* the backlog has credits coming, in a packet or for a message that will be
\* polled; the peer never keeps them all to itself.
CreditsComing ==
    \A p \in Ends, r \in Rails :
        backlog[p][r] # << >> =>
            OnTheWay(Peer(p), r) > 0 \/ Numbers(wire[p][r]) # {}

\* Every message is handled in the end.
EventuallyHandled ==
    \A p \in Ends : \A n \in 1..MaxMsgs[p] : (issued[p] >= n) ~> (received[Peer(p)] >= n)

\* NOOPs do not call for NOOPs: when the program sends no more, the wires get
\* quiet and stay so.
NoopsDieOut == <>[](\A p \in Ends, r \in Rails : wire[p][r] = << >>)
=============================================================================
