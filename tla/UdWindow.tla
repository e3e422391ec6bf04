------------------------------ MODULE UdWindow ------------------------------
(***************************************************************************)
(* Reliability over unreliable datagrams (ibv_ud.c, mv2_ud_inline.h): the  *)
(* sliding window between the two ends of one virtual connection, as it    *)
(* runs until (or unless) the hybrid channel gives the VC an RC queue pair. *)
(*                                                                         *)
(* Everything happens in the main thread of a process: sends from MPI      *)
(* calls, receipts and timeouts from the progress engine.  Sequence        *)
(* numbers are uint16_t in the code; SeqMod stands for 2^16.  Every        *)
(* datagram also carries what the code does not have, the true number of   *)
(* its message and of the messages its sender had received: properties and *)
(* the life time of datagrams are stated with them.                        *)
(*                                                                         *)
(* The send queue of the datagram queue pair (send_wqes_avail,             *)
(* ext_send_queue) only delays datagrams and is part of net; the model     *)
(* assumes that a vbuf has been sent (UD_VBUF_SEND_INPROGRESS is cleared)  *)
(* when its timeout expires.  Zero-copy rendezvous and giving up after     *)
(* rdma_ud_max_retry_count are left out.                                   *)
(***************************************************************************)
EXTENDS Integers, Sequences, FiniteSets

CONSTANTS
    SeqMod,         \* 2^16
    SendWin,        \* rdma_default_ud_sendwin_size
    RecvWin,        \* rdma_default_ud_recvwin_size
    MaxAckPending,  \* rdma_ud_max_ack_pending
    Lifetime,       \* a datagram does not arrive once this many later messages
                    \* of its connection have been posted
    Loads,          \* bounds on the messages each end sends, one in a behaviour
    NetCap          \* no voluntary sends with so many datagrams on the wire

Ends == {0, 1}
Peer(p) == 1 - p

ASSUME WindowAssumption ==
    /\ SendWin \in Nat \ {0} /\ RecvWin \in Nat \ {0} /\ MaxAckPending \in Nat
    /\ Lifetime \in Nat /\ NetCap \in Nat
    /\ Lifetime > SendWin
    /\ SeqMod \in Nat /\ SeqMod > Lifetime + RecvWin + 1
ASSUME LoadsAssumption == Loads \subseteq [Ends -> Nat]

VARIABLES
    load,       \* load[p]: how many messages p sends
    issued,     \* issued[p]: messages p's upper layers have sent
    nextSend,   \* vc->mrail.seqnum_next_tosend
    nextRecv,   \* vc->mrail.seqnum_next_torecv
    nextAck,    \* vc->mrail.seqnum_next_toack
    ackDue,     \* vc->mrail.ack_need_tosend
    ackPending, \* vc->mrail.ud.ack_pending
    sendWin,    \* vc->mrail.ud.send_window, posted and not acknowledged
    extWin,     \* vc->mrail.ud.ext_window, waiting for room in the send window
    recvWin,    \* vc->mrail.ud.recv_window, received out of order
    received,   \* received[p]: the last message p has handled
    net         \* datagrams on the wire, each in one or more copies

sendVars == <<issued, nextSend, sendWin, extWin>>
recvVars == <<nextRecv, nextAck, recvWin, received>>
ackVars  == <<ackDue, ackPending>>
vars == <<load, sendVars, recvVars, ackVars, net>>

Seqs == 0..(SeqMod - 1)
Vbuf == [seq : Seqs, n : Nat]
Datagram == [dst : Ends, seq : Seqs, ack : Seqs, n : Nat, got : Nat]

TypeOK ==
    /\ load \in Loads
    /\ issued \in [Ends -> Nat] /\ received \in [Ends -> Nat]
    /\ nextSend \in [Ends -> Seqs]
    /\ nextRecv \in [Ends -> Seqs]
    /\ nextAck \in [Ends -> Seqs]
    /\ ackDue \in [Ends -> BOOLEAN]
    /\ ackPending \in [Ends -> Nat]
    /\ sendWin \in [Ends -> Seq(Vbuf)]
    /\ extWin \in [Ends -> Seq(Nat)]
    /\ recvWin \in [Ends -> Seq(Vbuf)]
    /\ net \subseteq Datagram

Init ==
    /\ load \in Loads
    /\ issued = [p \in Ends |-> 0]
    /\ nextSend = [p \in Ends |-> 0]
    /\ nextRecv = [p \in Ends |-> 0]
    /\ nextAck = [p \in Ends |-> 0]
    /\ ackDue = [p \in Ends |-> FALSE]
    /\ ackPending = [p \in Ends |-> 0]
    /\ sendWin = [p \in Ends |-> << >>]
    /\ extWin = [p \in Ends |-> << >>]
    /\ recvWin = [p \in Ends |-> << >>]
    /\ received = [p \in Ends |-> 0]
    /\ net = {}
-----------------------------------------------------------------------------
(* Faulty variants of definitions below, each with the mistake its name tells; *)
(* the specification does not use them.  PROJECT.json pairs each with the      *)
(* property that must notice it.                                               *)
DrainsAnything(p) == recvWin[p] # << >>
QueueOnlyBehindFull(p) == Len(sendWin[p]) > SendWin
FlushOnlyOne(p, len) == IF len < SendWin /\ extWin[p] # << >> THEN 1 ELSE 0
ExplicitAckOfNext(p) ==
    [dst |-> Peer(p), seq |-> SeqMod - 1, ack |-> nextRecv[p], n |-> 0, got |-> received[p]]
NewestUnacked(p) == {sendWin[p][i] : i \in {Len(sendWin[p])} \ {0}}
-----------------------------------------------------------------------------
(* Building blocks. *)

\* INCL_BETWEEN: val lies in the circular range from start to end, both included.
InclBetween(val, start, end) ==
    \/ start > end /\ (val >= start \/ val <= end)
    \/ end > start /\ val >= start /\ val <= end
    \/ end = start /\ end = val

\* The receive window; its end is taken modulo UINT16_MAX, one less than the
\* numbers wrap at.
InRecvWindow(p, seq) ==
    InclBetween(seq, nextRecv[p], (nextRecv[p] + RecvWin) % (SeqMod - 1))

\* recv_window_add walks past entry c of the list when it looks for the place
\* of seq: the list starts at head, and start is the next number expected.
WalksPast(c, seq, head, start) ==
    \/ seq > start /\ head >= start /\ c < seq /\ c > start
    \/ seq <= start /\ head > start /\ (c >= start \/ c < seq)
    \/ seq <= start /\ head <= start /\ c < seq

\* How many entries recv_window_add walks past.
Place(p, seq) ==
    Cardinality({k \in 1..Len(recvWin[p]) : \A i \in 1..k :
        WalksPast(recvWin[p][i].seq, seq, recvWin[p][1].seq, nextRecv[p])})

\* mv2_ud_recv_window_add: insert in order; a number already there is dropped.
recv_window_add(p, m) ==
    LET w == recvWin[p]
        k == Place(p, m.seq)
    IN  IF k < Len(w) /\ w[k + 1].seq = m.seq
        THEN w
        ELSE SubSeq(w, 1, k) \o <<[seq |-> m.seq, n |-> m.n]>> \o SubSeq(w, k + 1, Len(w))

\* How many entries at the head of the send window an ack releases.
Released(p, ack) ==
    Cardinality({k \in 1..Len(sendWin[p]) : \A i \in 1..k :
        InclBetween(ack, sendWin[p][i].seq, nextSend[p])})

\* SEND_WINDOW_CHECK for a message that is not the head of the extended window.
MustQueue(p) == Len(sendWin[p]) > SendWin \/ extWin[p] # << >>

\* How many messages flush_ext_window posts when the send window has len entries.
Flushed(p, len) ==
    LET room == IF len < SendWin THEN SendWin - len ELSE 0
    IN  IF Len(extWin[p]) < room THEN Len(extWin[p]) ELSE room

\* The vbufs of messages ns when they get their sequence numbers.
Numbered(p, ns) ==
    [i \in 1..Len(ns) |-> [seq |-> (nextSend[p] + i - 1) % SeqMod, n |-> ns[i]]]

\* The datagrams p puts on the wire: a data message, an explicit ack.
Data(p, v) ==
    [dst |-> Peer(p), seq |-> v.seq, ack |-> nextAck[p], n |-> v.n, got |-> received[p]]
ExplicitAck(p) ==
    [dst |-> Peer(p), seq |-> SeqMod - 1, ack |-> nextAck[p], n |-> 0, got |-> received[p]]
IsControl(m) == m.n = 0

\* p is in the loop of place_recvwin that handles what has become in order.
\* Handlers may send, so post_ud_send can happen there, nothing else of p can.
Draining(p) == recvWin[p] # << >> /\ Head(recvWin[p]).seq = nextRecv[p]

\* Messages of p that have got a sequence number.
Posted(p) == issued[p] - Len(extWin[p])

\* Messages of p that have left its send window.
Acked(p) == Posted(p) - Len(sendWin[p])

\* What is left on the wire when p has posted its message k: the fabric holds
\* no datagram for longer than it can live.
Surviving(p, k) ==
    {m \in net : IF m.dst = p THEN m.got + Lifetime >= k
                              ELSE IsControl(m) \/ m.n + Lifetime > k}
-----------------------------------------------------------------------------
(* post_ud_send: post at once, or wait behind a full send window.  A posted   *)
(* message carries an ack, so none is due any more.                           *)
post_ud_send(p) ==
    LET n == issued[p] + 1
        v == [seq |-> nextSend[p], n |-> n]
    IN
    /\ issued[p] < load[p] /\ Cardinality(net) < NetCap
    /\ issued' = [issued EXCEPT ![p] = n]
    /\ \/ /\ MustQueue(p)
          /\ extWin' = [extWin EXCEPT ![p] = Append(@, n)]
          /\ UNCHANGED <<nextSend, sendWin, ackVars, net>>
       \/ /\ ~MustQueue(p)
          /\ nextSend' = [nextSend EXCEPT ![p] = (@ + 1) % SeqMod]
          /\ sendWin' = [sendWin EXCEPT ![p] = Append(@, v)]
          /\ net' = Surviving(p, n) \cup {Data(p, v)}
          /\ ackDue' = [ackDue EXCEPT ![p] = FALSE]
          /\ ackPending' = [ackPending EXCEPT ![p] = 0]
          /\ UNCHANGED extWin
    /\ UNCHANGED recvVars

\* mv2_ud_process_ack: release what ack covers, post from the extended window
\* what there is room for.
mv2_ud_process_ack(p, ack) ==
    LET win == SubSeq(sendWin[p], Released(p, ack) + 1, Len(sendWin[p]))
        f == Flushed(p, Len(win))
        new == Numbered(p, SubSeq(extWin[p], 1, f))
    IN
    /\ sendWin' = [sendWin EXCEPT ![p] = win \o new]
    /\ extWin' = [extWin EXCEPT ![p] = SubSeq(@, f + 1, Len(@))]
    /\ nextSend' = [nextSend EXCEPT ![p] = (@ + f) % SeqMod]
    /\ UNCHANGED issued

\* The datagrams process_ack posts.
FlushedOut(p, ack) ==
    LET f == Flushed(p, Len(sendWin[p]) - Released(p, ack))
        new == Numbered(p, SubSeq(extWin[p], 1, f))
    IN  {Data(p, new[i]) : i \in 1..f}

\* p takes datagram m off the wire, where another copy of it may stay behind,
\* and puts on it those in flushed and in acks.
Exchange(p, m, flushed, acks) ==
    \E rest \in {net, net \ {m}} :
        net' = (Surviving(p, Posted(p) + Cardinality(flushed)) \cap rest) \cup flushed \cup acks

\* mv2_ud_place_recvwin, up to the loop over the receive window.  Whatever the
\* datagram was, it is answered by an ack.
mv2_ud_place_recvwin(p, m) ==
    /\ ackDue' = [ackDue EXCEPT ![p] = TRUE]
    /\ \/ /\ m.seq = nextRecv[p]
          /\ received' = [received EXCEPT ![p] = m.n]
          /\ nextAck' = [nextAck EXCEPT ![p] = nextRecv[p]]
          /\ nextRecv' = [nextRecv EXCEPT ![p] = (@ + 1) % SeqMod]
          /\ UNCHANGED recvWin
       \/ /\ m.seq # nextRecv[p] /\ InRecvWindow(p, m.seq)
          /\ recvWin' = [recvWin EXCEPT ![p] = recv_window_add(p, m)]
          /\ UNCHANGED <<received, nextAck, nextRecv>>
       \/ /\ ~InRecvWindow(p, m.seq)
          /\ UNCHANGED recvVars

\* MRAILI_Process_recv of a data message: its ack first; then
\* MV2_UD_ACK_CREDIT_CHECK, an explicit ack if too many messages have gone
\* without one; then the message itself.
Process_recv_data(p, m) ==
    LET out == FlushedOut(p, m.ack)
        pending == (IF out = {} THEN ackPending[p] ELSE 0) + 1
        explicit == pending > MaxAckPending
    IN
    /\ ~IsControl(m)
    /\ mv2_ud_process_ack(p, m.ack)
    /\ Exchange(p, m, out, IF explicit THEN {ExplicitAck(p)} ELSE {})
    /\ ackPending' = [ackPending EXCEPT ![p] = IF explicit THEN 0 ELSE pending]
    /\ mv2_ud_place_recvwin(p, m)

\* MRAILI_Process_recv of a control message: only its ack matters.
Process_recv_control(p, m) ==
    LET out == FlushedOut(p, m.ack) IN
    /\ IsControl(m)
    /\ mv2_ud_process_ack(p, m.ack)
    /\ Exchange(p, m, out, {})
    /\ ackDue' = [ackDue EXCEPT ![p] = @ /\ out = {}]
    /\ ackPending' = [ackPending EXCEPT ![p] = IF out = {} THEN @ ELSE 0]
    /\ UNCHANGED recvVars

MRAILI_Process_recv(p, m) ==
    /\ m \in net /\ m.dst = p
    /\ ~Draining(p)
    /\ Process_recv_data(p, m) \/ Process_recv_control(p, m)

\* One turn of the loop at the end of place_recvwin.
DrainRecvWindow(p) ==
    /\ Draining(p)
    /\ received' = [received EXCEPT ![p] = Head(recvWin[p]).n]
    /\ recvWin' = [recvWin EXCEPT ![p] = Tail(@)]
    /\ nextAck' = [nextAck EXCEPT ![p] = nextRecv[p]]
    /\ nextRecv' = [nextRecv EXCEPT ![p] = (@ + 1) % SeqMod]
    /\ UNCHANGED <<sendVars, ackVars, net>>

\* The vbufs of the unack queue (of which the send window is p's part).
Unacked(p) == {sendWin[p][i] : i \in 1..Len(sendWin[p])}

\* MV2_UD_SEND_ACKS sends an ack if one is still due after the resends.
TimeoutAcks(p, expired) == IF expired = {} /\ ackDue[p] THEN {ExplicitAck(p)} ELSE {}

\* The datagrams under way that a timeout leaves there: with NetCap of them,
\* one is lost by the time the resent ones are on the wire.
StillUnderWay ==
    IF Cardinality(net) < NetCap THEN {net} ELSE {net \ {m} : m \in net}

\* UD_ACK_PROGRESS_TIMEOUT: mv2_check_resend posts the expired vbufs again,
\* with a fresh ack, and the acks follow.
ProgressTimeout(p, expired) ==
    /\ ~Draining(p)
    /\ expired \subseteq Unacked(p)
    /\ expired # {} \/ ackDue[p]
    /\ \E kept \in StillUnderWay :
          net' = kept \cup {Data(p, v) : v \in expired} \cup TimeoutAcks(p, expired)
    /\ ackDue' = [ackDue EXCEPT ![p] = FALSE]
    /\ ackPending' = [ackPending EXCEPT ![p] = IF expired # {} THEN @ ELSE 0]
    /\ UNCHANGED <<issued, nextSend, sendWin, extWin, recvVars>>

\* The network drops the last copy of a datagram.
LoseDatagram(m) ==
    /\ net' = net \ {m}
    /\ UNCHANGED <<sendVars, recvVars, ackVars>>
-----------------------------------------------------------------------------
Next ==
    /\ UNCHANGED load
    /\ \/ \E p \in Ends :
             \/ post_ud_send(p)
             \/ \E m \in net : MRAILI_Process_recv(p, m)
             \/ DrainRecvWindow(p)
             \/ \E expired \in SUBSET Unacked(p) : ProgressTimeout(p, expired)
       \/ \E m \in net : LoseDatagram(m)

Spec == Init /\ [][Next]_vars

\* Datagrams to p that change something: with the message p waits for, with
\* the message its peer sends again until an ack for it comes, and with an ack
\* that releases a message of p.
NextMessage(p) == {m \in net : m.dst = p /\ m.n = received[p] + 1}
OldestUnacked(p) == {m \in net : m.dst = p /\ m.n = Acked(Peer(p)) + 1}
NewAck(p) == {m \in net : m.dst = p /\ m.got > Acked(p)}

\* A process that waits polls the progress engine, so timeouts and what has
\* arrived are dealt with; a datagram does not stay on the wire for ever; and
\* of those that are sent again and again not every one is lost.
Fairness ==
    \A p \in Ends :
        /\ WF_vars(UNCHANGED load /\ DrainRecvWindow(p))
        /\ WF_vars(UNCHANGED load /\ ProgressTimeout(p, Unacked(p)))
        /\ WF_vars(/\ UNCHANGED load
                   /\ \E m \in NextMessage(p) : MRAILI_Process_recv(p, m) \/ LoseDatagram(m))
        /\ SF_vars(UNCHANGED load /\ \E m \in OldestUnacked(p) : MRAILI_Process_recv(p, m))
        /\ SF_vars(UNCHANGED load /\ \E m \in NewAck(p) : MRAILI_Process_recv(p, m))

FairSpec == Spec /\ Fairness
-----------------------------------------------------------------------------
(* Properties. *)

\* A message leaves the send window, never to be sent again, only when the
\* peer has handled it: an ack releases messages only if it has advanced.
\* The code breaks this for message 0: until a process has received something,
\* its datagrams carry 0, the value seqnum_next_toack starts with, as their ack.
NoFalseAck == \A p \in Ends : Acked(p) <= received[Peer(p)]

\* The first message is the only one this can happen to: no old, repeated or
\* wrapped ack releases another one before the peer has handled it.
OnlyFirstEarly ==
    \A p \in Ends : Acked(p) <= received[Peer(p)] \/ Acked(p) = 1

\* The first message of p left the send window too early and has been lost:
\* nobody will send it again.
FirstLost(p) ==
    /\ Acked(p) > received[Peer(p)]
    /\ \A m \in net : m.dst = Peer(p) => m.n # received[Peer(p)] + 1

\* The send window and the extended window hold the unacknowledged messages,
\* none missing and none twice, under the sequence numbers the receiver counts.
WindowsInStep ==
    \A p \in Ends :
        /\ \A i \in 1..Len(sendWin[p]) :
              /\ sendWin[p][i].n = Acked(p) + i
              /\ sendWin[p][i].seq = (Acked(p) + i - 1) % SeqMod
        /\ \A i \in 1..Len(extWin[p]) : extWin[p][i] = Posted(p) + i

\* Only acks move messages from the extended window on, so one can only wait
\* there while an ack is still to come.
NoStrandedExt ==
    \A p \in Ends : extWin[p] # << >> => Len(sendWin[p]) >= SendWin

\* Messages are handled exactly once and in the order they were sent, although
\* datagrams are lost, repeated and reordered.
Issued == [p \in Ends |-> [q \in Ends |-> IF q = Peer(p) THEN issued[p] ELSE 0]]
Handled == [p \in Ends |-> [q \in Ends |-> IF q = Peer(p) THEN received[q] ELSE 0]]
Unhandled == [p \in Ends |-> [q \in Ends |->
                [i \in 1..(Issued[p][q] - Handled[p][q]) |-> Handled[p][q] + i]]]

Fifo == INSTANCE FifoChannels WITH
            Procs <- Ends, sent <- Issued, chan <- Unhandled, rcvd <- Handled

InOrder == Fifo!Spec

\* Again and again all that p has sent has been acknowledged, so every message
\* is in the end, unless the first one was released too early and then lost.
EventuallyAcked ==
    \A p \in Ends : []<>(Acked(p) = issued[p] \/ FirstLost(p))
=============================================================================
