------------------------------- MODULE FastPath -------------------------------
(***************************************************************************)
(* The RDMA fast path from one process to another: a ring of slots in the  *)
(* receiver's memory that the sender's adapter writes and the receiver     *)
(* polls (ibv_send.c, ibv_channel_manager.c, vbuf.c, ibv_recv.c), beside   *)
(* the send/receive path, and the queues that bring the messages of both   *)
(* back into order.                                                        *)
(*                                                                         *)
(* A slot is written from its head flag on, word by word; the head and the *)
(* tail flag hold the length of the message, and the message is there when *)
(* they agree.  What a slot held before stays in it, so that the sender    *)
(* marks the flags of a message whose tail would agree with what is there. *)
(* The sender has an equal copy of each slot.  Any word of a message may   *)
(* look like a flag.  Writes to different slots may take different rails.  *)
(***************************************************************************)
EXTENDS Integers, Sequences, FiniteSetsExt

CONSTANTS
    NumSlots,   \* num_rdma_buffer
    MaxLen,     \* the longest message of the fast path, in words
    MaxMsgs     \* bound: messages sent

ALT == MaxLen + 1   \* FAST_RDMA_ALT_TAG

ASSUME FastAssumption ==
    /\ NumSlots \in Nat \ {0, 1} /\ MaxLen \in Nat \ {0} /\ MaxMsgs \in Nat

Slots == 0 .. NumSlots - 1
Lens == 1 .. MaxLen
Numbers == 0 .. MaxMsgs - 1
Words == 0 .. ALT + MaxLen
NoWrite == [len |-> 0, at |-> 0, num |-> 0]

VARIABLES
    \* The sender.
    nextToSend, \* seqnum_next_tosend
    phead,      \* phead_RDMA_send
    ptail,      \* ptail_RDMA_send
    busy,       \* slots whose copy is in use (padding is BUSY_FLAG)
    copy,       \* copy[s][w]: word w of the sender's copy of slot s
    flag,       \* flag[s]: its head flag
    \* The network.
    writes,     \* writes[s]: the write to slot s, of which "at" words have landed
    srWire,     \* numbers sent on the send/receive path
    creditWire, \* rdma_credit in messages on the way back
    \* The receiver.
    nextToRecv, \* seqnum_next_torecv
    pRecv,      \* p_RDMA_recv
    pTail,      \* p_RDMA_recv_tail
    slot,       \* slot[s]: head flag, words and number of the message in slot s
    ringQueue,  \* slots whose message came out of order
    srQueue,    \* numbers that came out of order by the send/receive path
    blocking,   \* the receiver waits for the next message of this connection only
    using,      \* slots handed up and not yet released
    freed,      \* slots released and not yet given back (padding is FREE_FLAG)
    credit      \* rdma_credit

sendVars == <<nextToSend, phead, ptail, busy, copy, flag>>
queueVars == <<ringQueue, srQueue, blocking>>
freeVars == <<pTail, using, freed, credit>>
vars == <<sendVars, writes, srWire, creditWire, nextToRecv, pRecv, slot, queueVars, freeVars>>

TypeOK ==
    /\ nextToSend \in 0 .. MaxMsgs /\ nextToRecv \in 0 .. MaxMsgs
    /\ phead \in Slots /\ ptail \in Slots /\ pRecv \in Slots /\ pTail \in Slots
    /\ busy \subseteq Slots /\ using \subseteq Slots /\ freed \subseteq Slots
    /\ copy \in [Slots -> [Lens -> Words]] /\ flag \in [Slots -> Words]
    /\ writes \in [Slots -> [len : 0 .. MaxLen, at : 0 .. MaxLen + 1, num : 0 .. MaxMsgs]]
    /\ slot \in [Slots -> [head : Words, words : [Lens -> Words], num : 0 .. MaxMsgs]]
    /\ srWire \in Seq(Numbers) /\ srQueue \in Seq(Numbers) /\ ringQueue \in Seq(Slots)
    /\ creditWire \in Seq(1 .. NumSlots) /\ credit \in 0 .. NumSlots - 1
    /\ blocking \in BOOLEAN

Init ==
    /\ nextToSend = 0 /\ phead = 0 /\ ptail = NumSlots - 1 /\ busy = {}
    /\ copy = [s \in Slots |-> [w \in Lens |-> 0]] /\ flag = [s \in Slots |-> 0]
    /\ writes = [s \in Slots |-> NoWrite] /\ srWire = << >> /\ creditWire = << >>
    /\ nextToRecv = 0 /\ pRecv = 0 /\ pTail = NumSlots - 1
    /\ slot = [s \in Slots |-> [head |-> 0, words |-> [w \in Lens |-> 0], num |-> 0]]
    /\ ringQueue = << >> /\ srQueue = << >> /\ blocking = FALSE
    /\ using = {} /\ freed = {} /\ credit = 0
-----------------------------------------------------------------------------
(* Faulty variants of definitions below, each with the mistake its name tells; *)
(* the specification does not use them.  PROJECT.json pairs each with the      *)
(* property that must notice it.                                               *)
NeverAlternates(old, n) == n
UsesAllSlots == phead \notin busy
StopsEarly(from, free) == IF from \in free THEN 1 ELSE 0
TakesAnyNumber(n) == TRUE
-----------------------------------------------------------------------------
(* Building blocks. *)

Next_(s) == (s + 1) % NumSlots

\* The flags of a message of n words where word "old" is in the tail's place.
TailFlag(old, n) == IF old = n THEN n + ALT ELSE n

FlagSize(f) == f % ALT

\* MPIDI_CH3I_MRAILI_Fast_rdma_ok
Fast_rdma_ok == phead # ptail /\ phead \notin busy

\* The number of released slots in a row, from slot "from" up to the receive pointer.
Run(from, free) ==
    LET Slot(i) == (from + i) % NumSlots
        rows == {k \in 0 .. NumSlots - 1 : \A i \in 0 .. k - 1 : Slot(i) \in free /\ Slot(i) # pRecv}
    IN  Max(rows)

\* The receive pointer may go on: the slot is not behind the last one given back.
MayPoll == slot[pRecv].head # 0 /\ pRecv # pTail

\* The poll of slot s finds its flags equal.
FlagsAgree(s) == slot[s].words[FlagSize(slot[s].head)] = slot[s].head

Expected(n) == n = nextToRecv
-----------------------------------------------------------------------------
(* The sender and the network. *)

\* MPIDI_CH3I_MRAILI_Fast_rdma_send_complete, with data d in the words before the tail.
Fast_rdma_send(n, d) ==
    /\ nextToSend < MaxMsgs /\ Fast_rdma_ok
    /\ LET f == TailFlag(copy[phead][n], n) IN
       /\ copy' = [copy EXCEPT ![phead] =
                       [w \in Lens |-> IF w < n THEN d[w] ELSE IF w = n THEN f ELSE @[w]]]
       /\ flag' = [flag EXCEPT ![phead] = f]
    /\ writes' = [writes EXCEPT ![phead] = [len |-> n, at |-> 0, num |-> nextToSend]]
    /\ busy' = busy \cup {phead}
    /\ phead' = Next_(phead)
    /\ nextToSend' = nextToSend + 1
    /\ UNCHANGED <<ptail, srWire, creditWire, nextToRecv, pRecv, slot, queueVars, freeVars>>

\* A message that is too long, or does not find the fast path ready, goes by the
\* send/receive path.
Eager_send ==
    /\ nextToSend < MaxMsgs
    /\ srWire' = Append(srWire, nextToSend)
    /\ nextToSend' = nextToSend + 1
    /\ UNCHANGED <<phead, ptail, busy, copy, flag, writes, creditWire,
                   nextToRecv, pRecv, slot, queueVars, freeVars>>

\* The next word of a write lands: the head flag first, the tail flag last.
Land(s) ==
    LET w == writes[s] IN
    /\ w.len > 0 /\ w.at <= w.len
    /\ slot' = [slot EXCEPT
           ![s].head = IF w.at = 0 THEN flag[s] ELSE @,
           ![s].words = IF w.at = 0 THEN @ ELSE [@ EXCEPT ![w.at] = copy[s][w.at]],
           ![s].num = IF w.at = w.len THEN w.num ELSE @]
    /\ writes' = [writes EXCEPT ![s].at = @ + 1]
    /\ UNCHANGED <<sendVars, srWire, creditWire, nextToRecv, pRecv, queueVars, freeVars>>

\* The completion of a write.
Process_send(s) ==
    /\ writes[s].len > 0 /\ writes[s].at > writes[s].len
    /\ writes' = [writes EXCEPT ![s] = NoWrite]
    /\ busy' = busy \ {s}
    /\ UNCHANGED <<nextToSend, phead, ptail, copy, flag, srWire, creditWire,
                   nextToRecv, pRecv, slot, queueVars, freeVars>>

SET_CREDIT ==
    /\ creditWire # << >>
    /\ ptail' = (ptail + Head(creditWire)) % NumSlots
    /\ creditWire' = Tail(creditWire)
    /\ UNCHANGED <<nextToSend, phead, busy, copy, flag, writes, srWire,
                   nextToRecv, pRecv, slot, queueVars, freeVars>>
-----------------------------------------------------------------------------
(* The receiver. *)

\* A message that is the next one is handed up, and a blocking wait ends.
HandUp ==
    /\ nextToRecv' = nextToRecv + 1
    /\ blocking' = FALSE

\* A slot is polled when no slot is queued (MPIDI_CH3I_MRAILI_Get_next_vbuf), or in a
\* blocking wait that found no queued message in order (MPIDI_CH3I_RDMA_poll, which
\* leaves the head flag to the release).
PollRing ==
    /\ IF blocking THEN ringQueue # << >> => ~Expected(slot[Head(ringQueue)].num)
                   ELSE ringQueue = << >>
    /\ MayPoll /\ FlagsAgree(pRecv)
    /\ pRecv' = Next_(pRecv)
    /\ slot' = [slot EXCEPT ![pRecv].head = IF blocking THEN @ ELSE 0]
    /\ \/ /\ Expected(slot[pRecv].num) /\ HandUp
          /\ using' = using \cup {pRecv}
          /\ UNCHANGED ringQueue
       \/ /\ ~Expected(slot[pRecv].num)
          /\ ringQueue' = Append(ringQueue, pRecv)
          /\ UNCHANGED <<nextToRecv, blocking, using>>
    /\ UNCHANGED <<sendVars, writes, srWire, creditWire, srQueue, pTail, freed, credit>>

\* MPIDI_CH3I_MRAILI_Cq_poll of the send/receive path.  A message out of order makes
\* the receiver wait for the one before it (MPIDI_CH3I_read_progress).
Cq_poll ==
    /\ srWire # << >>
    /\ srWire' = Tail(srWire)
    /\ \/ /\ Expected(Head(srWire)) /\ HandUp
          /\ UNCHANGED srQueue
       \/ /\ ~Expected(Head(srWire))
          /\ srQueue' = Append(srQueue, Head(srWire))
          /\ blocking' = TRUE
          /\ UNCHANGED nextToRecv
    /\ UNCHANGED <<sendVars, writes, creditWire, pRecv, slot, ringQueue, freeVars>>

\* MPIDI_CH3I_MRAILI_Waiting_msg finds the next message at the head of a queue.
WaitingRing ==
    /\ ringQueue # << >> /\ Expected(slot[Head(ringQueue)].num) /\ HandUp
    /\ ringQueue' = Tail(ringQueue)
    /\ using' = using \cup {Head(ringQueue)}
    /\ UNCHANGED <<sendVars, writes, srWire, creditWire, pRecv, slot, srQueue, pTail, freed, credit>>

WaitingSr ==
    /\ srQueue # << >> /\ Expected(Head(srQueue)) /\ HandUp
    /\ srQueue' = Tail(srQueue)
    /\ UNCHANGED <<sendVars, writes, srWire, creditWire, pRecv, slot, ringQueue, freeVars>>

\* MRAILI_Release_recv_rdma: slots are released in any order and given back in theirs.
Release_recv_rdma(s) ==
    LET from == Next_(pTail)
        free == freed \cup {s}
        n == IF s = from THEN Run(from, free) ELSE 0
        back == {(from + i) % NumSlots : i \in 0 .. n - 1}
    IN
    /\ s \in using
    /\ using' = using \ {s}
    /\ freed' = free \ back
    /\ credit' = credit + n
    /\ pTail' = (pTail + n) % NumSlots
    /\ slot' = [t \in Slots |-> [slot[t] EXCEPT !.head = IF t \in back \cup {s} THEN 0 ELSE @]]
    /\ UNCHANGED <<sendVars, writes, srWire, creditWire, nextToRecv, pRecv, queueVars>>

\* A message to the sender, or a NOOP, takes the credits along (PACKET_SET_CREDIT).
SendCredits ==
    /\ credit > 0
    /\ creditWire' = Append(creditWire, credit)
    /\ credit' = 0
    /\ UNCHANGED <<sendVars, writes, srWire, nextToRecv, pRecv, slot, queueVars,
                   pTail, using, freed>>
-----------------------------------------------------------------------------
\* Data words that look like flags, and one that does not.
DataOf(n) == {d \in [1 .. n - 1 -> Words] : \A w \in 1 .. n - 1 : d[w] \in {0, w, w + ALT}}

Next ==
    \/ \E n \in Lens : \E d \in DataOf(n) : Fast_rdma_send(n, d)
    \/ Eager_send \/ SET_CREDIT
    \/ \E s \in Slots : Land(s) \/ Process_send(s) \/ Release_recv_rdma(s)
    \/ PollRing \/ Cq_poll \/ WaitingRing \/ WaitingSr
    \/ SendCredits

Spec == Init /\ [][Next]_vars

\* The adapters deliver and the receiver polls all its channels.
Fairness ==
    /\ \A s \in Slots : WF_vars(Land(s))
    /\ WF_vars(PollRing) /\ WF_vars(Cq_poll) /\ WF_vars(WaitingRing) /\ WF_vars(WaitingSr)

FairSpec == Spec /\ Fairness
-----------------------------------------------------------------------------
(* Properties *)

\* When the flags of the slot that is polled agree, the whole message has landed, even
\* if earlier messages left flags, or words that look like flags, in the slot.
FlagsMeanArrived ==
    MayPoll /\ FlagsAgree(pRecv) /\ writes[pRecv].len > 0
        => writes[pRecv].at > writes[pRecv].len

\* The slots whose message has been written, in part or whole, and not been polled.
Unpolled == {s \in Slots : writes[s].len > 0 /\ writes[s].at <= writes[s].len}
            \cup {s \in Slots : slot[s].head # 0 /\ s \notin using /\ s \notin Range(ringQueue)}

\* The number that slot s holds or will hold.
NumberIn(s) == IF writes[s].len > 0 THEN writes[s].num ELSE slot[s].num

\* Every message sent and not yet handed up is in one place, once.
EachOnce ==
    LET inRing == Unpolled \cup Range(ringQueue)
        ringNumbers == {NumberIn(s) : s \in inRing}
        srNumbers == Range(srWire) \cup Range(srQueue)
    IN  /\ ringNumbers \cup srNumbers = nextToRecv .. nextToSend - 1
        /\ Cardinality(inRing) + Len(srWire) + Len(srQueue) = nextToSend - nextToRecv

\* No slot is lost: each but one is free at the sender, on its way to the receiver,
\* in use there, or on its way back as a credit.  And a released slot waits only for one
\* before it that is still in use: none is kept back for good by a release out of order.
CreditsConserved ==
    /\ ((ptail - phead) % NumSlots) + Cardinality(Unpolled) + Len(ringQueue)
          + Cardinality(using) + Cardinality(freed) + credit + SumFunction(creditWire)
       = NumSlots - 1
    /\ Next_(pTail) \notin freed

\* Every message is handed up in the end, whichever path it took.
AllHandled == \A n \in Numbers : (nextToSend > n) ~> (nextToRecv > n)
=============================================================================
