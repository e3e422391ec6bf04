------------------------------- MODULE SmpQueue -------------------------------
(***************************************************************************)
(* The shared-memory channel from one process to another on its node       *)
(* (ch3_smp_progress.c, smp_smpi.h, ch3_rndvtransfer.c): a ring of packets *)
(* with the counters msgs_total_in and msgs_total_out, and the sender's    *)
(* pool of buffers for the data of long messages.                          *)
(*                                                                         *)
(* The sender alone moves NEXT and the counter IN, the receiver CURRENT    *)
(* and OUT; there is no lock.  An eager message is one packet, or more if  *)
(* the ring is nearly full.  A long one is a header, then the number of    *)
(* bytes in the first batch of buffers, then a packet for every further    *)
(* batch; the buffers of a batch are linked, and the receiver marks each   *)
(* free when it has copied it.                                             *)
(*                                                                         *)
(* Offsets are bytes from the FIRST of the ring.  The data of a message is *)
(* numbered in the order it is sent: one item for an eager packet, one for *)
(* a buffer.                                                               *)
(***************************************************************************)
EXTENDS Integers, Sequences, FiniteSets

CONSTANTS
    Line,       \* SMPI_CACHE_LINE_SIZE, and SMPI_SMALLEST_SIZE
    IntSize,        \* sizeof(int)
    Header,     \* the size of a packet header
    Eager,      \* g_smp_eagersize
    Available,  \* available_queue_length
    Modulus,    \* SMPI_MAX_INT + 1
    NumBufs,    \* s_smp_num_send_buffer
    Batch,      \* s_smp_batch_size
    EagerSizes, \* sizes of eager messages, with their header
    LongSizes,  \* sizes of long messages, in buffers
    Starts,     \* <<counter, offset>>: where both ends are after earlier messages
    MaxMsgs     \* bound: messages sent

ASSUME SmpAssumption ==
    /\ {Line, IntSize, Header, Eager, Available, NumBufs, Batch} \subseteq Nat \ {0}
    /\ Modulus \in Nat /\ Modulus > 2 * Available /\ MaxMsgs \in Nat
    /\ Header <= Line /\ EagerSizes \subseteq Header .. Eager - 1
    /\ LongSizes \subseteq Nat \ {0}
    /\ Starts \subseteq (0 .. Modulus - 1) \X (0 .. Available)

Bufs == 0 .. NumBufs - 1
Nil == -1

\* bytes is what is written, step what NEXT moves on; left is what of the message
\* follows, in bytes or buffers; index is the first buffer of the batch.
Packets == [kind : {"eager", "rest", "header", "data", "cont"}, at : Nat, bytes : Nat,
            step : Nat, item : Int, left : Nat, count : Nat, index : Bufs \cup {Nil}]

VARIABLES
    \* The sender.
    sendq,      \* messages not wholly written: [kind, left, part]
    accepted,   \* messages the program has sent
    sizeRead,   \* how the counters compared in smpi_get_avail_length, "none" before
    filling,    \* the batch being filled: [first, last, tries, count], first Nil if none
    items,      \* items sent so far
    nextPos,    \* SMPI_NEXT
    totalIn,    \* SMPI_TOTALIN
    \* The pool of buffers, shared by both.
    freeHead,   \* s_sh_buf_pool.free_head
    qHead,      \* s_sh_buf_pool.send_queue[dest]
    qTail,      \* s_sh_buf_pool.tail[dest]
    link,       \* link[b]: next
    hasNext,    \* buffers with has_next set
    busy,       \* buffers with busy set
    content,    \* content[b]: the item in buffer b
    \* The ring and the receiver.
    mem,        \* packets in the ring that are neither read nor overwritten
    totalOut,   \* SMPI_TOTALOUT
    current,    \* SMPI_CURRENT
    expects,    \* what the receiver takes the next packet for, or "walk"
    reading,    \* the packet being read, a set of at most one
    walk,       \* the batch being copied: [index, count, left]
    received    \* items copied to the receiver's memory, in order

sendVars == <<sendq, accepted, sizeRead, filling, items, nextPos, totalIn>>
poolVars == <<freeHead, qHead, qTail, link, hasNext, content>>
recvVars == <<totalOut, current, expects, reading, walk, received>>
vars == <<sendVars, poolVars, busy, mem, recvVars>>

Messages == [kind : {"eager", "long"}, left : Nat,
             part : {"whole", "rest", "header", "data", "cont"}]
NoBatch == [first |-> Nil, last |-> Nil, tries |-> 0, count |-> 0]

TypeOK ==
    /\ sendq \in Seq(Messages) /\ accepted \in 0 .. MaxMsgs
    /\ sizeRead \in {"none", "notless", "less"}
    /\ filling \in [first : Bufs \cup {Nil}, last : Bufs \cup {Nil},
                    tries : 0 .. Batch, count : 0 .. Batch]
    /\ {items, nextPos, current} \subseteq Nat
    /\ {totalIn, totalOut} \subseteq 0 .. Modulus - 1
    /\ {freeHead, qHead, qTail} \subseteq Bufs \cup {Nil}
    /\ link \in [Bufs -> Bufs \cup {Nil}] /\ content \in [Bufs -> Nat]
    /\ hasNext \subseteq Bufs /\ busy \subseteq Bufs
    /\ mem \subseteq Packets /\ reading \subseteq Packets
    /\ expects \in {"message", "rest", "data", "cont", "walk"}
    /\ walk \in [index : Bufs \cup {Nil}, count : Nat, left : Nat]
    /\ received \in Seq(Nat)

Init ==
    /\ sendq = << >> /\ accepted = 0 /\ sizeRead = "none" /\ filling = NoBatch /\ items = 0
    /\ \E <<total, at>> \in Starts : /\ totalIn = total /\ totalOut = total
                                     /\ nextPos = at /\ current = at
    /\ freeHead = 0 /\ qHead = Nil /\ qTail = Nil
    /\ link = [b \in Bufs |-> IF b = NumBufs - 1 THEN Nil ELSE b + 1]
    /\ hasNext = {} /\ busy = {} /\ content = [b \in Bufs |-> 0]
    /\ mem = {} /\ expects = "message" /\ reading = {}
    /\ walk = [index |-> Nil, count |-> 0, left |-> 0] /\ received = << >>
-----------------------------------------------------------------------------
(* Faulty variants of definitions below, each with the mistake its name tells; *)
(* the specification does not use them.  PROJECT.json pairs each with the      *)
(* property that must notice it.                                               *)
IgnoresWrap == Available - (totalIn - totalOut)
TakesBusy(b) == TRUE
LeavesUnlinked(lk, b) == lk
ReclaimsNone == [free |-> freeHead, head |-> qHead, tail |-> qTail, link |-> link]
-----------------------------------------------------------------------------
(* Building blocks. *)

SMPI_ALIGN(n) == n + Line

\* NEXT and CURRENT go back to FIRST when they have passed LAST.
Advance(at, step) == IF at + step > Available THEN 0 ELSE at + step

Minimum(a, b) == IF a < b THEN a ELSE b

\* smpi_get_avail_length, with the counters as they are at its second reading; the
\* first, which tells the formula, may be older.  The unsigned difference of the
\* second formula is one byte short.
Unused ==
    IF sizeRead = "notless" THEN Available - ((totalIn - totalOut) % Modulus)
    ELSE Available - ((Modulus - 1 - totalOut + totalIn) % Modulus)

AvailLength ==
    LET lines == ((Unused \div Line) * Line) - Line IN IF lines < 0 THEN 0 ELSE lines

\* What a packet can hold.
PktAvail == Minimum(AvailLength, Eager) - IntSize

\* The packet is written at NEXT; what it overlaps in the ring is lost.
Overlaps(p, q) == p.at < q.at + q.bytes /\ q.at < p.at + p.bytes

WritePacket(kind, bytes, item, left, count, index) ==
    LET p == [kind |-> kind, at |-> nextPos, bytes |-> bytes, step |-> SMPI_ALIGN(bytes),
              item |-> item, left |-> left, count |-> count, index |-> index]
    IN  /\ mem' = {q \in mem : ~Overlaps(p, q)} \cup {p}
        /\ nextPos' = Advance(nextPos, p.step)
        /\ totalIn' = (totalIn + p.step) % Modulus

\* A buffer whose data the receiver has copied.
IsFree(b) == b \notin busy

\* send_buf_reclaim: the buffers at the head of the send queue that are free, in order.
Chain[b \in Bufs \cup {Nil}, n \in 0 .. NumBufs] ==
    IF b = Nil \/ n = 0 \/ ~IsFree(b) THEN << >> ELSE <<b>> \o Chain[link[b], n - 1]

Reclaimed ==
    LET done == Chain[qHead, NumBufs]
        last == done[Len(done)]
    IN  IF done = << >> THEN [free |-> freeHead, head |-> qHead, tail |-> qTail, link |-> link]
        ELSE [free |-> qHead, head |-> link[last], tail |-> IF link[last] = Nil THEN Nil ELSE qTail,
              link |-> [link EXCEPT ![last] = freeHead]]

\* get_buf_from_pool takes the first free buffer off its list.
Taken(b) == [link EXCEPT ![b] = Nil]

\* link_buf_to_send_queue appends it.
Linked(lk, b) == IF qHead = Nil THEN lk ELSE [lk EXCEPT ![qTail] = b]
-----------------------------------------------------------------------------
(* The sender. *)

\* The program sends a message: it goes to the send queue.  (A send that finds the
\* queue empty and the ring free does the same and what follows at once.)
SendQ_enqueue ==
    /\ accepted < MaxMsgs
    /\ accepted' = accepted + 1
    /\ \/ \E n \in EagerSizes :
             sendq' = Append(sendq, [kind |-> "eager", left |-> n, part |-> "whole"])
       \/ \E n \in LongSizes :
             sendq' = Append(sendq, [kind |-> "long", left |-> n, part |-> "header"])
    /\ UNCHANGED <<sizeRead, filling, items, nextPos, totalIn, poolVars, busy, mem, recvVars>>

\* The head of the send queue is to be written, and no batch is being filled.
Active(parts) == sendq # << >> /\ Head(sendq).part \in parts /\ filling = NoBatch

\* The first reading of the counters in smpi_get_avail_length.
CompareCounters ==
    /\ Active({"whole", "rest", "header", "cont"}) /\ sizeRead = "none"
    /\ sizeRead' = IF totalIn >= totalOut THEN "notless" ELSE "less"
    /\ UNCHANGED <<sendq, accepted, filling, items, nextPos, totalIn, poolVars, busy, mem, recvVars>>

\* n of what is left of the message at the head of the queue have been written.
Written(n, part) ==
    LET m == Head(sendq) IN
    sendq' = IF m.left = n THEN Tail(sendq)
             ELSE [sendq EXCEPT ![1].left = @ - n, ![1].part = part]

\* MPIDI_CH3I_SMP_writev, one packet: the first segment, the header of a message or
\* the rest of it, must fit.
Writev ==
    /\ Active({"whole", "rest"}) /\ sizeRead # "none"
    /\ LET m == Head(sendq)
           n == Minimum(m.left, PktAvail)
       IN IF AvailLength > 0 /\ PktAvail >= (IF m.part = "whole" THEN Header ELSE m.left)
          THEN /\ WritePacket(IF m.part = "whole" THEN "eager" ELSE "rest",
                              IntSize + n, items, m.left - n, 0, Nil)
               /\ Written(n, "rest")
               /\ items' = items + 1
          ELSE UNCHANGED <<mem, nextPos, totalIn, sendq, items>>
    /\ sizeRead' = "none"
    /\ UNCHANGED <<accepted, filling, poolVars, busy, recvVars>>

\* MPIDI_CH3I_SMP_writev_rndv_header: the header tells the first buffer of the batch
\* that follows.
Writev_rndv_header ==
    /\ Active({"header"}) /\ sizeRead # "none"
    /\ LET r == Reclaimed
           room == AvailLength > 0 /\ PktAvail >= Line
       IN /\ IF room
             THEN /\ freeHead' = r.free /\ qHead' = r.head /\ qTail' = r.tail /\ link' = r.link
             ELSE UNCHANGED <<freeHead, qHead, qTail, link>>
          /\ IF room /\ r.free # Nil
             THEN /\ WritePacket("header", IntSize + Header, Nil, Head(sendq).left, 0, r.free)
                  /\ sendq' = [sendq EXCEPT ![1].part = "data"]
             ELSE UNCHANGED <<mem, nextPos, totalIn, sendq>>
    /\ sizeRead' = "none"
    /\ UNCHANGED <<accepted, filling, items, hasNext, content, busy, recvVars>>

\* MPIDI_CH3I_SMP_writev_rndv_data begins a batch, without a look at the ring.
Writev_rndv_data ==
    /\ Active({"data"})
    /\ filling' = [NoBatch EXCEPT !.first = freeHead]
    /\ UNCHANGED <<sendq, accepted, sizeRead, items, nextPos, totalIn, poolVars, busy, mem, recvVars>>

\* MPIDI_CH3I_SMP_writev_rndv_data_cont begins a further batch.
Writev_rndv_data_cont ==
    /\ Active({"cont"}) /\ sizeRead # "none"
    /\ sizeRead' = "none"
    /\ LET r == Reclaimed IN
       IF AvailLength >= 2 * IntSize
       THEN /\ freeHead' = r.free /\ qHead' = r.head /\ qTail' = r.tail /\ link' = r.link
            /\ filling' = [NoBatch EXCEPT !.first = r.free]
       ELSE UNCHANGED <<freeHead, qHead, qTail, link, filling>>
    /\ UNCHANGED <<sendq, accepted, items, nextPos, totalIn, hasNext, content, busy, mem, recvVars>>

Filling == filling.first # Nil

\* All data of the message is in buffers, or as many as a batch may have.
BatchFull == filling.count = Head(sendq).left \/ filling.tries >= Batch

\* The next buffer of the batch: taken, filled, marked busy and linked.
FillBuffer ==
    /\ Filling /\ ~BatchFull /\ freeHead # Nil
    /\ LET b == freeHead IN
       /\ freeHead' = link[b]
       /\ link' = Linked(Taken(b), b)
       /\ content' = [content EXCEPT ![b] = items]
       /\ busy' = busy \cup {b} /\ hasNext' = hasNext \cup {b}
       /\ qHead' = IF qHead = Nil THEN b ELSE qHead
       /\ qTail' = b
       /\ filling' = [filling EXCEPT !.last = b, !.tries = @ + 1, !.count = @ + 1]
    /\ items' = items + 1
    /\ UNCHANGED <<sendq, accepted, sizeRead, nextPos, totalIn, mem, recvVars>>

\* No buffer is left: buffers are reclaimed, and the batch goes on if there are any.
\* The attempt counts for the size of the batch.
ReclaimForBatch ==
    /\ Filling /\ ~BatchFull /\ freeHead = Nil
    /\ LET r == Reclaimed
           tries == filling.tries + 1
       IN IF tries >= Batch \/ r.free = Nil
          THEN /\ filling' = [filling EXCEPT !.tries = Batch]
               /\ IF tries >= Batch THEN UNCHANGED <<freeHead, qHead, qTail, link>>
                  ELSE freeHead' = r.free /\ qHead' = r.head /\ qTail' = r.tail /\ link' = r.link
          ELSE /\ filling' = [filling EXCEPT !.tries = tries]
               /\ freeHead' = r.free /\ qHead' = r.head /\ qTail' = r.tail /\ link' = r.link
    /\ UNCHANGED <<sendq, accepted, sizeRead, items, nextPos, totalIn, hasNext, content, busy,
                   mem, recvVars>>

\* The batch is closed and announced: by its size, and its first buffer if it is a
\* further one.
AnnounceBatch ==
    /\ Filling /\ BatchFull
    /\ hasNext' = hasNext \ {filling.last}
    /\ IF Head(sendq).part = "data"
       THEN WritePacket("data", IntSize, Nil, 0, filling.count, Nil)
       ELSE WritePacket("cont", 2 * IntSize, Nil, 0, filling.count, filling.first)
    /\ Written(filling.count, "cont")
    /\ filling' = NoBatch
    /\ UNCHANGED <<accepted, sizeRead, items, freeHead, qHead, qTail, link, content, busy, recvVars>>
-----------------------------------------------------------------------------
(* The receiver. *)

\* The packet at CURRENT, if the counters differ (MPIDI_CH3I_SMP_pull_header and the
\* polls of readv, readv_rndv and readv_rndv_cont).
Pull_header ==
    /\ reading = {} /\ expects # "walk" /\ totalIn # totalOut
    /\ reading' = {p \in mem : p.at = current}
    /\ reading' # {}
    /\ UNCHANGED <<sendVars, poolVars, busy, mem, totalOut, current, expects, walk, received>>

\* The packet has been copied, or its header handled, and its room is given back
\* (smpi_complete_recv).
Complete_recv ==
    /\ \E p \in reading :
          /\ current' = Advance(current, p.step)
          /\ totalOut' = (totalOut + p.step) % Modulus
          /\ mem' = mem \ {p}
          /\ received' = IF p.kind \in {"eager", "rest"} THEN Append(received, p.item) ELSE received
          /\ expects' = CASE p.kind \in {"eager", "rest"} -> IF p.left > 0 THEN "rest" ELSE "message"
                          [] p.kind = "header" -> "data"
                          [] OTHER -> "walk"
          /\ walk' = CASE p.kind = "header" -> [index |-> p.index, count |-> 0, left |-> p.left]
                       [] p.kind = "data" -> [walk EXCEPT !.count = p.count]
                       [] p.kind = "cont" -> [walk EXCEPT !.count = p.count, !.index = p.index]
                       [] OTHER -> walk
    /\ reading' = {}
    /\ UNCHANGED <<sendVars, poolVars, busy>>

\* readv_rndv and readv_rndv_cont copy a buffer, read where the next one is and mark
\* it free; the batch ends with its bytes or with a buffer without a next one.
Copy_buffer ==
    /\ expects = "walk" /\ walk.index # Nil
    /\ LET b == walk.index
           ends == walk.count = 1 \/ b \notin hasNext
       IN /\ received' = Append(received, content[b])
          /\ busy' = busy \ {b}
          /\ walk' = [index |-> IF ends THEN Nil ELSE link[b],
                      count |-> IF ends THEN 0 ELSE walk.count - 1, left |-> walk.left - 1]
          /\ expects' = IF ~ends THEN "walk" ELSE IF walk.left = 1 THEN "message" ELSE "cont"
    /\ UNCHANGED <<sendVars, poolVars, mem, totalOut, current, reading>>
-----------------------------------------------------------------------------
Write_progress ==
    \/ CompareCounters \/ Writev \/ Writev_rndv_header
    \/ Writev_rndv_data \/ Writev_rndv_data_cont
    \/ FillBuffer \/ ReclaimForBatch \/ AnnounceBatch

Read_progress == Pull_header \/ Complete_recv \/ Copy_buffer

Next == SendQ_enqueue \/ Write_progress \/ Read_progress

Spec == Init /\ [][Next]_vars

\* Both processes call the progress engine.
Fairness == WF_vars(Write_progress) /\ WF_vars(Read_progress)

FairSpec == Spec /\ Fairness
-----------------------------------------------------------------------------
(* Properties *)

\* No packet is lost to one written over it, though the packet that announces a first
\* batch is written without a look at the room and the room is taken for a byte more
\* than it is once the counters have wrapped: whenever the counters differ, a packet
\* of the kind the receiver expects begins where it reads, and when they are equal the
\* ring is empty.  Nor does a packet leave the area of the ring.
PacketsIntact ==
    /\ totalIn = totalOut <=> mem = {}
    /\ expects # "walk" /\ mem # {} =>
          \E p \in mem : p.at = current
             /\ CASE expects = "message" -> p.kind \in {"eager", "header"}
                  [] OTHER -> p.kind = expects
    /\ \A p \in mem : p.at + p.bytes <= Available + Eager + IntSize

\* The receiver gets the data of all messages in order and whole: no buffer is filled
\* again before it has been copied, and none is copied before it is filled.
DataInOrder == \A i \in DOMAIN received : received[i] = i - 1

\* The assertions on buffers never fail: one in the receiver's hands is busy, and one
\* on the free list is not.
ChainFrom[b \in Bufs \cup {Nil}, n \in 0 .. NumBufs] ==
    IF b = Nil \/ n = 0 THEN {} ELSE {b} \cup ChainFrom[link[b], n - 1]

BuffersAccounted ==
    LET free == ChainFrom[freeHead, NumBufs]
        queued == ChainFrom[qHead, NumBufs]
    IN  /\ free \cap queued = {} /\ free \cup queued = Bufs
        /\ free \cap busy = {}
        /\ expects = "walk" => walk.index \in busy
        /\ sendq # << >> /\ Head(sendq).part = "data" /\ ~Filling => freeHead # Nil

\* Everything the program sends is copied to the receiver in the end, also when the
\* ring or the pool is full for a while.
AllReceived == []<>(sendq = << >> /\ mem = {} /\ Len(received) = items)
=============================================================================
