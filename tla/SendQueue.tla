------------------------------ MODULE SendQueue ------------------------------
(***************************************************************************)
(* How one virtual connection sends over its rails with a shared receive   *)
(* queue (ibv_send.c, the rendezvous writes of ibv_rndv.c), and how the    *)
(* receiver restores the order (ibv_channel_manager.c).                    *)
(*                                                                         *)
(* A rail has so many work requests; what finds none waits in the rail's   *)
(* extended send queue.  Small messages may be coalesced: the buffer they  *)
(* share is put in an extended send queue first and filled while it waits. *)
(* A rendezvous writes its data by RDMA over one rail or over all of them  *)
(* and then sends a FINISH packet on every rail.                           *)
(*                                                                         *)
(* Messages are named by the sequence number CH3 gives them, 0, 1, 2, ...; *)
(* the channel numbers buffers with a counter of its own.  Rails deliver   *)
(* in order (reliable connections).                                        *)
(***************************************************************************)
EXTENDS Integers, Sequences, FiniteSets, SequencesExt

CONSTANTS
    NumRails,   \* rdma_num_rails
    MaxWqe,     \* rdma_default_max_send_wqe, the work requests of a rail
    Coalescings,\* whether messages are coalesced, one value of the set in a behaviour
    Threshold,  \* rdma_coalesce_threshold
    Room,       \* messages that fit into one buffer
    MaxMsgs     \* bound: CH3 sequence numbers given out

ASSUME SizesAssumption ==
    /\ {NumRails, MaxWqe, Room} \subseteq Nat \ {0}
    /\ Threshold \in Nat \ {0} /\ MaxMsgs \in Nat /\ Coalescings \subseteq BOOLEAN

Rails == 0 .. NumRails - 1
NoRail == NumRails
Numbers == 0 .. MaxMsgs - 1

VARIABLES
    useCoalesce,\* rdma_use_coalesce
    ch3Next,    \* vc->seqnum_send
    nextToSend, \* vc->mrail.seqnum_next_tosend
    rail,       \* the queues of each rail at the sender, see Queues
    coalescing, \* the rail whose extended queue holds coalesce_vbuf, or NoRail
    outstanding,\* vc->mrail.outstanding_eager_vbufs
    stripes,    \* <<n, r>>: the rendezvous with first FINISH n wrote data on rail r
    finished,   \* FINISH packets whose completion has been processed
    nextToRecv, \* the receiver's seqnum_next_torecv
    vqueue,     \* vqueue[r]: what came too early on rail r
    handled,    \* the messages handed up, in order
    written     \* <<n, r>>: stripes that have arrived

sendVars == <<ch3Next, nextToSend, rail, coalescing, outstanding, stripes>>
recvVars == <<nextToRecv, vqueue, handled, written>>
vars == <<useCoalesce, sendVars, finished, recvVars>>

\* A buffer: its kind, the number in its header, and the messages it carries;
\* the data of a rendezvous has the number of its first FINISH in msgs.
Vbufs == [kind : {"eager", "finish", "data"}, num : Numbers, msgs : Seq(Numbers)]

\* The extended send queue, what is posted and not completed, and what of
\* that has not reached the peer yet.
Queues == [ext : Seq(Vbufs), posted : Seq(Vbufs), wire : Seq(Vbufs)]

TypeOK ==
    /\ useCoalesce \in Coalescings
    /\ ch3Next \in 0 .. MaxMsgs /\ nextToSend \in 0 .. MaxMsgs
    /\ rail \in [Rails -> Queues]
    /\ \A r \in Rails : Len(rail[r].wire) <= Len(rail[r].posted) /\ Len(rail[r].posted) <= MaxWqe
    /\ coalescing \in Rails \cup {NoRail}
    /\ outstanding \in 0 .. MaxMsgs
    /\ stripes \subseteq Numbers \X Rails /\ written \subseteq stripes
    /\ finished \subseteq Numbers
    /\ nextToRecv \in 0 .. MaxMsgs
    /\ vqueue \in [Rails -> Seq(Vbufs)]
    /\ handled \in Seq(Numbers)

Init ==
    /\ useCoalesce \in Coalescings
    /\ ch3Next = 0 /\ nextToSend = 0
    /\ rail = [r \in Rails |-> [ext |-> << >>, posted |-> << >>, wire |-> << >>]]
    /\ coalescing = NoRail /\ outstanding = 0
    /\ stripes = {} /\ finished = {}
    /\ nextToRecv = 0
    /\ vqueue = [r \in Rails |-> << >>]
    /\ handled = << >> /\ written = {}
-----------------------------------------------------------------------------
(* Faulty variants of definitions below, each with the mistake its name tells; *)
(* the specification does not use them.  PROJECT.json pairs each with the      *)
(* property that must notice it.                                               *)
NewestFirst(q, v) == [q EXCEPT !.ext = <<v>> \o @]
TakesAny(v) == TRUE
NeverFlushes(left) == FALSE
FinishesFirst(r, q, n, S) ==
    LET v == [kind |-> "data", num |-> n, msgs |-> <<n>>]
        f == [kind |-> "finish", num |-> nextToSend + r, msgs |-> <<n + r>>]
    IN  IF r \in S THEN [q EXCEPT !.ext = @ \o <<f, v>>] ELSE [q EXCEPT !.ext = Append(@, f)]
-----------------------------------------------------------------------------
(* Building blocks on the queues q of one rail. *)

Wqes(q) == MaxWqe - Len(q.posted)

PostNow(q, v) == [q EXCEPT !.posted = Append(@, v), !.wire = Append(@, v)]

MRAILI_Ext_sendq_enqueue(q, v) == [q EXCEPT !.ext = Append(@, v)]

\* As many as there are work requests for.
MRAILI_Ext_sendq_send(q) ==
    LET n == IF Wqes(q) < Len(q.ext) THEN Wqes(q) ELSE Len(q.ext) IN
    [ext |-> SubSeq(q.ext, n + 1, Len(q.ext)),
     posted |-> q.posted \o SubSeq(q.ext, 1, n),
     wire |-> q.wire \o SubSeq(q.ext, 1, n)]

\* What finds no work request waits.
PostOrEnqueue(q, v) ==
    IF Wqes(q) = 0 THEN MRAILI_Ext_sendq_enqueue(q, v) ELSE PostNow(q, v)

\* FLUSH_RAIL: the coalesced buffer is sent first if it waits on this rail r.
FLUSH_RAIL(q, r) == IF coalescing = r THEN MRAILI_Ext_sendq_send(q) ELSE q

\* The queues of rail r after MRAILI_RDMA_Put, if any, and the FINISH of the
\* rendezvous whose first FINISH is n; S are the rails that carry data.
PutAndFinish(r, q, n, S) ==
    LET v == [kind |-> "data", num |-> n, msgs |-> <<n>>]
        f == [kind |-> "finish", num |-> nextToSend + r, msgs |-> <<n + r>>]
        put == IF r \in S THEN PostOrEnqueue(q, v) ELSE q
    IN  PostOrEnqueue(FLUSH_RAIL(put, r), f)

MRAILI_Coalesce_ok(q) ==
    useCoalesce /\ (outstanding >= Threshold \/ Wqes(q) = 0)

\* A completion that leaves so many eager buffers outstanding flushes the
\* coalesced one (MRAILI_Process_send).
FlushesAfter(left) == left < Threshold

\* coalesce_vbuf is forgotten when it has been posted.
StillCoalescing(rl) == 
    IF coalescing # NoRail /\ rl[coalescing].ext # << >> THEN coalescing ELSE NoRail

\* The next buffer in order (MPIDI_CH3I_MRAILI_Cq_poll, ..._Waiting_msg).
Expected(v) == v.num = nextToRecv
-----------------------------------------------------------------------------
(* The sender. *)

\* The message joins the coalesced buffer (MRAILI_Get_Vbuf returns it).
EagerAppend ==
    /\ ch3Next < MaxMsgs /\ coalescing # NoRail
    /\ LET q == rail[coalescing] IN
       /\ Len(Last(q.ext).msgs) < Room
       /\ rail' = [rail EXCEPT ![coalescing].ext[Len(q.ext)].msgs = Append(@, ch3Next)]
    /\ ch3Next' = ch3Next + 1
    /\ UNCHANGED <<nextToSend, coalescing, outstanding, stripes, finished, recvVars>>

\* The rails once MRAILI_Get_Vbuf has sent a coalesced buffer without room.
Flushed == [r \in Rails |-> FLUSH_RAIL(rail[r], r)]

\* The message gets a new buffer, on the rail r that MRAILI_Send_select_rail
\* picks: it becomes the coalesced buffer, without a number of the channel's,
\* or is sent at once (post_srq_send).
EagerNew(r) ==
    /\ ch3Next < MaxMsgs
    /\ coalescing # NoRail => Len(Last(rail[coalescing].ext).msgs) = Room
    /\ LET v == [kind |-> "eager", num |-> 0, msgs |-> <<ch3Next>>] IN
       IF MRAILI_Coalesce_ok(Flushed[r])
       THEN /\ rail' = [Flushed EXCEPT ![r] =
                            MRAILI_Ext_sendq_enqueue(@, [v EXCEPT !.num = ch3Next])]
            /\ coalescing' = r
            /\ UNCHANGED nextToSend
       ELSE /\ rail' = [Flushed EXCEPT ![r] = PostOrEnqueue(@, [v EXCEPT !.num = nextToSend])]
            /\ coalescing' = NoRail
            /\ nextToSend' = nextToSend + 1
    /\ ch3Next' = ch3Next + 1
    /\ outstanding' = outstanding + 1
    /\ UNCHANGED <<stripes, finished, recvVars>>

\* MPIDI_CH3I_MRAILI_Rendezvous_rput_push: the data on one rail or striped
\* over all, then a FINISH on every rail.
Rendezvous_rput_push(S) ==
    /\ ch3Next + NumRails <= MaxMsgs
    /\ rail' = [r \in Rails |-> PutAndFinish(r, rail[r], ch3Next, S)]
    /\ stripes' = stripes \cup ({ch3Next} \X S)
    /\ ch3Next' = ch3Next + NumRails /\ nextToSend' = nextToSend + NumRails
    /\ coalescing' = NoRail
    /\ UNCHANGED <<outstanding, finished, recvVars>>

\* The completion of the oldest buffer of rail r that has reached the peer.
MRAILI_Process_send(r) ==
    LET q == rail[r]
        v == Head(q.posted)
        left == IF v.kind = "eager" THEN outstanding - 1 ELSE outstanding
        done == [rail EXCEPT ![r].posted = Tail(@)]
        flushed == IF v.kind = "eager" /\ FlushesAfter(left)
                   THEN [k \in Rails |-> FLUSH_RAIL(done[k], k)] ELSE done
    IN
    /\ Len(q.posted) > Len(q.wire)
    /\ outstanding' = left
    /\ rail' = [flushed EXCEPT ![r] = MRAILI_Ext_sendq_send(@)]
    /\ coalescing' = StillCoalescing(rail')
    /\ finished' = finished \cup (IF v.kind = "finish" THEN {v.msgs[1]} ELSE {})
    /\ UNCHANGED <<ch3Next, nextToSend, stripes, recvVars>>
-----------------------------------------------------------------------------
(* The receiver. *)

Handle(v) ==
    /\ handled' = handled \o v.msgs
    /\ nextToRecv' = nextToRecv + 1

\* A rendezvous write reaches memory: nobody is told.
DataWritten(r) ==
    /\ rail[r].wire # << >> /\ Head(rail[r].wire).kind = "data"
    /\ rail' = [rail EXCEPT ![r].wire = Tail(@)]
    /\ written' = written \cup {<<Head(rail[r].wire).msgs[1], r>>}
    /\ UNCHANGED <<ch3Next, nextToSend, coalescing, outstanding, stripes, finished,
                   nextToRecv, vqueue, handled>>

\* A buffer arrives in its turn and its packets are handled, or it is queued.
MRAILI_Cq_poll(r) ==
    /\ rail[r].wire # << >> /\ Head(rail[r].wire).kind # "data"
    /\ rail' = [rail EXCEPT ![r].wire = Tail(@)]
    /\ LET v == Head(rail[r].wire) IN
       \/ Expected(v) /\ Handle(v) /\ UNCHANGED vqueue
       \/ /\ ~Expected(v)
          /\ vqueue' = [vqueue EXCEPT ![r] = Append(@, v)]
          /\ UNCHANGED <<nextToRecv, handled>>
    /\ UNCHANGED <<ch3Next, nextToSend, coalescing, outstanding, stripes, finished, written>>

\* The oldest queued buffer of rail r is next.
MRAILI_Waiting_msg(r) ==
    /\ vqueue[r] # << >> /\ Expected(Head(vqueue[r]))
    /\ Handle(Head(vqueue[r]))
    /\ vqueue' = [vqueue EXCEPT ![r] = Tail(@)]
    /\ UNCHANGED <<sendVars, finished, written>>
-----------------------------------------------------------------------------
Next ==
    /\ UNCHANGED useCoalesce
    /\ \/ EagerAppend
       \/ \E r \in Rails : EagerNew(r) \/ MRAILI_Process_send(r) \/ DataWritten(r)
                           \/ MRAILI_Cq_poll(r) \/ MRAILI_Waiting_msg(r)
       \/ \E S \in {{r} : r \in Rails} \cup {Rails} : Rendezvous_rput_push(S)

Spec == Init /\ [][Next]_vars

\* The adapters deliver, and both processes poll.
Fairness ==
    \A r \in Rails :
        /\ WF_vars(UNCHANGED useCoalesce /\ (DataWritten(r) \/ MRAILI_Cq_poll(r)))
        /\ WF_vars(UNCHANGED useCoalesce /\ MRAILI_Process_send(r))
        /\ WF_vars(UNCHANGED useCoalesce /\ MRAILI_Waiting_msg(r))

FairSpec == Spec /\ Fairness
-----------------------------------------------------------------------------
(* Properties. *)

\* Without coalescing, messages are handed up in the order CH3 sent them, each
\* once, whatever rails they took.  (A buffer with coalesced messages takes no
\* number of the channel's while the receiver counts it, ibv_send.c:1052: the
\* numbers run apart, and what follows is handed up late, twice or never.)
InOrder == ~useCoalesce => \A i \in DOMAIN handled : handled[i] = i - 1

\* The data of a rendezvous is written before anybody relies on it: the receiver takes
\* the rendezvous for complete when it has handled the FINISH packets of all rails, and
\* the sender gives its buffer back to the program when all of them have completed.
DataBeforeFinish ==
    \A n \in Numbers, r \in Rails :
        /\ <<n, r>> \in stripes
        /\ \/ \A k \in Rails : \E i \in DOMAIN handled : handled[i] = n + k
           \/ {n + k : k \in Rails} \subseteq finished
        => <<n, r>> \in written

\* Without coalescing, once everything sent has arrived, everything has been
\* handed up or can be: no buffer waits for a number that will not come.
NothingLeftBehind ==
    ~useCoalesce /\ (\A r \in Rails : rail[r].ext = << >> /\ rail[r].wire = << >>
                      /\ (vqueue[r] # << >> => ~Expected(Head(vqueue[r]))))
        => Len(handled) = ch3Next

\* Every buffer is sent in the end, also the one that is being filled.
AllSent == []<>(\A r \in Rails : rail[r].ext = << >>)
=============================================================================
