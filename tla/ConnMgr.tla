------------------------------- MODULE ConnMgr -------------------------------
(***************************************************************************)
(* On-demand connection establishment of the gen2 channel (cm.c), with the *)
(* part of the progress engine that queues and flushes messages around it  *)
(* (ch3_isend.c, ch3_progress.c).                                          *)
(*                                                                         *)
(* Three threads per process touch a virtual connection (VC):              *)
(*   - main: MPI calls and the progress engine; it reads vc->ch.state      *)
(*     without a lock and takes cm_conn_state_lock only inside CM_Connect  *)
(*     and CM_Establish;                                                   *)
(*   - completion: cm_completion_handler, one UD message at a time, each   *)
(*     handled under the lock;                                             *)
(*   - timer: cm_timeout_handler, which resends what is still pending.     *)
(* Connection messages travel over an unreliable datagram QP, so they are  *)
(* lost, delayed and reordered, and resending makes several copies.        *)
(*                                                                         *)
(* XRC, RDMA-CM, checkpointing and VCs without a process group are not     *)
(* modelled here.                                                          *)
(***************************************************************************)
EXTENDS Integers, Sequences, FiniteSets

CONSTANTS
    Procs,      \* ranks of the process group
    Talk,       \* pairs <<p, q>>: the program sends messages from p to q
    MaxMsgs     \* bound on the messages sent from one process to another

ASSUME ProcsAssumption   == Procs \subseteq Int
ASSUME TalkAssumption    == Talk \subseteq {t \in Procs \X Procs : t[1] # t[2]}
ASSUME MaxMsgsAssumption == MaxMsgs \in Nat

VARIABLES
    chState,    \* chState[p][q]: vc->ch.state of p's VC to q
    qp,         \* qp[p][q]: state of the VC's RC queue pair
    qpn,        \* qpn[p][q]: queue pairs created so far; the last is in use
    remoteQpn,  \* remoteQpn[p][q]: the peer queue pair it was connected to
    pendCli,    \* pendCli[p][q]: CM_PENDING_CLIENT entries for peer q
    pendSrv,    \* pendSrv[p][q]: CM_PENDING_SERVER entries for peer q
    net,        \* datagrams on the wire, each in one or more copies
    timer,      \* timer[p]: where the timer thread is
    cmBusy,     \* cmBusy[p]: completion thread is inside cm_enable, lock held,
                \* between marking the VC connected and raising the flag
    newConn,    \* newConn[p]: MPIDI_CH3I_Process.new_conn_complete
    connecting, \* connecting[p]: peers main found unconnected and is about to
                \* call CM_Connect for
    todo,       \* todo[p]: peers cm_handle_pending_send has not visited yet
    sendq,      \* sendq[p][q]: vc->ch.cm_sendq, messages waiting for the VC
    rc,         \* rc[p][q]: messages posted on the RC queue pair, not received
    issued,     \* issued[p][q]: messages the program has sent
    received,   \* received[p][q]: last message from p that q received
    abort       \* some process took a CM_ERR_ABORT branch

connVars == <<chState, qp, qpn, remoteQpn, pendCli, pendSrv>>
mainVars == <<connecting, todo>>
dataVars == <<sendq, rc, issued, received>>
vars == <<connVars, net, timer, cmBusy, newConn, mainVars, dataVars, abort>>

ChStates == {"UNCONNECTED", "CONNECTING_CLI", "CONNECTING_SRV", "IDLE"}
QpStates == {"none", "INIT", "RTR", "RTS"}

Peers(p) == Procs \ {p}

CmMsg == [type : {"REQ", "REP"}, src : Procs, dst : Procs, qpn : Nat]

ConnTypeOK ==
    /\ chState \in [Procs -> [Procs -> ChStates]]
    /\ qp \in [Procs -> [Procs -> QpStates]]
    /\ qpn \in [Procs -> [Procs -> Nat]]
    /\ remoteQpn \in [Procs -> [Procs -> Nat]]
    /\ pendCli \in [Procs -> [Procs -> Nat]]
    /\ pendSrv \in [Procs -> [Procs -> Nat]]

ThreadTypeOK ==
    /\ net \subseteq CmMsg
    /\ timer \in [Procs -> {"top", "wait", "sleep"}]
    /\ cmBusy \in [Procs -> BOOLEAN]
    /\ newConn \in [Procs -> BOOLEAN]
    /\ connecting \in [Procs -> SUBSET Procs]
    /\ todo \in [Procs -> SUBSET Procs]
    /\ abort \in BOOLEAN

DataTypeOK ==
    /\ sendq \in [Procs -> [Procs -> Seq(Nat)]]
    /\ rc \in [Procs -> [Procs -> Seq(Nat)]]
    /\ issued \in [Procs -> [Procs -> Nat]]
    /\ received \in [Procs -> [Procs -> Nat]]

TypeOK == ConnTypeOK /\ ThreadTypeOK /\ DataTypeOK

PerVc(x) == [p \in Procs |-> [q \in Procs |-> x]]

Init ==
    /\ chState = PerVc("UNCONNECTED")
    /\ qp = PerVc("none")
    /\ qpn = PerVc(0)
    /\ remoteQpn = PerVc(0)
    /\ pendCli = PerVc(0)
    /\ pendSrv = PerVc(0)
    /\ net = {}
    /\ timer = [p \in Procs |-> "top"]
    /\ cmBusy = [p \in Procs |-> FALSE]
    /\ newConn = [p \in Procs |-> FALSE]
    /\ connecting = [p \in Procs |-> {}]
    /\ todo = [p \in Procs |-> {}]
    /\ sendq = PerVc(<< >>)
    /\ rc = PerVc(<< >>)
    /\ issued = PerVc(0)
    /\ received = PerVc(0)
    /\ abort = FALSE
-----------------------------------------------------------------------------
(* Faulty variants of definitions below, each with the mistake its name tells; *)
(* the specification does not use them.  PROJECT.json pairs each with the      *)
(* property that must notice it.                                               *)
ConnectWithoutRecheck(p, q) == TRUE
ReplyTakenTwice(p, q) == chState[p][q] # "UNCONNECTED"
PostPastTheQueue(p, q) == chState[p][q] = "IDLE"
VisitStaleSnapshot(p) ==
    todo' = [todo EXCEPT ![p] = {q \in Procs \ {p} : chState[p][q] = "IDLE"}]
OnlyRequestsResent(p) ==
    {[type |-> "REQ", src |-> p, dst |-> q, qpn |-> qpn[p][q]] :
        q \in {r \in Procs : pendCli[p][r] > 0}}
-----------------------------------------------------------------------------
(* Building blocks. *)

Req(p, q, n) == [type |-> "REQ", src |-> p, dst |-> q, qpn |-> n]
Rep(p, q, n) == [type |-> "REP", src |-> p, dst |-> q, qpn |-> n]

\* cm_conn_state_lock of p is free.  Every critical section is one action,
\* except cm_enable's, during which cmBusy[p] holds.
LockFree(p) == ~cmBusy[p]

\* The main thread of p is between two MPI calls or progress polls.
MainFree(p) == connecting[p] = {} /\ todo[p] = {}

\* cm_pending_num == 0
NothingPending(p) == \A q \in Procs : pendCli[p][q] = 0 /\ pendSrv[p][q] = 0

\* The state tests of the code, each by the name of what it decides.
MustConnect(p, q) == chState[p][q] = "UNCONNECTED"
AwaitsReply(p, q) == chState[p][q] = "CONNECTING_CLI"

\* An idle VC takes a message directly, unless older ones are still queued.
CanPost(p, q) == chState[p][q] = "IDLE" /\ sendq[p][q] = << >>

\* cm_compare_peer within one process group: the smaller rank is the server.
ActAsServer(p, q) == q > p

\* cm_send_ud_msg appends an entry and, if it is now the only one, signals
\* the condition variable the timer thread waits on.
SignalTimer(p) ==
    timer' = IF NothingPending(p) /\ timer[p] = "wait"
             THEN [timer EXCEPT ![p] = "top"]
             ELSE timer

\* cm_handle_pending_send starts its pass over all VCs.
VisitAll(p) == todo' = [todo EXCEPT ![p] = Peers(p)]

\* Datagram m is taken off the wire and those in out put on it; another copy
\* of m may stay behind.
Exchange(m, out) ==
    \/ net' = (net \ {m}) \cup out
    \/ net' = net \cup out
-----------------------------------------------------------------------------
(* Main thread. *)

\* MPIDI_CH3_iSend (and iStartMsg, which has the same shape): post at once on
\* an idle VC with an empty queue, otherwise queue, and connect if the VC is
\* unconnected.  The state is read without the lock; CM_Connect tests it again.
MPIDI_CH3_iSend(p, q) ==
    LET m == issued[p][q] + 1 IN
    /\ MainFree(p)
    /\ <<p, q>> \in Talk
    /\ issued[p][q] < MaxMsgs
    /\ issued' = [issued EXCEPT ![p][q] = m]
    /\ \/ /\ CanPost(p, q)
          /\ rc' = [rc EXCEPT ![p][q] = Append(@, m)]
          /\ UNCHANGED <<sendq, connecting>>
       \/ /\ ~CanPost(p, q)
          /\ sendq' = [sendq EXCEPT ![p][q] = Append(@, m)]
          /\ connecting' = IF chState[p][q] = "UNCONNECTED"
                           THEN [connecting EXCEPT ![p] = {q}]
                           ELSE connecting
          /\ UNCHANGED rc
    /\ UNCHANGED <<connVars, net, timer, cmBusy, newConn, todo, received, abort>>

\* MPIDI_CH3I_CM_Connect: become client, unless the completion thread has
\* meanwhile accepted the peer's own request.
MPIDI_CH3I_CM_Connect(p, q) ==
    /\ q \in connecting[p]
    /\ LockFree(p)
    /\ connecting' = [connecting EXCEPT ![p] = {}]
    /\ \/ /\ MustConnect(p, q)
          /\ chState' = [chState EXCEPT ![p][q] = "CONNECTING_CLI"]
          /\ qp' = [qp EXCEPT ![p][q] = "INIT"]
          /\ qpn' = [qpn EXCEPT ![p][q] = @ + 1]
          /\ pendCli' = [pendCli EXCEPT ![p][q] = @ + 1]
          /\ net' = net \cup {Req(p, q, qpn[p][q] + 1)}
          /\ SignalTimer(p)
       \/ /\ ~MustConnect(p, q)
          /\ UNCHANGED <<chState, qp, qpn, pendCli, net, timer>>
    /\ UNCHANGED <<remoteQpn, pendSrv, cmBusy, newConn, todo, dataVars, abort>>

\* MPIDI_CH3I_Progress sees new_conn_complete: clear it, then visit every VC.
NewConnComplete(p) ==
    /\ MainFree(p)
    /\ newConn[p]
    /\ newConn' = [newConn EXCEPT ![p] = FALSE]
    /\ VisitAll(p)
    /\ UNCHANGED <<connVars, net, timer, cmBusy, connecting, dataVars, abort>>

\* One VC of cm_handle_pending_send; cm_send_pending_msg posts the whole queue.
\* The completion thread runs between the visits.
cm_handle_pending_send(p, q) ==
    /\ q \in todo[p]
    /\ todo' = [todo EXCEPT ![p] = @ \ {q}]
    /\ \/ /\ chState[p][q] = "IDLE"
          /\ rc' = [rc EXCEPT ![p][q] = @ \o sendq[p][q]]
          /\ sendq' = [sendq EXCEPT ![p][q] = << >>]
       \/ /\ chState[p][q] # "IDLE"
          /\ UNCHANGED <<rc, sendq>>
    /\ UNCHANGED <<connVars, net, timer, cmBusy, newConn, connecting, issued,
                   received, abort>>

\* MPIDI_CH3I_CM_Establish: the first message on the RC queue pair tells the
\* server that the client is connected.
MPIDI_CH3I_CM_Establish(p, q) ==
    /\ LockFree(p)
    /\ \/ /\ pendSrv[p][q] > 0
          /\ pendSrv' = [pendSrv EXCEPT ![p][q] = @ - 1]
          /\ qp' = [qp EXCEPT ![p][q] = "RTS"]
          /\ chState' = [chState EXCEPT ![p][q] = "IDLE"]
          /\ UNCHANGED abort
       \/ /\ pendSrv[p][q] = 0
          /\ abort' = TRUE
          /\ UNCHANGED <<pendSrv, qp, chState>>
    /\ UNCHANGED <<qpn, remoteQpn, pendCli>>

\* MPIDI_CH3I_Progress picks up a message from q: on a VC that is still
\* connecting as server it is established and every VC flushed.
ReadProgress(p, q) ==
    /\ MainFree(p)
    /\ rc[q][p] # << >>
    /\ rc' = [rc EXCEPT ![q][p] = Tail(@)]
    /\ received' = [received EXCEPT ![q][p] = Head(rc[q][p])]
    /\ \/ /\ chState[p][q] = "CONNECTING_SRV"
          /\ MPIDI_CH3I_CM_Establish(p, q)
          /\ VisitAll(p)
       \/ /\ chState[p][q] # "CONNECTING_SRV"
          /\ UNCHANGED <<connVars, todo, abort>>
    /\ UNCHANGED <<net, timer, cmBusy, newConn, connecting, sendq, issued>>
-----------------------------------------------------------------------------
(* Completion thread of p, handling a datagram m from q. *)

\* cm_accept: p is unconnected and becomes server.
cm_accept(p, q, m) ==
    /\ qpn' = [qpn EXCEPT ![p][q] = @ + 1]
    /\ qp' = [qp EXCEPT ![p][q] = "RTR"]
    /\ remoteQpn' = [remoteQpn EXCEPT ![p][q] = m.qpn]
    /\ chState' = [chState EXCEPT ![p][q] = "CONNECTING_SRV"]
    /\ pendSrv' = [pendSrv EXCEPT ![p][q] = @ + 1]
    /\ Exchange(m, {Rep(p, q, qpn[p][q] + 1)})
    /\ SignalTimer(p)
    /\ UNCHANGED <<pendCli, abort>>

\* cm_accept_and_cancel: p had sent a request of its own; it becomes server
\* with the queue pair it has and drops its client entry.
cm_accept_and_cancel(p, q, m) ==
    /\ qp' = [qp EXCEPT ![p][q] = "RTR"]
    /\ remoteQpn' = [remoteQpn EXCEPT ![p][q] = m.qpn]
    /\ chState' = [chState EXCEPT ![p][q] = "CONNECTING_SRV"]
    /\ pendSrv' = [pendSrv EXCEPT ![p][q] = @ + 1]
    /\ Exchange(m, {Rep(p, q, qpn[p][q])})
    /\ SignalTimer(p)
    /\ \/ /\ pendCli[p][q] > 0
          /\ pendCli' = [pendCli EXCEPT ![p][q] = @ - 1]
          /\ UNCHANGED abort
       \/ /\ pendCli[p][q] = 0
          /\ abort' = TRUE
          /\ UNCHANGED pendCli
    /\ UNCHANGED qpn

\* cm_handle_msg, case CM_MSG_TYPE_REQ.
cm_handle_REQ(p, q, m) ==
    /\ m.type = "REQ" /\ m.src = q /\ m.dst = p
    /\ LockFree(p)
    /\ \/ /\ \/ chState[p][q] \in {"IDLE", "CONNECTING_SRV"}
             \/ chState[p][q] = "CONNECTING_CLI" /\ ~ActAsServer(p, q)
          /\ Exchange(m, {})
          /\ UNCHANGED <<connVars, timer, abort>>
       \/ /\ chState[p][q] = "CONNECTING_CLI" /\ ActAsServer(p, q)
          /\ cm_accept_and_cancel(p, q, m)
       \/ /\ chState[p][q] = "UNCONNECTED"
          /\ cm_accept(p, q, m)
    /\ UNCHANGED <<cmBusy, newConn, mainVars, dataVars>>

\* cm_handle_msg, case CM_MSG_TYPE_REP, with cm_enable up to the assignment
\* of the VC state.
cm_handle_REP(p, q, m) ==
    /\ m.type = "REP" /\ m.src = q /\ m.dst = p
    /\ LockFree(p)
    /\ Exchange(m, {})
    /\ \/ /\ ~AwaitsReply(p, q)
          /\ UNCHANGED <<connVars, cmBusy, abort>>
       \/ /\ AwaitsReply(p, q) /\ pendCli[p][q] > 0
          /\ pendCli' = [pendCli EXCEPT ![p][q] = @ - 1]
          /\ remoteQpn' = [remoteQpn EXCEPT ![p][q] = m.qpn]
          /\ qp' = [qp EXCEPT ![p][q] = "RTS"]
          /\ chState' = [chState EXCEPT ![p][q] = "IDLE"]
          /\ cmBusy' = [cmBusy EXCEPT ![p] = TRUE]
          /\ UNCHANGED <<qpn, pendSrv, abort>>
       \/ /\ AwaitsReply(p, q) /\ pendCli[p][q] = 0
          /\ abort' = TRUE
          /\ UNCHANGED <<connVars, cmBusy>>
    /\ UNCHANGED <<timer, newConn, mainVars, dataVars>>

\* The end of cm_enable: raise new_conn_complete, release the lock.
cm_enable_done(p) ==
    /\ cmBusy[p]
    /\ newConn' = [newConn EXCEPT ![p] = TRUE]
    /\ cmBusy' = [cmBusy EXCEPT ![p] = FALSE]
    /\ UNCHANGED <<connVars, net, timer, mainVars, dataVars, abort>>
-----------------------------------------------------------------------------
(* Timer thread: cm_timeout_handler. *)

\* Top of the outer loop: wait on the condition variable while nothing is
\* pending, otherwise sleep for the timeout.
TimerCheck(p) ==
    /\ timer[p] = "top"
    /\ LockFree(p)
    /\ timer' = [timer EXCEPT ![p] = IF NothingPending(p) THEN "wait" ELSE "sleep"]
    /\ UNCHANGED <<connVars, net, cmBusy, newConn, mainVars, dataVars, abort>>

\* The packets of p's pending entries, as they were first sent.
PendingPackets(p) ==
    {Req(p, q, qpn[p][q]) : q \in {r \in Procs : pendCli[p][r] > 0}} \cup
    {Rep(p, q, qpn[p][q]) : q \in {r \in Procs : pendSrv[p][r] > 0}}

\* The thread wakes up and resends the entries in expired, whose timeout has
\* passed; with nothing pending it goes back to the outer loop.
TimerTick(p, expired) ==
    /\ timer[p] = "sleep"
    /\ LockFree(p)
    /\ expired \subseteq PendingPackets(p)
    /\ timer' = IF NothingPending(p) THEN [timer EXCEPT ![p] = "top"] ELSE timer
    /\ net' = net \cup expired
    /\ UNCHANGED <<connVars, cmBusy, newConn, mainVars, dataVars, abort>>

\* The network drops the last copy of a datagram.
LoseDatagram(m) ==
    /\ net' = net \ {m}
    /\ UNCHANGED <<connVars, timer, cmBusy, newConn, mainVars, dataVars, abort>>
-----------------------------------------------------------------------------
Next ==
    \/ \E p, q \in Procs :
          \/ MPIDI_CH3_iSend(p, q)
          \/ MPIDI_CH3I_CM_Connect(p, q)
          \/ cm_handle_pending_send(p, q)
          \/ ReadProgress(p, q)
          \/ \E m \in net : cm_handle_REQ(p, q, m)
          \/ \E m \in net : cm_handle_REP(p, q, m)
    \/ \E p \in Procs :
          \/ NewConnComplete(p)
          \/ cm_enable_done(p)
          \/ TimerCheck(p)
          \/ \E expired \in SUBSET PendingPackets(p) : TimerTick(p, expired)
    \/ \E m \in net : LoseDatagram(m)

Spec == Init /\ [][Next]_vars

\* The threads keep running (a process that waits for a message polls the
\* progress engine), the timer resends every entry in the end, and a datagram
\* sent again and again is not lost every time.
Fairness ==
    /\ \A p, q \in Procs :
          /\ WF_vars(MPIDI_CH3I_CM_Connect(p, q))
          /\ WF_vars(cm_handle_pending_send(p, q))
          /\ WF_vars(ReadProgress(p, q))
          /\ SF_vars(\E m \in net : cm_handle_REQ(p, q, m))
          /\ SF_vars(\E m \in net : cm_handle_REP(p, q, m))
    /\ \A p \in Procs :
          /\ WF_vars(NewConnComplete(p))
          /\ WF_vars(cm_enable_done(p))
          /\ WF_vars(TimerCheck(p))
          /\ WF_vars(TimerTick(p, PendingPackets(p)))

FairSpec == Spec /\ Fairness
-----------------------------------------------------------------------------
(* Properties. *)

\* None of the CM_ERR_ABORT("Can't find pending entry") branches is taken,
\* whatever datagrams are late, repeated or crossed (cm.c:1151, 1665, 2727).
NoAbort == ~abort

\* The two ends of a pair agree on their roles: never two servers, never a
\* server or a connected client whose peer has not heard of the connection.
RolesAgree ==
    \A p \in Procs : \A q \in Peers(p) :
        /\ chState[p][q] = "CONNECTING_SRV" => chState[q][p] \in {"CONNECTING_CLI", "IDLE"}
        /\ chState[p][q] = "IDLE" => chState[q][p] \in {"CONNECTING_SRV", "IDLE"}

\* A queue pair that may send (RTS) is connected to the queue pair the peer
\* uses, which is ready to receive and connected back: a message posted on it
\* is never thrown away.
SendersArePaired ==
    \A p \in Procs : \A q \in Peers(p) :
        qp[p][q] = "RTS" =>
            /\ qp[q][p] \in {"RTR", "RTS"}
            /\ remoteQpn[p][q] = qpn[q][p]
            /\ remoteQpn[q][p] = qpn[p][q]

\* Messages are only ever posted on a queue pair that can send.
PostedOnRTS ==
    \A p \in Procs : \A q \in Peers(p) : rc[p][q] # << >> => qp[p][q] = "RTS"

\* Every queued message has somebody who will move it: main is about to
\* connect, the timer resends the pending request or reply, or the queue of a
\* connected VC will be visited, because the flag is up, is about to be, or
\* the visit is under way (no wake-up between the two threads is lost).
NoStrandedSend ==
    \A p \in Procs : \A q \in Peers(p) : sendq[p][q] # << >> =>
        /\ chState[p][q] = "UNCONNECTED" => q \in connecting[p]
        /\ chState[p][q] = "CONNECTING_CLI" => pendCli[p][q] > 0
        /\ chState[p][q] = "CONNECTING_SRV" => pendSrv[p][q] > 0
        /\ chState[p][q] = "IDLE" => newConn[p] \/ cmBusy[p] \/ q \in todo[p]

\* The timer thread never sleeps on its condition variable while a request or
\* reply waits for an answer (the signal of cm_send_ud_msg is not lost).
TimerArmed == \A p \in Procs : timer[p] = "wait" => NothingPending(p)

\* Messages are received exactly once and in the order they were sent,
\* although some were queued before the connection and others posted directly.
Undelivered == [p \in Procs |-> [q \in Procs |-> rc[p][q] \o sendq[p][q]]]

Fifo == INSTANCE FifoChannels WITH sent <- issued, chan <- Undelivered, rcvd <- received

InOrder == Fifo!Spec

\* Every message is received in the end, whichever side connects first.
Delivery ==
    \A p, q \in Procs : \A n \in 1..MaxMsgs :
        (issued[p][q] >= n) ~> (received[p][q] >= n)
=============================================================================
