------------------------------- MODULE VcClose -------------------------------
(***************************************************************************)
(* The close protocol of virtual connections (ch3u_handle_connection.c,    *)
(* mpidi_pg.c, mpid_vc.c, mpid_finalize.c, mpid_comm_disconnect.c, and the *)
(* send completions of ibv_send.c).                                        *)
(*                                                                         *)
(* Either end may begin: it sends CLOSE(ack=FALSE), answers the peer's     *)
(* with CLOSE(ack=TRUE), and has closed when it gets CLOSE(ack=TRUE).  A   *)
(* connection over the network is terminated only when the completions of  *)
(* all CLOSE packets sent on it have been polled.  A process waits for all *)
(* the closes it has begun, in MPID_Comm_disconnect and in MPID_Finalize.  *)
(*                                                                         *)
(* The steps of a process are its main thread's; a loop over connections   *)
(* takes one of them a step, and receives nothing in between.  The program *)
(* is correct but for Unmatched: it receives the messages that are sent to *)
(* it before it gives up the communicator.                                 *)
(***************************************************************************)
EXTENDS Integers, Sequences, FiniteSets

CONSTANTS
    NumProcs,   \* processes; they are numbered as ranks of one group
    Smp,        \* pairs that share a node
    InitActive, \* pairs whose connection is made at start-up
    Dynamic,    \* pairs whose connection belongs to an intercommunicator
    Talks,      \* <<p, q>>: the program at p may send to q
    Unmatched   \* <<p, q>>: what p sends to q, q never receives

Procs == 0 .. NumProcs - 1
Pairs == {e \in Procs \X Procs : e[1] # e[2]}
Symmetric(S) == \A p, q \in Procs : <<p, q>> \in S => <<q, p>> \in S

ASSUME PairsAssumption ==
    /\ NumProcs \in Nat \ {0, 1}
    /\ Smp \subseteq Pairs /\ InitActive \subseteq Pairs /\ Dynamic \subseteq Pairs
    /\ Talks \subseteq Pairs /\ Unmatched \subseteq Talks
    /\ Symmetric(Smp) /\ Symmetric(InitActive) /\ Symmetric(Dynamic)

VARIABLES
    phase,      \* where the main thread of p is
    turn,       \* the loop over connections has passed this many peers
    vcState,    \* vcState[p][q]: vc->state of p's connection with q
    closeOps,   \* MPIDI_Outstanding_close_ops
    pendingOps, \* pendingOps[p][q]: vc->pending_close_ops
    disconnect, \* disconnect[p][q]: vc->disconnect
    wire,       \* wire[p][q]: packets from p to q, in order
    uncompleted,\* uncompleted[p][q]: CLOSE packets of p whose completion is not polled
    sent,       \* <<p, q>>: the program at p has sent its message to q
    mayDisconnect \* p has not yet called MPID_Comm_disconnect

vcVars == <<vcState, closeOps, pendingOps, disconnect, wire, uncompleted>>
progVars == <<sent, mayDisconnect>>
vars == <<phase, turn, vcVars, progVars>>

Phases == {"run", "disconnecting", "disconnectWait",
           "releasing", "flush", "closing", "closeWait", "done"}
States == {"INACTIVE", "ACTIVE", "LOCAL_CLOSE", "REMOTE_CLOSE", "CLOSE_ACKED",
           "CLOSED", "INACTIVE_CLOSED"}
Packets == {"Message", "CloseReq", "CloseAck"}  \* CLOSE with ack FALSE, with ack TRUE

PerPair(S) == [Procs -> [Procs -> S]]

TypeOK ==
    /\ phase \in [Procs -> Phases]
    /\ turn \in [Procs -> 1 .. NumProcs]
    /\ vcState \in PerPair(States)
    /\ closeOps \in [Procs -> 0 .. NumProcs - 1]
    /\ pendingOps \in PerPair(0..2) /\ uncompleted \in PerPair(0..2)
    /\ disconnect \in PerPair(BOOLEAN)
    /\ wire \in PerPair(Seq(Packets))
    /\ sent \subseteq Pairs /\ mayDisconnect \in [Procs -> BOOLEAN]

OnAll(v) == [p \in Procs |-> [q \in Procs |-> v]]

Init ==
    /\ phase = [p \in Procs |-> "run"] /\ turn = [p \in Procs |-> 1]
    /\ vcState = [p \in Procs |-> [q \in Procs |->
                      IF <<p, q>> \in InitActive THEN "ACTIVE" ELSE "INACTIVE"]]
    /\ closeOps = [p \in Procs |-> 0]
    /\ pendingOps = OnAll(0) /\ uncompleted = OnAll(0) /\ disconnect = OnAll(FALSE)
    /\ wire = OnAll(<< >>)
    /\ sent = {} /\ mayDisconnect = [p \in Procs |-> TRUE]
-----------------------------------------------------------------------------
(* Faulty variants of definitions below, each with the mistake its name tells; *)
(* the specification does not use them.  PROJECT.json pairs each with the      *)
(* property that must notice it.                                               *)
RepliesNever(s) == FALSE
NeverWaits(p, q, pending) == TRUE
ForgetsDisconnect(p, q) == FALSE
MovesOnAlone(s) == IF s = "LOCAL_CLOSE" THEN "CLOSED" ELSE "REMOTE_CLOSE"
-----------------------------------------------------------------------------
(* Building blocks. *)

\* The CLOSE packet that begins the close in state s, and the state after it.
CloseKind(s) == IF s = "ACTIVE" THEN "CloseReq" ELSE "CloseAck"
StateAfterSendClose(s) == IF s = "ACTIVE" THEN "LOCAL_CLOSE" ELSE "CLOSE_ACKED"

\* The connections MPIDI_PG_Close_VCs and MPIDI_VCRT_Release close.
ToBeClosed(s) == s \in {"ACTIVE", "REMOTE_CLOSE"}

\* A CLOSE packet that arrives in state s is answered with CLOSE(ack=TRUE).
Answered(s) == s = "LOCAL_CLOSE"

\* The state after CLOSE(ack=FALSE) in state s.
StateAfterReq(s) == IF s = "LOCAL_CLOSE" THEN "CLOSE_ACKED" ELSE "REMOTE_CLOSE"

\* With so many CLOSE packets uncompleted the connection is terminated at once.
MayTerminate(p, q, pending) == pending = 0

\* p's connection with q waits for its last completion to be terminated.
Deferred(p, q) == disconnect[p][q]

\* vc->pending_close_ops counts CLOSE packets over the network only.
Counted(p, q) == IF <<p, q>> \in Smp THEN 0 ELSE 1

Put(p, q, m) == [wire EXCEPT ![p][q] = Append(@, m)]

\* The peer whose turn it is in p's loop; peers are taken from the next rank on.
Current(p) == (p + turn[p]) % NumProcs
LoopDone(p) == turn[p] = NumProcs

\* p polls in the progress engine.
Polls(p) ==
    \/ phase[p] \in {"run", "flush"}
    \/ phase[p] \in {"disconnectWait", "closeWait"} /\ closeOps[p] > 0

\* The program at q still receives what p sends it.
Receives(p, q) ==
    /\ phase[q] = "run"
    /\ <<p, q>> \in Dynamic => mayDisconnect[q]

\* Nothing is on its way that the program at p has to receive from q.
GotAll(p, q) == <<q, p>> \in Unmatched \/ \A i \in DOMAIN wire[q][p] : wire[q][p][i] # "Message"
-----------------------------------------------------------------------------
(* MPIDI_CH3U_VC_SendClose *)
SendClose(p, q) ==
    LET s == vcState[p][q] IN
    /\ wire' = Put(p, q, CloseKind(s))
    /\ pendingOps' = [pendingOps EXCEPT ![p][q] = @ + Counted(p, q)]
    /\ uncompleted' = [uncompleted EXCEPT ![p][q] = @ + Counted(p, q)]
    /\ closeOps' = [closeOps EXCEPT ![p] = @ + 1]
    /\ vcState' = [vcState EXCEPT ![p][q] = StateAfterSendClose(s)]
    /\ UNCHANGED disconnect

\* The program at p sends its message to q.  Without a connection yet the
\* connection manager makes one first, and p's end is active when it has (cm_enable).
Send(p, q) ==
    /\ phase[p] = "run" /\ <<p, q>> \in Talks \ sent
    /\ Receives(p, q) \/ <<p, q>> \in Unmatched
    /\ <<p, q>> \in Dynamic => mayDisconnect[p]
    /\ sent' = sent \cup {<<p, q>>}
    /\ vcState' = IF vcState[p][q] = "INACTIVE" /\ <<p, q>> \notin Smp
                  THEN [vcState EXCEPT ![p][q] = "ACTIVE"] ELSE vcState
    /\ wire' = Put(p, q, "Message")
    /\ UNCHANGED <<phase, turn, closeOps, pendingOps, disconnect, uncompleted, mayDisconnect>>

\* MPID_Comm_disconnect of the communicator with p's dynamic connections.
Comm_disconnect(p) ==
    /\ phase[p] = "run" /\ mayDisconnect[p]
    /\ \E q \in Procs : <<p, q>> \in Dynamic
    /\ \A q \in Procs : <<p, q>> \in Dynamic => GotAll(p, q)
    /\ phase' = [phase EXCEPT ![p] = "disconnecting"]
    /\ mayDisconnect' = [mayDisconnect EXCEPT ![p] = FALSE]
    /\ turn' = [turn EXCEPT ![p] = 1]
    /\ UNCHANGED <<vcVars, sent>>

\* MPID_Finalize, up to the release of the communicators.  A communicator that the
\* program has not freed holds references to the connections, and none is released.
Finalize(p) ==
    /\ phase[p] = "run"
    /\ \A q \in Procs : GotAll(p, q)
    /\ \E next \in {"releasing", "flush"} : phase' = [phase EXCEPT ![p] = next]
    /\ turn' = [turn EXCEPT ![p] = 1]
    /\ UNCHANGED <<vcVars, progVars>>

\* One turn of the loop of MPIDI_VCRT_Release.
VCRT_Release(p) ==
    /\ phase[p] \in {"disconnecting", "releasing"} /\ ~LoopDone(p)
    /\ LET q == Current(p)
           released == phase[p] = "releasing" \/ <<p, q>> \in Dynamic
       IN IF released /\ ToBeClosed(vcState[p][q]) THEN SendClose(p, q) ELSE UNCHANGED vcVars
    /\ turn' = [turn EXCEPT ![p] = @ + 1]
    /\ UNCHANGED <<phase, progVars>>

\* One turn of the loop of MPIDI_PG_Close_VCs.
PG_Close_VCs(p) ==
    /\ phase[p] = "closing" /\ ~LoopDone(p)
    /\ LET q == Current(p) s == vcState[p][q] IN
       IF ToBeClosed(s) THEN SendClose(p, q)
       ELSE /\ vcState' = IF s = "INACTIVE" THEN [vcState EXCEPT ![p][q] = "INACTIVE_CLOSED"]
                                            ELSE vcState
            /\ UNCHANGED <<closeOps, pendingOps, disconnect, wire, uncompleted>>
    /\ turn' = [turn EXCEPT ![p] = @ + 1]
    /\ UNCHANGED <<phase, progVars>>

\* Between the loops MPIDI_CH3_Flush polls while something waits to be posted.
EndLoop(p) ==
    /\ LoopDone(p)
    /\ \E next \in {<<"disconnecting", "disconnectWait">>, <<"releasing", "flush">>,
                    <<"closing", "closeWait">>} :
          phase[p] = next[1] /\ phase' = [phase EXCEPT ![p] = next[2]]
    /\ UNCHANGED <<turn, vcVars, progVars>>

EndFlush(p) ==
    /\ phase[p] = "flush"
    /\ phase' = [phase EXCEPT ![p] = "closing"]
    /\ turn' = [turn EXCEPT ![p] = 1]
    /\ UNCHANGED <<vcVars, progVars>>

\* MPIDI_CH3U_VC_WaitForClose returns.
WaitForClose(p) ==
    /\ phase[p] \in {"disconnectWait", "closeWait"} /\ closeOps[p] = 0
    /\ phase' = [phase EXCEPT ![p] = IF @ = "closeWait" THEN "done" ELSE "run"]
    /\ UNCHANGED <<turn, vcVars, progVars>>
-----------------------------------------------------------------------------
(* MPIDI_CH3U_Handle_connection(TERMINATED) in state CLOSED, by way of *)
(* MPIDI_CH3_Connection_terminate; Terminates tells whether it is called. *)
Terminated(p, q) ==
    /\ vcState' = [vcState EXCEPT ![p][q] = "INACTIVE"]
    /\ closeOps' = [closeOps EXCEPT ![p] = @ - 1]

\* A message makes a connection that was accepted on demand active
\* (MPIDI_CH3I_CM_Establish), whatever the state of its VC.
Recv_Message(p, q) ==
    /\ vcState' = IF <<p, q>> \notin Smp /\ vcState[p][q] \in {"INACTIVE", "INACTIVE_CLOSED"}
                  THEN [vcState EXCEPT ![p][q] = "ACTIVE"] ELSE vcState
    /\ wire' = [wire EXCEPT ![q][p] = Tail(@)]
    /\ UNCHANGED <<closeOps, pendingOps, disconnect, uncompleted>>

\* MPIDI_CH3_PktHandler_Close
PktHandler_Close(p, q, kind) ==
    LET s == vcState[p][q]
        answer == IF Answered(s) THEN Counted(p, q) ELSE 0
        pending == pendingOps[p][q] + answer
    IN
    /\ wire' = [wire EXCEPT ![q][p] = Tail(@),
                            ![p][q] = IF Answered(s) THEN Append(@, "CloseAck") ELSE @]
    /\ pendingOps' = [pendingOps EXCEPT ![p][q] = pending]
    /\ uncompleted' = [uncompleted EXCEPT ![p][q] = @ + answer]
    /\ \/ /\ kind = "CloseReq"
          /\ vcState' = [vcState EXCEPT ![p][q] = StateAfterReq(s)]
          /\ UNCHANGED <<closeOps, disconnect>>
       \/ /\ kind = "CloseAck" /\ MayTerminate(p, q, pending)
          /\ Terminated(p, q) /\ UNCHANGED disconnect
       \/ /\ kind = "CloseAck" /\ ~MayTerminate(p, q, pending)
          /\ vcState' = [vcState EXCEPT ![p][q] = "CLOSED"]
          /\ disconnect' = [disconnect EXCEPT ![p][q] = TRUE]
          /\ UNCHANGED closeOps

Receive(p, q) ==
    /\ Polls(p) /\ wire[q][p] # << >>
    /\ IF Head(wire[q][p]) = "Message" THEN Recv_Message(p, q)
       ELSE PktHandler_Close(p, q, Head(wire[q][p]))
    /\ UNCHANGED <<phase, turn, progVars>>

\* MRAILI_Process_send polls the completion of a CLOSE packet.
Process_send(p, q) ==
    /\ Polls(p) /\ uncompleted[p][q] > 0
    /\ uncompleted' = [uncompleted EXCEPT ![p][q] = @ - 1]
    /\ pendingOps' = [pendingOps EXCEPT ![p][q] = @ - 1]
    /\ IF Deferred(p, q) /\ MayTerminate(p, q, pendingOps'[p][q]) THEN Terminated(p, q)
       ELSE UNCHANGED <<vcState, closeOps>>
    /\ UNCHANGED <<phase, turn, disconnect, wire, progVars>>

Next ==
    \E p \in Procs :
        \/ Comm_disconnect(p) \/ Finalize(p)
        \/ VCRT_Release(p) \/ PG_Close_VCs(p)
        \/ EndLoop(p) \/ EndFlush(p) \/ WaitForClose(p)
        \/ \E q \in Procs \ {p} : Send(p, q) \/ Receive(p, q) \/ Process_send(p, q)

Spec == Init /\ [][Next]_vars

\* Every program calls MPI_Finalize at last, unless it waits for good in
\* MPI_Comm_disconnect; a process in a loop goes on, a waiting one polls.
Fairness ==
    \A p \in Procs :
        /\ WF_vars(Finalize(p))
        /\ WF_vars(VCRT_Release(p) \/ PG_Close_VCs(p))
        /\ WF_vars(EndLoop(p) \/ EndFlush(p) \/ WaitForClose(p))
        /\ \A q \in Procs \ {p} : /\ WF_vars(Receive(p, q))
                                  /\ WF_vars(Process_send(p, q))
FairSpec == Spec /\ Fairness
-----------------------------------------------------------------------------
(* Properties *)

\* A packet that is next to be handled finds its connection in a state its handler
\* expects: the assertions of MPIDI_CH3_PktHandler_Close never fail, however the
\* closes of the two ends cross, and no message follows a close.
PacketsExpected ==
    \A p, q \in Procs : p # q /\ wire[q][p] # << >> =>
        LET s == vcState[p][q] m == Head(wire[q][p]) IN
        /\ m = "CloseReq" => s \in {"ACTIVE", "LOCAL_CLOSE"}
        /\ m = "CloseAck" => s \in {"LOCAL_CLOSE", "CLOSE_ACKED"}
        /\ m = "Message" => s \notin {"REMOTE_CLOSE", "CLOSE_ACKED", "CLOSED"}

\* A process that has finished needs nothing from anybody: no packet is on its way
\* to it, and no CLOSE of its own, whose buffer it is about to free, is uncompleted.
QuietWhenDone ==
    \A p \in Procs : phase[p] = "done" =>
        \A q \in Procs : wire[q][p] = << >> /\ uncompleted[p][q] = 0

\* And nobody needs anything more from it: a peer that still closes a connection with
\* it has the last CLOSE on the way.
PeersCanFinish ==
    \A p, q \in Procs : p # q /\ phase[p] = "done" =>
        \/ vcState[q][p] \in {"INACTIVE", "INACTIVE_CLOSED", "CLOSED"}
        \/ wire[p][q] # << >> /\ wire[p][q][Len(wire[p][q])] = "CloseAck"

\* Everybody gets out of MPID_Finalize, whether the ends close at once or one after
\* another, and whether a connection is closed before, by a disconnect.
AllFinish == <>(\A p \in Procs : phase[p] = "done")
=============================================================================
