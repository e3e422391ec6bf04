---------------------------- MODULE ConnMgrProofs ----------------------------
(***************************************************************************)
(* Theorems about ConnMgr for every process group, communication pattern   *)
(* and number of messages: its invariants, and that it implements          *)
(* FifoChannels.                                                           *)
(***************************************************************************)
EXTENDS ConnMgr, TLAPS, SequenceTheorems

(***************************************************************************)
(* Type correctness.  A leaf first reads off an action what it assigns and *)
(* only then types the result.                                             *)
(***************************************************************************)

\* The initial state is well typed.
LEMMA TypeInit == Init => TypeOK
<1> SUFFICES ASSUME Init PROVE TypeOK
  OBVIOUS
<1> USE DEF Init, PerVc
<1>1. ConnTypeOK
  BY DEF ConnTypeOK, ChStates, QpStates
<1>2. ThreadTypeOK
  BY DEF ThreadTypeOK
<1>3. DataTypeOK
  BY DEF DataTypeOK
<1>4. QED
  BY <1>1, <1>2, <1>3 DEF TypeOK

\* Sending keeps the queues sequences of message numbers.
LEMMA TypeISend ==
    ASSUME TypeOK, NEW p \in Procs, NEW q \in Procs, MPIDI_CH3_iSend(p, q)
    PROVE  TypeOK'
<1> USE DEF TypeOK
<1>1. ConnTypeOK'
  BY DEF MPIDI_CH3_iSend, ConnTypeOK, connVars
<1>2. ThreadTypeOK'
  BY DEF MPIDI_CH3_iSend, ThreadTypeOK
<1>3. DataTypeOK'
  <2> DEFINE m == issued[p][q] + 1
  <2>1. m \in Nat /\ sendq[p][q] \in Seq(Nat) /\ rc[p][q] \in Seq(Nat)
    BY DEF DataTypeOK
  <2>2. Append(sendq[p][q], m) \in Seq(Nat) /\ Append(rc[p][q], m) \in Seq(Nat)
    BY <2>1
  <2>3. issued' \in [Procs -> [Procs -> Nat]] /\ received' \in [Procs -> [Procs -> Nat]]
    BY <2>1 DEF MPIDI_CH3_iSend, DataTypeOK
  <2>4. CASE rc' = [rc EXCEPT ![p][q] = Append(@, m)] /\ UNCHANGED sendq
    BY <2>2, <2>3, <2>4 DEF DataTypeOK
  <2>5. CASE sendq' = [sendq EXCEPT ![p][q] = Append(@, m)] /\ UNCHANGED rc
    BY <2>2, <2>3, <2>5 DEF DataTypeOK
  <2>6. QED
    BY <2>4, <2>5 DEF MPIDI_CH3_iSend
<1>4. QED
  BY <1>1, <1>2, <1>3

\* So does becoming client, whose request is a well-formed datagram.
LEMMA TypeConnect ==
    ASSUME TypeOK, NEW p \in Procs, NEW q \in Procs, MPIDI_CH3I_CM_Connect(p, q)
    PROVE  TypeOK'
<1> USE DEF TypeOK
<1>1. ConnTypeOK'
  <2>1. CASE MustConnect(p, q)
    <3>1. /\ chState' = [chState EXCEPT ![p][q] = "CONNECTING_CLI"]
          /\ qp' = [qp EXCEPT ![p][q] = "INIT"]
          /\ qpn' = [qpn EXCEPT ![p][q] = @ + 1]
          /\ pendCli' = [pendCli EXCEPT ![p][q] = @ + 1]
          /\ UNCHANGED <<remoteQpn, pendSrv>>
      BY <2>1 DEF MPIDI_CH3I_CM_Connect
    <3>2. QED
      BY <3>1 DEF ConnTypeOK, ChStates, QpStates
  <2>2. CASE ~MustConnect(p, q)
    BY <2>2 DEF MPIDI_CH3I_CM_Connect, ConnTypeOK
  <2>3. QED
    BY <2>1, <2>2
<1>2. ThreadTypeOK'
  <2>1. Req(p, q, qpn[p][q] + 1) \in CmMsg
    BY DEF Req, CmMsg, ConnTypeOK
  <2>2. QED
    BY <2>1 DEF MPIDI_CH3I_CM_Connect, ThreadTypeOK, SignalTimer
<1>3. DataTypeOK'
  BY DEF MPIDI_CH3I_CM_Connect, DataTypeOK, dataVars
<1>4. QED
  BY <1>1, <1>2, <1>3

\* Flushing a queue keeps the types.
LEMMA TypePendingSend ==
    ASSUME TypeOK, NEW p \in Procs, NEW q \in Procs, cm_handle_pending_send(p, q)
    PROVE  TypeOK'
<1> USE DEF TypeOK
<1>1. ConnTypeOK'
  BY DEF cm_handle_pending_send, ConnTypeOK, connVars
<1>2. ThreadTypeOK'
  BY DEF cm_handle_pending_send, ThreadTypeOK
<1>3. DataTypeOK'
  <2>1. rc[p][q] \o sendq[p][q] \in Seq(Nat) /\ << >> \in Seq(Nat)
    BY DEF DataTypeOK
  <2>2. CASE /\ rc' = [rc EXCEPT ![p][q] = @ \o sendq[p][q]]
             /\ sendq' = [sendq EXCEPT ![p][q] = << >>]
             /\ UNCHANGED <<issued, received>>
    BY <2>1, <2>2 DEF DataTypeOK
  <2>3. CASE UNCHANGED <<rc, sendq, issued, received>>
    BY <2>3 DEF DataTypeOK
  <2>4. QED
    BY <2>2, <2>3 DEF cm_handle_pending_send
<1>4. QED
  BY <1>1, <1>2, <1>3

\* Receiving a message, and establishing the server's end, keeps them.
LEMMA TypeRead ==
    ASSUME TypeOK, NEW p \in Procs, NEW q \in Procs, ReadProgress(p, q)
    PROVE  TypeOK'
<1> USE DEF TypeOK
<1>1. ConnTypeOK'
  <2>1. CASE /\ pendSrv[p][q] > 0
             /\ pendSrv' = [pendSrv EXCEPT ![p][q] = @ - 1]
             /\ qp' = [qp EXCEPT ![p][q] = "RTS"]
             /\ chState' = [chState EXCEPT ![p][q] = "IDLE"]
             /\ UNCHANGED <<qpn, remoteQpn, pendCli>>
    BY <2>1 DEF ConnTypeOK, ChStates, QpStates
  <2>2. CASE UNCHANGED connVars
    BY <2>2 DEF ConnTypeOK, connVars
  <2>3. QED
    BY <2>1, <2>2 DEF ReadProgress, MPIDI_CH3I_CM_Establish, connVars
<1>2. ThreadTypeOK'
  BY DEF ReadProgress, MPIDI_CH3I_CM_Establish, VisitAll, Peers, ThreadTypeOK
<1>3. DataTypeOK'
  <2>1. rc[q][p] \in Seq(Nat) /\ rc[q][p] # << >>
    BY DEF ReadProgress, DataTypeOK
  <2>2. Tail(rc[q][p]) \in Seq(Nat) /\ Head(rc[q][p]) \in Nat
    BY <2>1
  <2>3. /\ rc' = [rc EXCEPT ![q][p] = Tail(@)]
        /\ received' = [received EXCEPT ![q][p] = Head(rc[q][p])]
        /\ UNCHANGED <<sendq, issued>>
    BY DEF ReadProgress
  <2>4. QED
    BY <2>2, <2>3 DEF DataTypeOK
<1>4. QED
  BY <1>1, <1>2, <1>3

\* Accepting a request keeps the types: the pending counts stay natural numbers.
LEMMA TypeREQ ==
    ASSUME TypeOK, NEW p \in Procs, NEW q \in Procs, NEW m \in net,
           cm_handle_REQ(p, q, m)
    PROVE  TypeOK'
<1> USE DEF TypeOK
<1>1. m.qpn \in Nat
  BY DEF ThreadTypeOK, CmMsg
<1>2. ConnTypeOK'
  <2>1. CASE cm_accept(p, q, m)
    <3>1. /\ qpn' = [qpn EXCEPT ![p][q] = @ + 1]
          /\ qp' = [qp EXCEPT ![p][q] = "RTR"]
          /\ remoteQpn' = [remoteQpn EXCEPT ![p][q] = m.qpn]
          /\ chState' = [chState EXCEPT ![p][q] = "CONNECTING_SRV"]
          /\ pendSrv' = [pendSrv EXCEPT ![p][q] = @ + 1]
          /\ UNCHANGED pendCli
      BY <2>1 DEF cm_accept
    <3>2. QED
      BY <1>1, <3>1 DEF ConnTypeOK, ChStates, QpStates
  <2>2. CASE cm_accept_and_cancel(p, q, m)
    <3>1. /\ qp' = [qp EXCEPT ![p][q] = "RTR"]
          /\ remoteQpn' = [remoteQpn EXCEPT ![p][q] = m.qpn]
          /\ chState' = [chState EXCEPT ![p][q] = "CONNECTING_SRV"]
          /\ pendSrv' = [pendSrv EXCEPT ![p][q] = @ + 1]
          /\ UNCHANGED qpn
      BY <2>2 DEF cm_accept_and_cancel
    <3>2. \/ UNCHANGED pendCli
          \/ pendCli[p][q] > 0 /\ pendCli' = [pendCli EXCEPT ![p][q] = @ - 1]
      BY <2>2 DEF cm_accept_and_cancel
    <3>3. pendCli' \in [Procs -> [Procs -> Nat]]
      <4>1. CASE pendCli[p][q] > 0 /\ pendCli' = [pendCli EXCEPT ![p][q] = @ - 1]
        <5>1. pendCli[p][q] - 1 \in Nat /\ pendCli \in [Procs -> [Procs -> Nat]]
          BY <4>1 DEF ConnTypeOK
        <5>2. QED
          BY <4>1, <5>1
      <4>2. QED
        BY <3>2, <4>1 DEF ConnTypeOK
    <3>4. chState' \in [Procs -> [Procs -> ChStates]] /\ qp' \in [Procs -> [Procs -> QpStates]]
      BY <3>1 DEF ConnTypeOK, ChStates, QpStates
    <3>5. /\ remoteQpn' \in [Procs -> [Procs -> Nat]]
          /\ pendSrv' \in [Procs -> [Procs -> Nat]]
          /\ qpn' \in [Procs -> [Procs -> Nat]]
      BY <1>1, <3>1 DEF ConnTypeOK
    <3>6. QED
      BY <3>3, <3>4, <3>5 DEF ConnTypeOK
  <2>3. CASE UNCHANGED connVars
    BY <2>3 DEF ConnTypeOK, connVars
  <2>4. QED
    BY <2>1, <2>2, <2>3 DEF cm_handle_REQ
<1>3. ThreadTypeOK'
  <2>1. \A n \in Nat : Rep(p, q, n) \in CmMsg
    BY DEF Rep, CmMsg
  <2>2. qpn[p][q] \in Nat
    BY DEF ConnTypeOK
  <2>3. net' \subseteq CmMsg
    BY <2>1, <2>2 DEF cm_handle_REQ, cm_accept, cm_accept_and_cancel, Exchange, ThreadTypeOK
  <2>4. timer' \in [Procs -> {"top", "wait", "sleep"}]
    BY DEF cm_handle_REQ, cm_accept, cm_accept_and_cancel, SignalTimer, ThreadTypeOK
  <2>5. abort' \in BOOLEAN
    BY DEF cm_handle_REQ, cm_accept, cm_accept_and_cancel, ThreadTypeOK
  <2>6. QED
    BY <2>3, <2>4, <2>5 DEF cm_handle_REQ, ThreadTypeOK, mainVars
<1>4. DataTypeOK'
  BY DEF cm_handle_REQ, DataTypeOK, dataVars
<1>5. QED
  BY <1>2, <1>3, <1>4

\* Accepting a reply keeps the types.
LEMMA TypeREP ==
    ASSUME TypeOK, NEW p \in Procs, NEW q \in Procs, NEW m \in net,
           cm_handle_REP(p, q, m)
    PROVE  TypeOK'
<1> USE DEF TypeOK
<1>1. m.qpn \in Nat
  BY DEF ThreadTypeOK, CmMsg
<1>2. ConnTypeOK'
  <2>1. CASE /\ pendCli[p][q] > 0
             /\ pendCli' = [pendCli EXCEPT ![p][q] = @ - 1]
             /\ remoteQpn' = [remoteQpn EXCEPT ![p][q] = m.qpn]
             /\ qp' = [qp EXCEPT ![p][q] = "RTS"]
             /\ chState' = [chState EXCEPT ![p][q] = "IDLE"]
             /\ UNCHANGED <<qpn, pendSrv>>
    BY <1>1, <2>1 DEF ConnTypeOK, ChStates, QpStates
  <2>2. CASE UNCHANGED connVars
    BY <2>2 DEF ConnTypeOK, connVars
  <2>3. QED
    BY <2>1, <2>2 DEF cm_handle_REP
<1>3. ThreadTypeOK'
  BY DEF cm_handle_REP, Exchange, ThreadTypeOK, mainVars
<1>4. DataTypeOK'
  BY DEF cm_handle_REP, DataTypeOK, dataVars
<1>5. QED
  BY <1>2, <1>3, <1>4

\* What the timer thread puts on the wire are well-formed datagrams.
LEMMA PendingPacketsType ==
    ASSUME TypeOK, NEW p \in Procs
    PROVE  PendingPackets(p) \subseteq CmMsg
BY DEF PendingPackets, Req, Rep, CmMsg, TypeOK, ConnTypeOK

\* Every step keeps the types.
LEMMA TypeStep == TypeOK /\ [Next]_vars => TypeOK'
<1> SUFFICES ASSUME TypeOK, [Next]_vars PROVE TypeOK'
  OBVIOUS
<1> USE DEF TypeOK, connVars, mainVars, dataVars
<1>1. ASSUME NEW p \in Procs, NewConnComplete(p) PROVE TypeOK'
  <2>1. ConnTypeOK' /\ DataTypeOK'
    BY <1>1 DEF NewConnComplete, ConnTypeOK, DataTypeOK
  <2>2. ThreadTypeOK'
    BY <1>1 DEF NewConnComplete, VisitAll, Peers, ThreadTypeOK
  <2>3. QED
    BY <2>1, <2>2
<1>2. ASSUME NEW p \in Procs, cm_enable_done(p) PROVE TypeOK'
  BY <1>2 DEF cm_enable_done, ConnTypeOK, ThreadTypeOK, DataTypeOK
<1>3. ASSUME NEW p \in Procs, TimerCheck(p) PROVE TypeOK'
  BY <1>3 DEF TimerCheck, ConnTypeOK, ThreadTypeOK, DataTypeOK
<1>4. ASSUME NEW p \in Procs, NEW expired \in SUBSET PendingPackets(p),
             TimerTick(p, expired)
      PROVE  TypeOK'
  <2>1. PendingPackets(p) \subseteq CmMsg
    BY PendingPacketsType
  <2>2. QED
    BY <1>4, <2>1 DEF TimerTick, ConnTypeOK, ThreadTypeOK, DataTypeOK
<1>5. ASSUME NEW m \in net, LoseDatagram(m) PROVE TypeOK'
  BY <1>5 DEF LoseDatagram, ConnTypeOK, ThreadTypeOK, DataTypeOK
<1>6. CASE UNCHANGED vars
  BY <1>6 DEF vars, ConnTypeOK, ThreadTypeOK, DataTypeOK
<1>7. QED
  BY <1>1, <1>2, <1>3, <1>4, <1>5, <1>6, TypeISend, TypeConnect, TypePendingSend,
     TypeRead, TypeREQ, TypeREP DEF Next

\* Every reachable state of the connection manager is well typed.
THEOREM TypeCorrect == Spec => []TypeOK
<1>1. TypeOK /\ [Next]_vars => TypeOK'
  BY TypeStep
<1>2. QED
  BY TypeInit, <1>1, PTL DEF Spec

(***************************************************************************)
(* The inductive invariant.  RolesAgree is not inductive alone: a step that *)
(* accepts a request or a reply needs to know in which state its sender is, *)
(* which DatagramsMatchState says of every copy still on the wire, and the  *)
(* timer makes further copies out of the pending entries, which             *)
(* PendingMatchesState ties to the state.  A request of a process that has  *)
(* turned server is harmless because only the smaller rank ever turns.       *)
(***************************************************************************)

Entries(s, state) == IF s = state THEN 1 ELSE 0

SelfUnconnected == \A p \in Procs : chState[p][p] = "UNCONNECTED"

PendingMatchesState ==
    \A p, q \in Procs :
        /\ pendCli[p][q] = Entries(chState[p][q], "CONNECTING_CLI")
        /\ pendSrv[p][q] = Entries(chState[p][q], "CONNECTING_SRV")

QueuePairMatchesState ==
    \A p, q \in Procs :
        /\ chState[p][q] = "UNCONNECTED" => qp[p][q] = "none" /\ qpn[p][q] = 0
        /\ chState[p][q] = "CONNECTING_CLI" => qp[p][q] = "INIT"
        /\ chState[p][q] = "CONNECTING_SRV" => qp[p][q] = "RTR" /\ remoteQpn[p][q] = 1
        /\ chState[p][q] = "IDLE" => qp[p][q] = "RTS" /\ remoteQpn[p][q] = 1
        /\ chState[p][q] # "UNCONNECTED" => qpn[p][q] = 1

DatagramsMatchState ==
    \A m \in net :
        /\ m.src # m.dst
        /\ m.qpn = 1
        /\ m.type = "REQ" =>
              /\ chState[m.src][m.dst] # "UNCONNECTED"
              /\ chState[m.src][m.dst] = "CONNECTING_SRV" => ActAsServer(m.src, m.dst)
        /\ m.type = "REP" => chState[m.src][m.dst] \in {"CONNECTING_SRV", "IDLE"}

OnlyIdlePosts ==
    \A p, q \in Procs : rc[p][q] # << >> => chState[p][q] = "IDLE"

OneConnectAtATime ==
    \A p \in Procs :
        /\ connecting[p] \subseteq Peers(p)
        /\ \A q, r \in connecting[p] : q = r

Handshake ==
    /\ SelfUnconnected
    /\ PendingMatchesState
    /\ QueuePairMatchesState
    /\ RolesAgree
    /\ DatagramsMatchState
    /\ OnlyIdlePosts
    /\ OneConnectAtATime

IInv == TypeOK /\ Handshake /\ NoStrandedSend /\ TimerArmed /\ NoAbort

\* What an assignment to one place of a table of tables does elsewhere.
LEMMA Assign ==
    ASSUME NEW S, NEW f \in [Procs -> [Procs -> S]], NEW p \in Procs, NEW q \in Procs, NEW x
    PROVE  \A r, s \in Procs :
              [f EXCEPT ![p][q] = x][r][s] = IF r = p /\ s = q THEN x ELSE f[r][s]
OBVIOUS

\* The inductive invariant holds initially.
LEMMA InvInit == Init => IInv
<1> SUFFICES ASSUME Init PROVE IInv
  OBVIOUS
<1> USE DEF Init, PerVc
<1>1. TypeOK
  BY TypeInit
<1>2. Handshake
  BY DEF Handshake, SelfUnconnected, PendingMatchesState, Entries, QueuePairMatchesState,
     RolesAgree, Peers, DatagramsMatchState, OnlyIdlePosts, OneConnectAtATime
<1>3. NoStrandedSend /\ TimerArmed /\ NoAbort
  BY DEF NoStrandedSend, Peers, TimerArmed, NoAbort
<1>4. QED
  BY <1>1, <1>2, <1>3 DEF IInv

\* A request: p leaves UNCONNECTED as client.
LEMMA HandshakeConnect ==
    ASSUME IInv, NEW p \in Procs, NEW q \in Procs, MPIDI_CH3I_CM_Connect(p, q),
           MustConnect(p, q)
    PROVE  Handshake' /\ NoAbort'
<1> USE DEF IInv, Handshake
<1>0. q # p
  BY DEF MPIDI_CH3I_CM_Connect, OneConnectAtATime, Peers
<1>1. /\ chState' = [chState EXCEPT ![p][q] = "CONNECTING_CLI"]
      /\ qp' = [qp EXCEPT ![p][q] = "INIT"]
      /\ qpn' = [qpn EXCEPT ![p][q] = @ + 1]
      /\ pendCli' = [pendCli EXCEPT ![p][q] = @ + 1]
      /\ net' = net \cup {Req(p, q, qpn[p][q] + 1)}
      /\ connecting' = [connecting EXCEPT ![p] = {}]
      /\ UNCHANGED <<remoteQpn, pendSrv, rc, abort>>
  BY DEF MPIDI_CH3I_CM_Connect, dataVars
<1>2. chState[p][q] = "UNCONNECTED" /\ qpn[p][q] = 0 /\ pendCli[p][q] = 0
  BY DEF MustConnect, QueuePairMatchesState, PendingMatchesState, Entries
<1>3. \A r, s \in Procs :
        /\ chState'[r][s] = IF r = p /\ s = q THEN "CONNECTING_CLI" ELSE chState[r][s]
        /\ qp'[r][s] = IF r = p /\ s = q THEN "INIT" ELSE qp[r][s]
        /\ qpn'[r][s] = IF r = p /\ s = q THEN 1 ELSE qpn[r][s]
        /\ pendCli'[r][s] = IF r = p /\ s = q THEN 1 ELSE pendCli[r][s]
  BY <1>1, <1>2 DEF TypeOK, ConnTypeOK
<1>4. SelfUnconnected'
  BY <1>0, <1>3 DEF SelfUnconnected
<1>5. PendingMatchesState'
  BY <1>1, <1>2, <1>3 DEF PendingMatchesState, Entries
<1>6. QueuePairMatchesState'
  BY <1>1, <1>3 DEF QueuePairMatchesState
<1>7. RolesAgree'
  BY <1>0, <1>2, <1>3 DEF RolesAgree, Peers
<1>8. DatagramsMatchState'
  <2>1. \A m \in net : m.src \in Procs /\ m.dst \in Procs
    BY DEF TypeOK, ThreadTypeOK, CmMsg
  <2>2. QED
    BY <1>0, <1>1, <1>2, <1>3, <2>1 DEF DatagramsMatchState, Req
<1>9. OnlyIdlePosts'
  BY <1>1, <1>2, <1>3 DEF OnlyIdlePosts
<1>10. OneConnectAtATime'
  BY <1>1 DEF OneConnectAtATime, Peers, TypeOK, ThreadTypeOK
<1>11. QED
  BY <1>1, <1>4, <1>5, <1>6, <1>7, <1>8, <1>9, <1>10 DEF NoAbort

\* A request makes p a server: it was unconnected, or the tie is broken.
LEMMA HandshakeREQ ==
    ASSUME IInv, NEW p \in Procs, NEW q \in Procs, NEW m \in net,
           cm_handle_REQ(p, q, m)
    PROVE  Handshake' /\ NoAbort'
<1> USE DEF IInv, Handshake
<1>0. /\ m.type = "REQ" /\ m.src = q /\ m.dst = p
      /\ UNCHANGED <<connecting, rc>>
  BY DEF cm_handle_REQ, mainVars, dataVars
<1>1. q # p /\ m.qpn = 1 /\ chState[q][p] # "UNCONNECTED"
      /\ (chState[q][p] = "CONNECTING_SRV" => ActAsServer(q, p))
  BY <1>0 DEF DatagramsMatchState
<1>2. \A d \in net : d.src \in Procs /\ d.dst \in Procs
  BY DEF TypeOK, ThreadTypeOK, CmMsg
<1>3. CASE UNCHANGED <<connVars, abort>> /\ Exchange(m, {})
  <2>1. net' \subseteq net
    BY <1>3 DEF Exchange
  <2>2. QED
    BY <1>0, <1>3, <2>1 DEF connVars, SelfUnconnected, PendingMatchesState,
       QueuePairMatchesState, RolesAgree, DatagramsMatchState, OnlyIdlePosts,
       OneConnectAtATime, NoAbort
<1>4. CASE \/ chState[p][q] = "CONNECTING_CLI" /\ ActAsServer(p, q) /\ cm_accept_and_cancel(p, q, m)
           \/ chState[p][q] = "UNCONNECTED" /\ cm_accept(p, q, m)
  <2>1. /\ chState' = [chState EXCEPT ![p][q] = "CONNECTING_SRV"]
        /\ qp' = [qp EXCEPT ![p][q] = "RTR"]
        /\ remoteQpn' = [remoteQpn EXCEPT ![p][q] = m.qpn]
        /\ pendSrv' = [pendSrv EXCEPT ![p][q] = @ + 1]
    BY <1>4 DEF cm_accept, cm_accept_and_cancel
  <2>2. CASE chState[p][q] = "CONNECTING_CLI" /\ ActAsServer(p, q) /\ cm_accept_and_cancel(p, q, m)
    <3>1. pendCli[p][q] = 1 /\ pendSrv[p][q] = 0 /\ qpn[p][q] = 1
      BY <2>2 DEF PendingMatchesState, Entries, QueuePairMatchesState
    <3>2. /\ pendCli' = [pendCli EXCEPT ![p][q] = @ - 1]
          /\ UNCHANGED <<qpn, abort>>
          /\ Exchange(m, {Rep(p, q, 1)})
      BY <2>2, <3>1 DEF cm_accept_and_cancel
    <3>3. \A r, s \in Procs :
            /\ chState'[r][s] = IF r = p /\ s = q THEN "CONNECTING_SRV" ELSE chState[r][s]
            /\ qp'[r][s] = IF r = p /\ s = q THEN "RTR" ELSE qp[r][s]
            /\ remoteQpn'[r][s] = IF r = p /\ s = q THEN 1 ELSE remoteQpn[r][s]
            /\ pendCli'[r][s] = IF r = p /\ s = q THEN 0 ELSE pendCli[r][s]
            /\ pendSrv'[r][s] = IF r = p /\ s = q THEN 1 ELSE pendSrv[r][s]
      BY <1>1, <2>1, <3>1, <3>2 DEF TypeOK, ConnTypeOK
    <3>4. SelfUnconnected'
      BY <1>1, <3>3 DEF SelfUnconnected
    <3>5. PendingMatchesState'
      BY <3>3 DEF PendingMatchesState, Entries
    <3>6. QueuePairMatchesState'
      BY <3>1, <3>2, <3>3 DEF QueuePairMatchesState
    <3>7. chState[q][p] = "CONNECTING_CLI"
      <4>1. chState[q][p] # "CONNECTING_SRV"
        BY <1>1, <2>2, ProcsAssumption DEF ActAsServer
      <4>2. chState[q][p] # "IDLE"
        BY <1>1, <2>2 DEF RolesAgree, Peers
      <4>3. QED
        BY <1>1, <4>1, <4>2 DEF TypeOK, ConnTypeOK, ChStates
    <3>8. RolesAgree'
      BY <1>1, <2>2, <3>3, <3>7 DEF RolesAgree, Peers
    <3>9. DatagramsMatchState'
      <4>1. net' \subseteq net \cup {Rep(p, q, 1)}
        BY <3>2 DEF Exchange
      <4>2. QED
        BY <1>1, <1>2, <2>2, <3>3, <4>1 DEF DatagramsMatchState, Rep
    <3>10. OnlyIdlePosts'
      BY <1>0, <2>2, <3>3 DEF OnlyIdlePosts
    <3>11. QED
      BY <1>0, <3>2, <3>4, <3>5, <3>6, <3>8, <3>9, <3>10 DEF OneConnectAtATime, NoAbort
  <2>3. CASE chState[p][q] = "UNCONNECTED" /\ cm_accept(p, q, m)
    <3>1. pendCli[p][q] = 0 /\ pendSrv[p][q] = 0 /\ qpn[p][q] = 0
      BY <2>3 DEF PendingMatchesState, Entries, QueuePairMatchesState
    <3>2. /\ qpn' = [qpn EXCEPT ![p][q] = @ + 1]
          /\ UNCHANGED <<pendCli, abort>>
          /\ Exchange(m, {Rep(p, q, 1)})
      BY <2>3, <3>1 DEF cm_accept
    <3>3. \A r, s \in Procs :
            /\ chState'[r][s] = IF r = p /\ s = q THEN "CONNECTING_SRV" ELSE chState[r][s]
            /\ qp'[r][s] = IF r = p /\ s = q THEN "RTR" ELSE qp[r][s]
            /\ qpn'[r][s] = IF r = p /\ s = q THEN 1 ELSE qpn[r][s]
            /\ remoteQpn'[r][s] = IF r = p /\ s = q THEN 1 ELSE remoteQpn[r][s]
            /\ pendSrv'[r][s] = IF r = p /\ s = q THEN 1 ELSE pendSrv[r][s]
      BY <1>1, <2>1, <3>1, <3>2 DEF TypeOK, ConnTypeOK
    <3>4. SelfUnconnected'
      BY <1>1, <3>3 DEF SelfUnconnected
    <3>5. PendingMatchesState'
      BY <3>1, <3>2, <3>3 DEF PendingMatchesState, Entries
    <3>6. QueuePairMatchesState'
      BY <3>3 DEF QueuePairMatchesState
    <3>7. chState[q][p] = "CONNECTING_CLI"
      BY <1>1, <2>3 DEF RolesAgree, Peers, TypeOK, ConnTypeOK, ChStates
    <3>8. RolesAgree'
      BY <1>1, <2>3, <3>3, <3>7 DEF RolesAgree, Peers
    <3>9. DatagramsMatchState'
      <4>1. net' \subseteq net \cup {Rep(p, q, 1)}
        BY <3>2 DEF Exchange
      <4>2. QED
        BY <1>1, <1>2, <2>3, <3>3, <4>1 DEF DatagramsMatchState, Rep
    <3>10. OnlyIdlePosts'
      BY <1>0, <2>3, <3>3 DEF OnlyIdlePosts
    <3>11. QED
      BY <1>0, <3>2, <3>4, <3>5, <3>6, <3>8, <3>9, <3>10 DEF OneConnectAtATime, NoAbort
  <2>4. QED
    BY <1>4, <2>2, <2>3
<1>5. QED
  BY <1>3, <1>4 DEF cm_handle_REQ

\* A reply makes a client that waits for it connected.
LEMMA HandshakeREP ==
    ASSUME IInv, NEW p \in Procs, NEW q \in Procs, NEW m \in net,
           cm_handle_REP(p, q, m)
    PROVE  Handshake' /\ NoAbort'
<1> USE DEF IInv, Handshake
<1>0. /\ m.type = "REP" /\ m.src = q /\ m.dst = p
      /\ UNCHANGED <<connecting, rc>>
      /\ net' \subseteq net
  BY DEF cm_handle_REP, Exchange, mainVars, dataVars
<1>1. q # p /\ m.qpn = 1 /\ chState[q][p] \in {"CONNECTING_SRV", "IDLE"}
  BY <1>0 DEF DatagramsMatchState
<1>2. \A d \in net : d.src \in Procs /\ d.dst \in Procs
  BY DEF TypeOK, ThreadTypeOK, CmMsg
<1>3. CASE UNCHANGED <<connVars, abort>>
  BY <1>0, <1>3 DEF connVars, SelfUnconnected, PendingMatchesState, QueuePairMatchesState,
     RolesAgree, DatagramsMatchState, OnlyIdlePosts, OneConnectAtATime, NoAbort
<1>4. CASE AwaitsReply(p, q)
  <2>1. chState[p][q] = "CONNECTING_CLI" /\ pendCli[p][q] = 1 /\ pendSrv[p][q] = 0
        /\ qpn[p][q] = 1
    BY <1>4 DEF AwaitsReply, PendingMatchesState, Entries, QueuePairMatchesState
  <2>2. /\ pendCli' = [pendCli EXCEPT ![p][q] = @ - 1]
        /\ remoteQpn' = [remoteQpn EXCEPT ![p][q] = m.qpn]
        /\ qp' = [qp EXCEPT ![p][q] = "RTS"]
        /\ chState' = [chState EXCEPT ![p][q] = "IDLE"]
        /\ UNCHANGED <<qpn, pendSrv, abort>>
    BY <1>4, <2>1 DEF cm_handle_REP
  <2>3. \A r, s \in Procs :
          /\ chState'[r][s] = IF r = p /\ s = q THEN "IDLE" ELSE chState[r][s]
          /\ qp'[r][s] = IF r = p /\ s = q THEN "RTS" ELSE qp[r][s]
          /\ remoteQpn'[r][s] = IF r = p /\ s = q THEN 1 ELSE remoteQpn[r][s]
          /\ pendCli'[r][s] = IF r = p /\ s = q THEN 0 ELSE pendCli[r][s]
    BY <1>1, <2>1, <2>2 DEF TypeOK, ConnTypeOK
  <2>4. SelfUnconnected'
    BY <1>1, <2>3 DEF SelfUnconnected
  <2>5. PendingMatchesState'
    BY <2>1, <2>2, <2>3 DEF PendingMatchesState, Entries
  <2>6. QueuePairMatchesState'
    BY <2>1, <2>2, <2>3 DEF QueuePairMatchesState
  <2>7. RolesAgree'
    BY <1>1, <2>1, <2>3 DEF RolesAgree, Peers
  <2>8. DatagramsMatchState'
    BY <1>0, <1>1, <1>2, <2>1, <2>3 DEF DatagramsMatchState
  <2>9. OnlyIdlePosts'
    BY <1>0, <2>3 DEF OnlyIdlePosts
  <2>10. QED
    BY <1>0, <2>2, <2>4, <2>5, <2>6, <2>7, <2>8, <2>9 DEF OneConnectAtATime, NoAbort
<1>5. QED
  BY <1>3, <1>4 DEF cm_handle_REP, connVars

\* The first message from the client makes the server connected.
LEMMA HandshakeRead ==
    ASSUME IInv, NEW p \in Procs, NEW q \in Procs, ReadProgress(p, q)
    PROVE  Handshake' /\ NoAbort'
<1> USE DEF IInv, Handshake
<1>0. /\ rc[q][p] # << >>
      /\ rc' = [rc EXCEPT ![q][p] = Tail(@)]
      /\ UNCHANGED <<connecting, net>>
  BY DEF ReadProgress
<1>1. chState[q][p] = "IDLE"
  BY <1>0 DEF OnlyIdlePosts
<1>2. \A r, s \in Procs : rc'[r][s] # << >> => rc[r][s] # << >>
  BY <1>0 DEF TypeOK, DataTypeOK
<1>3. CASE UNCHANGED <<connVars, abort>>
  BY <1>0, <1>2, <1>3 DEF connVars, SelfUnconnected, PendingMatchesState,
     QueuePairMatchesState, RolesAgree, DatagramsMatchState, OnlyIdlePosts,
     OneConnectAtATime, NoAbort
<1>4. CASE chState[p][q] = "CONNECTING_SRV" /\ MPIDI_CH3I_CM_Establish(p, q)
  <2>1. pendSrv[p][q] = 1 /\ pendCli[p][q] = 0 /\ qpn[p][q] = 1 /\ remoteQpn[p][q] = 1
        /\ p # q
    BY <1>4 DEF PendingMatchesState, Entries, QueuePairMatchesState, SelfUnconnected
  <2>2. /\ pendSrv' = [pendSrv EXCEPT ![p][q] = @ - 1]
        /\ qp' = [qp EXCEPT ![p][q] = "RTS"]
        /\ chState' = [chState EXCEPT ![p][q] = "IDLE"]
        /\ UNCHANGED <<qpn, remoteQpn, pendCli, abort>>
    BY <1>4, <2>1 DEF MPIDI_CH3I_CM_Establish
  <2>3. \A r, s \in Procs :
          /\ chState'[r][s] = IF r = p /\ s = q THEN "IDLE" ELSE chState[r][s]
          /\ qp'[r][s] = IF r = p /\ s = q THEN "RTS" ELSE qp[r][s]
          /\ pendSrv'[r][s] = IF r = p /\ s = q THEN 0 ELSE pendSrv[r][s]
    BY <2>1, <2>2 DEF TypeOK, ConnTypeOK
  <2>4. SelfUnconnected'
    BY <2>1, <2>3 DEF SelfUnconnected
  <2>5. PendingMatchesState'
    BY <2>1, <2>2, <2>3 DEF PendingMatchesState, Entries
  <2>6. QueuePairMatchesState'
    BY <2>1, <2>2, <2>3 DEF QueuePairMatchesState
  <2>7. RolesAgree'
    BY <1>1, <1>4, <2>3 DEF RolesAgree, Peers
  <2>8. DatagramsMatchState'
    <3>1. \A d \in net : d.src \in Procs /\ d.dst \in Procs
      BY DEF TypeOK, ThreadTypeOK, CmMsg
    <3>2. QED
      BY <1>0, <1>4, <2>3, <3>1 DEF DatagramsMatchState
  <2>9. OnlyIdlePosts'
    BY <1>2, <2>3 DEF OnlyIdlePosts
  <2>10. QED
    BY <1>0, <2>2, <2>4, <2>5, <2>6, <2>7, <2>8, <2>9 DEF OneConnectAtATime, NoAbort
<1>5. QED
  BY <1>3, <1>4 DEF ReadProgress

\* A datagram the timer resends says no more than the first copy did.
LEMMA HandshakeTick ==
    ASSUME IInv, NEW p \in Procs, NEW expired \in SUBSET PendingPackets(p),
           TimerTick(p, expired)
    PROVE  Handshake' /\ NoAbort'
<1> USE DEF IInv, Handshake
<1>1. UNCHANGED <<connVars, connecting, rc, abort>> /\ net' = net \cup expired
  BY DEF TimerTick, mainVars, dataVars
<1>2. DatagramsMatchState'
  <2>1. \A m \in expired : \E q \in Procs :
           \/ m = Req(p, q, qpn[p][q]) /\ pendCli[p][q] > 0
           \/ m = Rep(p, q, qpn[p][q]) /\ pendSrv[p][q] > 0
    BY DEF PendingPackets
  <2>2. \A q \in Procs :
          /\ pendCli[p][q] > 0 => q # p /\ qpn[p][q] = 1 /\ chState[p][q] = "CONNECTING_CLI"
          /\ pendSrv[p][q] > 0 => q # p /\ qpn[p][q] = 1 /\ chState[p][q] = "CONNECTING_SRV"
    BY DEF PendingMatchesState, Entries, QueuePairMatchesState, SelfUnconnected
  <2>3. QED
    BY <1>1, <2>1, <2>2 DEF DatagramsMatchState, Req, Rep, connVars
<1>3. QED
  BY <1>1, <1>2 DEF connVars, SelfUnconnected, PendingMatchesState, QueuePairMatchesState,
     RolesAgree, OnlyIdlePosts, OneConnectAtATime, NoAbort

\* The other steps leave the connections and the wire alone, or lose a datagram.
LEMMA HandshakeOther ==
    ASSUME IInv, UNCHANGED <<connVars, abort>>, net' \subseteq net,
           OnlyIdlePosts', OneConnectAtATime'
    PROVE  Handshake' /\ NoAbort'
BY DEF IInv, Handshake, connVars, SelfUnconnected, PendingMatchesState,
   QueuePairMatchesState, RolesAgree, DatagramsMatchState, NoAbort

\* Every step keeps the handshake part of the invariant, and takes no abort branch.
LEMMA HandshakeStep == IInv /\ [Next]_vars => Handshake' /\ NoAbort'
<1> SUFFICES ASSUME IInv, [Next]_vars PROVE Handshake' /\ NoAbort'
  OBVIOUS
<1> USE DEF IInv, Handshake
<1>1. ASSUME NEW p \in Procs, NEW q \in Procs, MPIDI_CH3_iSend(p, q)
      PROVE  Handshake' /\ NoAbort'
  <2>1. OnlyIdlePosts'
    <3>1. \A r, s \in Procs : rc'[r][s] # << >> =>
             rc[r][s] # << >> \/ (r = p /\ s = q /\ CanPost(p, q))
      <4>1. \/ UNCHANGED rc
            \/ CanPost(p, q) /\ rc' = [rc EXCEPT ![p][q] = Append(@, issued[p][q] + 1)]
        BY <1>1 DEF MPIDI_CH3_iSend
      <4>2. CASE CanPost(p, q) /\ rc' = [rc EXCEPT ![p][q] = Append(@, issued[p][q] + 1)]
        BY <4>2 DEF TypeOK, DataTypeOK
      <4>3. QED
        BY <4>1, <4>2
    <3>2. QED
      BY <1>1, <3>1 DEF MPIDI_CH3_iSend, OnlyIdlePosts, CanPost, connVars
  <2>2. OneConnectAtATime'
    <3>1. \/ UNCHANGED connecting
          \/ /\ chState[p][q] = "UNCONNECTED"
             /\ connecting' = [connecting EXCEPT ![p] = {q}]
      BY <1>1 DEF MPIDI_CH3_iSend
    <3>2. p # q
      BY <1>1, TalkAssumption DEF MPIDI_CH3_iSend
    <3>3. QED
      BY <3>1, <3>2 DEF OneConnectAtATime, Peers, TypeOK, ThreadTypeOK
  <2>3. QED
    BY <1>1, <2>1, <2>2, HandshakeOther DEF MPIDI_CH3_iSend
<1>2. ASSUME NEW p \in Procs, NEW q \in Procs, MPIDI_CH3I_CM_Connect(p, q)
      PROVE  Handshake' /\ NoAbort'
  <2>1. CASE ~MustConnect(p, q)
    <3>1. /\ UNCHANGED <<connVars, net, rc, abort>>
          /\ connecting' = [connecting EXCEPT ![p] = {}]
      BY <1>2, <2>1 DEF MPIDI_CH3I_CM_Connect, connVars, dataVars
    <3>2. OneConnectAtATime' /\ OnlyIdlePosts'
      BY <3>1 DEF OneConnectAtATime, Peers, OnlyIdlePosts, TypeOK, ThreadTypeOK, connVars
    <3>3. QED
      BY <3>1, <3>2, HandshakeOther
  <2>2. QED
    BY <1>2, <2>1, HandshakeConnect
<1>3. ASSUME NEW p \in Procs, NEW q \in Procs, cm_handle_pending_send(p, q)
      PROVE  Handshake' /\ NoAbort'
  <2>1. OnlyIdlePosts'
    <3>1. \A r, s \in Procs : rc'[r][s] # << >> =>
             rc[r][s] # << >> \/ (r = p /\ s = q /\ chState[p][q] = "IDLE")
      <4>1. \/ UNCHANGED rc
            \/ /\ chState[p][q] = "IDLE"
               /\ rc' = [rc EXCEPT ![p][q] = @ \o sendq[p][q]]
        BY <1>3 DEF cm_handle_pending_send
      <4>2. CASE /\ chState[p][q] = "IDLE"
                 /\ rc' = [rc EXCEPT ![p][q] = @ \o sendq[p][q]]
        BY <4>2 DEF TypeOK, DataTypeOK
      <4>3. QED
        BY <4>1, <4>2
    <3>2. QED
      BY <1>3, <3>1 DEF cm_handle_pending_send, OnlyIdlePosts, connVars
  <2>2. QED
    BY <1>3, <2>1, HandshakeOther DEF cm_handle_pending_send, OneConnectAtATime
<1>4. ASSUME NEW p \in Procs, NEW q \in Procs, ReadProgress(p, q)
      PROVE  Handshake' /\ NoAbort'
  BY <1>4, HandshakeRead
<1>5. ASSUME NEW p \in Procs, NEW q \in Procs, NEW m \in net,
             cm_handle_REQ(p, q, m) \/ cm_handle_REP(p, q, m)
      PROVE  Handshake' /\ NoAbort'
  BY <1>5, HandshakeREQ, HandshakeREP
<1>6. ASSUME NEW p \in Procs, NewConnComplete(p) \/ cm_enable_done(p) \/ TimerCheck(p)
      PROVE  Handshake' /\ NoAbort'
  BY <1>6, HandshakeOther DEF NewConnComplete, cm_enable_done, TimerCheck, mainVars,
     dataVars, connVars, OnlyIdlePosts, OneConnectAtATime
<1>7. ASSUME NEW p \in Procs, NEW expired \in SUBSET PendingPackets(p),
             TimerTick(p, expired)
      PROVE  Handshake' /\ NoAbort'
  BY <1>7, HandshakeTick
<1>8. ASSUME NEW m \in net, LoseDatagram(m)
      PROVE  Handshake' /\ NoAbort'
  BY <1>8, HandshakeOther DEF LoseDatagram, mainVars, dataVars, connVars, OnlyIdlePosts,
     OneConnectAtATime
<1>9. CASE UNCHANGED vars
  BY <1>9, HandshakeOther DEF vars, mainVars, dataVars, connVars, OnlyIdlePosts,
     OneConnectAtATime
<1>10. QED
  BY <1>1, <1>2, <1>3, <1>4, <1>5, <1>6, <1>7, <1>8, <1>9 DEF Next

\* No step lets the timer thread wait on while something is pending.
LEMMA TimerStep == IInv /\ [Next]_vars => TimerArmed'
<1> SUFFICES ASSUME IInv, [Next]_vars PROVE TimerArmed'
  OBVIOUS
<1> USE DEF IInv, TimerArmed
<1>1. ASSUME NEW p \in Procs, SignalTimer(p),
             \A r, s \in Procs : r # p => pendCli'[r][s] = pendCli[r][s]
                                       /\ pendSrv'[r][s] = pendSrv[r][s]
      PROVE  TimerArmed'
  <2>1. \A r \in Procs : timer'[r] = "wait" => timer[r] = "wait" /\ r # p
    BY <1>1 DEF SignalTimer, TypeOK, ThreadTypeOK
  <2>2. QED
    BY <1>1, <2>1 DEF NothingPending
<1>2. ASSUME UNCHANGED timer,
             \A r, s \in Procs :
                /\ pendCli'[r][s] = pendCli[r][s] \/ pendCli[r][s] > 0
                /\ pendSrv'[r][s] = pendSrv[r][s] \/ pendSrv[r][s] > 0
      PROVE  TimerArmed'
  BY <1>2 DEF NothingPending
<1>3. ASSUME NEW p \in Procs, NEW q \in Procs, MPIDI_CH3I_CM_Connect(p, q)
      PROVE  TimerArmed'
  <2>1. CASE MustConnect(p, q)
    BY <1>1, <1>3, <2>1 DEF MPIDI_CH3I_CM_Connect, TypeOK, ConnTypeOK
  <2>2. CASE ~MustConnect(p, q)
    BY <1>2, <1>3, <2>2 DEF MPIDI_CH3I_CM_Connect
  <2>3. QED
    BY <2>1, <2>2
<1>4. ASSUME NEW p \in Procs, NEW q \in Procs, ReadProgress(p, q)
      PROVE  TimerArmed'
  <2>1. \/ UNCHANGED <<pendCli, pendSrv>>
        \/ /\ pendSrv[p][q] > 0
           /\ pendSrv' = [pendSrv EXCEPT ![p][q] = @ - 1]
           /\ UNCHANGED pendCli
    BY <1>4 DEF ReadProgress, MPIDI_CH3I_CM_Establish, connVars
  <2>2. UNCHANGED timer
    BY <1>4 DEF ReadProgress
  <2>3. CASE pendSrv' = [pendSrv EXCEPT ![p][q] = @ - 1]
    BY <1>2, <2>1, <2>2, <2>3 DEF TypeOK, ConnTypeOK
  <2>4. QED
    BY <1>2, <2>1, <2>2, <2>3
<1>5. ASSUME NEW p \in Procs, NEW q \in Procs, NEW m \in net, cm_handle_REQ(p, q, m)
      PROVE  TimerArmed'
  <2>1. CASE UNCHANGED <<connVars, timer>>
    BY <1>2, <2>1 DEF connVars
  <2>2. CASE cm_accept(p, q, m)
    BY <1>1, <2>2 DEF cm_accept, TypeOK, ConnTypeOK
  <2>3. CASE cm_accept_and_cancel(p, q, m)
    BY <1>1, <2>3 DEF cm_accept_and_cancel, TypeOK, ConnTypeOK
  <2>4. QED
    BY <1>5, <2>1, <2>2, <2>3 DEF cm_handle_REQ
<1>6. ASSUME NEW p \in Procs, NEW q \in Procs, NEW m \in net, cm_handle_REP(p, q, m)
      PROVE  TimerArmed'
  BY <1>2, <1>6 DEF cm_handle_REP, connVars, TypeOK, ConnTypeOK
<1>7. ASSUME NEW p \in Procs, TimerCheck(p)
      PROVE  TimerArmed'
  BY <1>7 DEF TimerCheck, connVars, NothingPending, TypeOK, ThreadTypeOK
<1>8. ASSUME NEW p \in Procs, NEW expired \in SUBSET PendingPackets(p),
             TimerTick(p, expired)
      PROVE  TimerArmed'
  BY <1>8 DEF TimerTick, connVars, NothingPending, TypeOK, ThreadTypeOK
<1>9. ASSUME UNCHANGED <<connVars, timer>>
      PROVE  TimerArmed'
  BY <1>2, <1>9 DEF connVars
<1>10. QED
  BY <1>3, <1>4, <1>5, <1>6, <1>7, <1>8, <1>9 DEF Next, vars, MPIDI_CH3_iSend,
     cm_handle_pending_send, NewConnComplete, cm_enable_done, LoseDatagram

\* The part of NoStrandedSend that does not follow from the pending entries.
Flushable ==
    \A p \in Procs : \A q \in Peers(p) : sendq[p][q] # << >> =>
        /\ chState[p][q] = "UNCONNECTED" => q \in connecting[p]
        /\ chState[p][q] = "IDLE" => newConn[p] \/ cmBusy[p] \/ q \in todo[p]

\* No step strands a queued message.
LEMMA FlushStep == IInv /\ [Next]_vars => Flushable'
<1> SUFFICES ASSUME IInv, [Next]_vars PROVE Flushable'
  OBVIOUS
<1>1. Flushable
  BY DEF IInv, NoStrandedSend, Flushable
<1> USE <1>1 DEF IInv, Handshake, TypeOK, Flushable, Peers
<1>2. ASSUME NEW p \in Procs, NEW q \in Procs, MPIDI_CH3_iSend(p, q)
      PROVE  Flushable'
  <2>1. UNCHANGED <<chState, newConn, cmBusy, todo>> /\ connecting[p] = {}
    BY <1>2 DEF MPIDI_CH3_iSend, connVars, MainFree
  <2>2. CASE UNCHANGED <<sendq, connecting>>
    BY <2>1, <2>2
  <2>3. CASE /\ ~CanPost(p, q)
             /\ sendq' = [sendq EXCEPT ![p][q] = Append(@, issued[p][q] + 1)]
             /\ connecting' = IF chState[p][q] = "UNCONNECTED"
                              THEN [connecting EXCEPT ![p] = {q}]
                              ELSE connecting
    <3>1. \A r, s \in Procs : ~(r = p /\ s = q) => sendq'[r][s] = sendq[r][s]
      BY <2>3 DEF DataTypeOK
    <3>2. \A r \in Procs : connecting'[r] = IF r = p /\ chState[p][q] = "UNCONNECTED"
                                            THEN {q} ELSE connecting[r]
      BY <2>3 DEF ThreadTypeOK
    <3>3. chState[p][q] = "IDLE" => sendq[p][q] # << >>
      BY <2>3 DEF CanPost
    <3>4. QED
      BY <2>1, <3>1, <3>2, <3>3
  <2>4. QED
    BY <1>2, <2>2, <2>3 DEF MPIDI_CH3_iSend
<1>3. ASSUME NEW p \in Procs, NEW q \in Procs, MPIDI_CH3I_CM_Connect(p, q)
      PROVE  Flushable'
  <2>1. /\ q \in connecting[p]
        /\ connecting' = [connecting EXCEPT ![p] = {}]
        /\ UNCHANGED <<sendq, newConn, cmBusy, todo>>
        /\ \/ chState[p][q] = "UNCONNECTED" /\ chState' = [chState EXCEPT ![p][q] = "CONNECTING_CLI"]
           \/ chState[p][q] # "UNCONNECTED" /\ UNCHANGED chState
    BY <1>3 DEF MPIDI_CH3I_CM_Connect, MustConnect, dataVars
  <2>2. \A r, s \in Procs :
          /\ chState'[r][s] = "UNCONNECTED" => chState[r][s] = "UNCONNECTED" /\ ~(r = p /\ s = q)
          /\ chState'[r][s] = "IDLE" => chState[r][s] = "IDLE"
    <3>1. CASE chState' = [chState EXCEPT ![p][q] = "CONNECTING_CLI"]
      BY <3>1 DEF ConnTypeOK
    <3>2. QED
      BY <2>1, <3>1
  <2>3. \A s \in connecting[p] : s = q
    BY <2>1 DEF OneConnectAtATime
  <2>4. QED
    BY <2>1, <2>2, <2>3 DEF ThreadTypeOK
<1>4. ASSUME NEW p \in Procs, NEW q \in Procs, cm_handle_pending_send(p, q)
      PROVE  Flushable'
  <2>1. /\ UNCHANGED <<chState, connecting, newConn, cmBusy>>
        /\ todo' = [todo EXCEPT ![p] = @ \ {q}]
        /\ \/ chState[p][q] = "IDLE" /\ sendq' = [sendq EXCEPT ![p][q] = << >>]
           \/ chState[p][q] # "IDLE" /\ UNCHANGED sendq
    BY <1>4 DEF cm_handle_pending_send, connVars
  <2>2. \A r, s \in Procs : sendq'[r][s] # << >> =>
           sendq[r][s] # << >> /\ ~(r = p /\ s = q /\ chState[p][q] = "IDLE")
    <3>1. CASE sendq' = [sendq EXCEPT ![p][q] = << >>]
      BY <3>1 DEF DataTypeOK
    <3>2. QED
      BY <2>1, <3>1
  <2>3. \A r, s \in Procs : s \in todo[r] => s \in todo'[r] \/ (r = p /\ s = q)
    BY <2>1 DEF ThreadTypeOK
  <2>4. QED
    BY <2>1, <2>2, <2>3
<1>5. ASSUME NEW p \in Procs, NEW q \in Procs, ReadProgress(p, q)
      PROVE  Flushable'
  <2>1. UNCHANGED <<sendq, newConn, cmBusy, connecting>>
    BY <1>5 DEF ReadProgress
  <2>2. CASE UNCHANGED <<chState, todo>>
    BY <2>1, <2>2
  <2>3. CASE VisitAll(p) /\ (UNCHANGED chState \/ chState' = [chState EXCEPT ![p][q] = "IDLE"])
    <3>1. \A r \in Procs : todo'[r] = IF r = p THEN Procs \ {p} ELSE todo[r]
      BY <2>3 DEF VisitAll, ThreadTypeOK
    <3>2. \A r, s \in Procs : chState'[r][s] = chState[r][s] \/ (r = p /\ chState'[r][s] = "IDLE")
      <4>1. CASE chState' = [chState EXCEPT ![p][q] = "IDLE"]
        BY <4>1 DEF ConnTypeOK
      <4>2. QED
        BY <2>3, <4>1
    <3>3. QED
      BY <2>1, <3>1, <3>2
  <2>4. QED
    BY <1>5, <2>2, <2>3 DEF ReadProgress, MPIDI_CH3I_CM_Establish, connVars
<1>6. ASSUME NEW p \in Procs, NEW q \in Procs, NEW m \in net, cm_handle_REQ(p, q, m)
      PROVE  Flushable'
  <2>1. UNCHANGED <<sendq, newConn, cmBusy, connecting, todo>>
    BY <1>6 DEF cm_handle_REQ, mainVars, dataVars
  <2>2. UNCHANGED chState \/ chState' = [chState EXCEPT ![p][q] = "CONNECTING_SRV"]
    BY <1>6 DEF cm_handle_REQ, cm_accept, cm_accept_and_cancel, connVars
  <2>3. CASE chState' = [chState EXCEPT ![p][q] = "CONNECTING_SRV"]
    <3>1. \A r, s \in Procs : chState'[r][s] = chState[r][s] \/ chState'[r][s] = "CONNECTING_SRV"
      BY <2>3 DEF ConnTypeOK
    <3>2. QED
      BY <2>1, <3>1
  <2>4. QED
    BY <2>1, <2>2, <2>3
<1>7. ASSUME NEW p \in Procs, NEW q \in Procs, NEW m \in net, cm_handle_REP(p, q, m)
      PROVE  Flushable'
  <2>1. UNCHANGED <<sendq, newConn, connecting, todo>>
    BY <1>7 DEF cm_handle_REP, mainVars, dataVars
  <2>2. CASE UNCHANGED <<chState, cmBusy>>
    BY <2>1, <2>2
  <2>3. CASE /\ chState' = [chState EXCEPT ![p][q] = "IDLE"]
             /\ cmBusy' = [cmBusy EXCEPT ![p] = TRUE]
    <3>1. \A r \in Procs : cmBusy'[r] = (r = p \/ cmBusy[r])
      BY <2>3 DEF ThreadTypeOK
    <3>2. \A r, s \in Procs : chState'[r][s] = chState[r][s] \/ (r = p /\ chState'[r][s] = "IDLE")
      BY <2>3 DEF ConnTypeOK
    <3>3. QED
      BY <2>1, <3>1, <3>2
  <2>4. QED
    BY <1>7, <2>2, <2>3 DEF cm_handle_REP, connVars
<1>8. ASSUME NEW p \in Procs, NewConnComplete(p)
      PROVE  Flushable'
  <2>1. /\ UNCHANGED <<chState, sendq, cmBusy, connecting>>
        /\ newConn' = [newConn EXCEPT ![p] = FALSE]
        /\ todo' = [todo EXCEPT ![p] = Procs \ {p}]
    BY <1>8 DEF NewConnComplete, VisitAll, connVars, dataVars
  <2>2. \A r \in Procs :
          /\ newConn'[r] = (r # p /\ newConn[r])
          /\ todo'[r] = IF r = p THEN Procs \ {p} ELSE todo[r]
    BY <2>1 DEF ThreadTypeOK
  <2>3. QED
    BY <2>1, <2>2
<1>9. ASSUME NEW p \in Procs, cm_enable_done(p)
      PROVE  Flushable'
  <2>1. /\ UNCHANGED <<chState, sendq, connecting, todo>>
        /\ newConn' = [newConn EXCEPT ![p] = TRUE]
        /\ cmBusy' = [cmBusy EXCEPT ![p] = FALSE]
    BY <1>9 DEF cm_enable_done, connVars, mainVars, dataVars
  <2>2. \A r \in Procs :
          /\ newConn'[r] = (r = p \/ newConn[r])
          /\ cmBusy'[r] = (r # p /\ cmBusy[r])
    BY <2>1 DEF ThreadTypeOK
  <2>3. QED
    BY <2>1, <2>2
<1>10. ASSUME UNCHANGED <<chState, sendq, newConn, cmBusy, connecting, todo>>
       PROVE  Flushable'
  BY <1>10
<1>11. QED
  BY <1>2, <1>3, <1>4, <1>5, <1>6, <1>7, <1>8, <1>9, <1>10
     DEF Next, vars, connVars, mainVars, dataVars, TimerCheck, TimerTick, LoseDatagram

\* The invariant is inductive.
LEMMA InvStep == IInv /\ [Next]_vars => IInv'
<1> SUFFICES ASSUME IInv, [Next]_vars PROVE IInv'
  OBVIOUS
<1>1. TypeOK'
  BY TypeStep DEF IInv
<1>2. Handshake' /\ NoAbort'
  BY HandshakeStep
<1>3. TimerArmed'
  BY TimerStep
<1>4. NoStrandedSend'
  <2>1. Flushable'
    BY FlushStep
  <2>2. QED
    BY <1>2, <2>1 DEF NoStrandedSend, Flushable, Handshake, PendingMatchesState, Entries, Peers
<1>5. QED
  BY <1>1, <1>2, <1>3, <1>4 DEF IInv

\* The inductive invariant holds in every reachable state.
THEOREM Invariant == Spec => []IInv
<1>1. IInv /\ [Next]_vars => IInv'
  BY InvStep
<1>2. QED
  BY InvInit, <1>1, PTL DEF Spec

\* CM_ERR_ABORT("Can't find pending entry") is unreachable: a VC in state
\* CONNECTING_CLI or CONNECTING_SRV always has its entry (cm.c).
THEOREM NeverAborts == Spec => []NoAbort
<1>1. IInv => NoAbort
  BY DEF IInv
<1>2. QED
  BY Invariant, <1>1, PTL

\* Two processes never both wait as servers, and none is connected to a peer
\* that does not know, whatever requests cross (cm_handle_msg).
THEOREM RolesAlwaysAgree == Spec => []RolesAgree
<1>1. IInv => RolesAgree
  BY DEF IInv, Handshake
<1>2. QED
  BY Invariant, <1>1, PTL

\* A queue pair moved to RTS is connected to the one the peer uses, which is
\* ready to receive and connected back (cm_qp_move_to_rtr, cm_qp_move_to_rts).
THEOREM SendersAlwaysPaired == Spec => []SendersArePaired
<1>1. IInv => SendersArePaired
  <2> SUFFICES ASSUME IInv, NEW p \in Procs, NEW q \in Peers(p), qp[p][q] = "RTS"
               PROVE  /\ qp[q][p] \in {"RTR", "RTS"}
                      /\ remoteQpn[p][q] = qpn[q][p]
                      /\ remoteQpn[q][p] = qpn[p][q]
    BY DEF SendersArePaired
  <2>1. q \in Procs /\ p \in Peers(q)
    BY DEF Peers
  <2>2. chState[p][q] = "IDLE"
    BY <2>1 DEF IInv, Handshake, QueuePairMatchesState, TypeOK, ConnTypeOK, ChStates
  <2>3. chState[q][p] \in {"CONNECTING_SRV", "IDLE"}
    BY <2>1, <2>2 DEF IInv, Handshake, RolesAgree
  <2>4. QED
    BY <2>1, <2>2, <2>3 DEF IInv, Handshake, QueuePairMatchesState
<1>2. QED
  BY Invariant, <1>1, PTL

\* MPIDI_CH3_iSend and cm_handle_pending_send post only on queue pairs in RTS.
THEOREM AlwaysPostedOnRTS == Spec => []PostedOnRTS
<1>1. IInv => PostedOnRTS
  BY DEF IInv, Handshake, OnlyIdlePosts, QueuePairMatchesState, PostedOnRTS, Peers
<1>2. QED
  BY Invariant, <1>1, PTL

\* Every queued message is somebody's business: no wake-up between the
\* completion thread and the progress engine is lost (new_conn_complete).
THEOREM NeverStranded == Spec => []NoStrandedSend
<1>1. IInv => NoStrandedSend
  BY DEF IInv
<1>2. QED
  BY Invariant, <1>1, PTL

\* The timer thread never waits on its condition variable while an entry is
\* pending (cm_send_ud_msg, cm_timeout_handler).
THEOREM TimerAlwaysArmed == Spec => []TimerArmed
<1>1. IInv => TimerArmed
  BY DEF IInv
<1>2. QED
  BY Invariant, <1>1, PTL
-----------------------------------------------------------------------------
(***************************************************************************)
(* ConnMgr implements FifoChannels: every behaviour of the connection      *)
(* manager is one of reliable FIFO channels, a channel's contents being    *)
(* the messages posted and not received, then those queued.                *)
(***************************************************************************)

\* Appending to a concatenation appends to its second part.
LEMMA ConcatAppend ==
    ASSUME NEW s \in Seq(Nat), NEW t \in Seq(Nat), NEW e \in Nat
    PROVE  s \o Append(t, e) = Append(s \o t, e)
<1>1. Append(t, e) = t \o <<e>> /\ Append(s \o t, e) = (s \o t) \o <<e>>
  BY AppendIsConcat, ConcatProperties
<1>2. (s \o t) \o <<e>> = s \o (t \o <<e>>)
  BY ConcatAssociative
<1>3. QED
  BY <1>1, <1>2

\* Taking the head of a concatenation takes it from a non-empty first part.
LEMMA ConcatTail ==
    ASSUME NEW s \in Seq(Nat), NEW t \in Seq(Nat), s # << >>
    PROVE  /\ s \o t # << >>
           /\ Head(s \o t) = Head(s)
           /\ Tail(s \o t) = Tail(s) \o t
<1>1. /\ s \o t \in Seq(Nat)
      /\ Len(s \o t) = Len(s) + Len(t)
      /\ \A i \in 1 .. Len(s) + Len(t) :
            (s \o t)[i] = IF i <= Len(s) THEN s[i] ELSE t[i - Len(s)]
  BY ConcatProperties
<1>2. Len(s) \in Nat \ {0} /\ Len(t) \in Nat
  BY EmptySeq, LenProperties
<1>3. s \o t # << >> /\ Head(s \o t) = Head(s)
  BY <1>1, <1>2
<1>4. /\ Tail(s) \in Seq(Nat)
      /\ Len(Tail(s)) = Len(s) - 1
      /\ \A i \in 1 .. Len(Tail(s)) : Tail(s)[i] = s[i + 1]
  BY HeadTailProperties
<1>5. /\ Tail(s) \o t \in Seq(Nat)
      /\ Len(Tail(s) \o t) = Len(Tail(s)) + Len(t)
      /\ \A i \in 1 .. Len(Tail(s)) + Len(t) :
            (Tail(s) \o t)[i] = IF i <= Len(Tail(s)) THEN Tail(s)[i] ELSE t[i - Len(Tail(s))]
  BY <1>4, ConcatProperties
<1>6. /\ Tail(s \o t) \in Seq(Nat)
      /\ Len(Tail(s \o t)) = Len(s \o t) - 1
      /\ \A i \in 1 .. Len(Tail(s \o t)) : Tail(s \o t)[i] = (s \o t)[i + 1]
  BY <1>1, <1>3, HeadTailProperties
<1>7. \A i \in 1 .. Len(Tail(s \o t)) : Tail(s \o t)[i] = (Tail(s) \o t)[i]
  <2> SUFFICES ASSUME NEW i \in 1 .. Len(Tail(s \o t))
               PROVE  Tail(s \o t)[i] = (Tail(s) \o t)[i]
    OBVIOUS
  <2>1. Tail(s \o t)[i] = (s \o t)[i + 1] /\ i + 1 \in 1 .. Len(s) + Len(t)
    BY <1>1, <1>2, <1>6
  <2>2. CASE i + 1 <= Len(s)
    BY <1>1, <1>2, <1>4, <1>5, <1>6, <2>1, <2>2
  <2>3. CASE i + 1 > Len(s)
    BY <1>1, <1>2, <1>4, <1>5, <1>6, <2>1, <2>3
  <2>4. QED
    BY <1>2, <2>2, <2>3
<1>8. Len(Tail(s \o t)) = Len(Tail(s) \o t)
  BY <1>1, <1>2, <1>4, <1>5, <1>6
<1>9. QED
  BY <1>3, <1>5, <1>6, <1>7, <1>8, SeqEqual

\* Nothing concatenated is nothing changed.
LEMMA ConcatNothing ==
    ASSUME NEW s \in Seq(Nat)
    PROVE  s \o << >> = s
BY ConcatEmptySeq

\* The elements of Undelivered, before and after a step.
LEMMA UndeliveredAt ==
    /\ \A r, s \in Procs : Undelivered[r][s] = rc[r][s] \o sendq[r][s]
    /\ \A r, s \in Procs : Undelivered'[r][s] = rc'[r][s] \o sendq'[r][s]
BY DEF Undelivered

\* Undelivered is a table over pairs of processes.
LEMMA UndeliveredIs ==
    /\ Undelivered = [r \in Procs |-> [s \in Procs |-> Undelivered[r][s]]]
    /\ Undelivered' = [r \in Procs |-> [s \in Procs |-> Undelivered'[r][s]]]
BY DEF Undelivered

\* A table that differs from another at one place only.
LEMMA ExceptIs ==
    ASSUME NEW f, f = [r \in Procs |-> [s \in Procs |-> f[r][s]]],
           NEW g, g = [r \in Procs |-> [s \in Procs |-> g[r][s]]],
           NEW p \in Procs, NEW q \in Procs,
           \A r, s \in Procs : ~(r = p /\ s = q) => g[r][s] = f[r][s]
    PROVE  g = [f EXCEPT ![p][q] = g[p][q]]
<1> DEFINE h == [f EXCEPT ![p][q] = g[p][q]]
<1>1. \A r \in Procs : h[r] = [s \in Procs |-> g[r][s]]
  OBVIOUS
<1>2. h = [r \in Procs |-> h[r]]
  OBVIOUS
<1>3. QED
  BY <1>1, <1>2

\* s holds the message numbers from lo + 1 to hi, in this order.
Numbered(s, lo, hi) ==
    /\ s \in Seq(Nat)
    /\ hi = lo + Len(s)
    /\ \A i \in 1..Len(s) : s[i] = lo + i

\* No messages are numbered from 1 to 0.
LEMMA NumberedEmpty == Numbered(<< >>, 0, 0)
BY EmptySeq DEF Numbered

\* The next message extends a numbered sequence.
LEMMA NumberedAppend ==
    ASSUME NEW s, NEW lo \in Nat, NEW hi \in Nat, Numbered(s, lo, hi)
    PROVE  Numbered(Append(s, hi + 1), lo, hi + 1)
<1>1. s \in Seq(Nat) /\ hi + 1 \in Nat /\ Len(s) \in Nat
  BY LenProperties DEF Numbered
<1>2. /\ Append(s, hi + 1) \in Seq(Nat)
      /\ Len(Append(s, hi + 1)) = Len(s) + 1
      /\ \A i \in 1..Len(s) : Append(s, hi + 1)[i] = s[i]
      /\ Append(s, hi + 1)[Len(s) + 1] = hi + 1
  BY <1>1, AppendProperties
<1>3. ASSUME NEW i \in 1..(Len(s) + 1)
      PROVE  Append(s, hi + 1)[i] = lo + i
  <2>1. CASE i = Len(s) + 1
    BY <1>1, <1>2, <2>1 DEF Numbered
  <2>2. CASE i \in 1..Len(s)
    BY <1>1, <1>2, <2>2 DEF Numbered
  <2>3. QED
    BY <1>1, <2>1, <2>2
<1>4. hi + 1 = lo + (Len(s) + 1)
  BY <1>1 DEF Numbered
<1>5. QED
  BY <1>2, <1>3, <1>4 DEF Numbered

\* The first message of a numbered sequence is the next one.
LEMMA NumberedTail ==
    ASSUME NEW s, NEW lo \in Nat, NEW hi \in Nat, Numbered(s, lo, hi), s # << >>
    PROVE  Head(s) = lo + 1 /\ Numbered(Tail(s), lo + 1, hi)
<1>1. s \in Seq(Nat) /\ Len(s) \in Nat \ {0}
  BY EmptySeq DEF Numbered
<1>2. Head(s) = lo + 1
  <2>1. Head(s) = s[1] /\ 1 \in 1..Len(s)
    BY <1>1
  <2>2. QED
    BY <2>1 DEF Numbered
<1>3. /\ Tail(s) \in Seq(Nat)
      /\ Len(Tail(s)) = Len(s) - 1
      /\ \A i \in 1..Len(Tail(s)) : Tail(s)[i] = s[i + 1]
  BY <1>1, HeadTailProperties
<1>4. ASSUME NEW i \in 1..Len(Tail(s))
      PROVE  Tail(s)[i] = (lo + 1) + i
  <2>1. i + 1 \in 1..Len(s) /\ i \in Nat
    BY <1>1, <1>3
  <2>2. s[i + 1] = lo + (i + 1)
    BY <2>1 DEF Numbered
  <2>3. QED
    BY <1>3, <2>1, <2>2
<1>5. hi = (lo + 1) + Len(Tail(s))
  BY <1>1, <1>3 DEF Numbered
<1>6. QED
  BY <1>2, <1>3, <1>4, <1>5 DEF Numbered

\* What is undelivered is what was issued after the last message received.
Contiguous ==
    \A p, q \in Procs : Numbered(Undelivered[p][q], received[p][q], issued[p][q])

\* The effect of a step on what is undelivered.
LEMMA SendEffect ==
    ASSUME TypeOK, NEW p \in Procs, NEW q \in Procs, MPIDI_CH3_iSend(p, q)
    PROVE  /\ issued' = [issued EXCEPT ![p][q] = @ + 1]
           /\ Undelivered' = [Undelivered EXCEPT ![p][q] = Append(@, issued[p][q] + 1)]
           /\ UNCHANGED received
<1> DEFINE m == issued[p][q] + 1
<1>1. /\ issued' = [issued EXCEPT ![p][q] = @ + 1]
      /\ UNCHANGED received
      /\ \/ /\ sendq[p][q] = << >>
            /\ rc' = [rc EXCEPT ![p][q] = Append(@, m)]
            /\ UNCHANGED sendq
         \/ /\ sendq' = [sendq EXCEPT ![p][q] = Append(@, m)]
            /\ UNCHANGED rc
  BY DEF MPIDI_CH3_iSend, CanPost
<1>2. m \in Nat /\ \A r, s \in Procs : rc[r][s] \in Seq(Nat) /\ sendq[r][s] \in Seq(Nat)
  BY DEF TypeOK, DataTypeOK
<1> HIDE DEF m
<1>3. rc'[p][q] \o sendq'[p][q] = Append(rc[p][q] \o sendq[p][q], m)
  <2>1. CASE /\ sendq[p][q] = << >>
             /\ rc' = [rc EXCEPT ![p][q] = Append(@, m)]
             /\ UNCHANGED sendq
    <3>1. rc'[p][q] = Append(rc[p][q], m) /\ sendq'[p][q] = << >>
      BY <2>1 DEF TypeOK, DataTypeOK
    <3>2. Append(rc[p][q], m) \in Seq(Nat)
      BY <1>2, AppendProperties
    <3>3. rc[p][q] \o sendq[p][q] = rc[p][q]
      BY <1>2, <2>1, ConcatNothing
    <3>4. rc'[p][q] \o sendq'[p][q] = Append(rc[p][q], m)
      BY <3>1, <3>2, ConcatNothing
    <3>5. QED
      BY <3>3, <3>4
  <2>2. CASE /\ sendq' = [sendq EXCEPT ![p][q] = Append(@, m)]
             /\ UNCHANGED rc
    <3>1. sendq'[p][q] = Append(sendq[p][q], m) /\ rc'[p][q] = rc[p][q]
      BY <2>2 DEF TypeOK, DataTypeOK
    <3>2. rc[p][q] \o Append(sendq[p][q], m) = Append(rc[p][q] \o sendq[p][q], m)
      BY <1>2, ConcatAppend
    <3>3. QED
      BY <3>1, <3>2
  <2>3. QED
    BY <1>1, <2>1, <2>2
<1>4. \A r, s \in Procs : ~(r = p /\ s = q) =>
         rc'[r][s] = rc[r][s] /\ sendq'[r][s] = sendq[r][s]
  <2>1. CASE rc' = [rc EXCEPT ![p][q] = Append(@, m)] /\ UNCHANGED sendq
    BY <2>1 DEF TypeOK, DataTypeOK
  <2>2. CASE sendq' = [sendq EXCEPT ![p][q] = Append(@, m)] /\ UNCHANGED rc
    BY <2>2 DEF TypeOK, DataTypeOK
  <2>3. QED
    BY <1>1, <2>1, <2>2
<1>5. Undelivered' = [Undelivered EXCEPT ![p][q] = Append(@, m)]
  <2>1. Undelivered'[p][q] = Append(Undelivered[p][q], m)
    BY <1>3, UndeliveredAt
  <2>2. ASSUME NEW r \in Procs, NEW s \in Procs, ~(r = p /\ s = q)
        PROVE  Undelivered'[r][s] = Undelivered[r][s]
    <3>1. rc'[r][s] \o sendq'[r][s] = rc[r][s] \o sendq[r][s]
      BY <1>4, <2>2
    <3>2. QED
      BY <3>1, UndeliveredAt
  <2>3. Undelivered' = [Undelivered EXCEPT ![p][q] = Undelivered'[p][q]]
    BY <2>2, UndeliveredIs, ExceptIs
  <2>4. QED
    BY <2>1, <2>3
<1>6. QED
  BY <1>1, <1>5 DEF m

\* Flushing moves messages from the queue to the wire and changes no order.
LEMMA FlushEffect ==
    ASSUME TypeOK, NEW p \in Procs, NEW q \in Procs, cm_handle_pending_send(p, q)
    PROVE  UNCHANGED <<issued, Undelivered, received>>
<1>1. /\ UNCHANGED <<issued, received>>
      /\ \/ /\ rc' = [rc EXCEPT ![p][q] = @ \o sendq[p][q]]
            /\ sendq' = [sendq EXCEPT ![p][q] = << >>]
         \/ UNCHANGED <<rc, sendq>>
  BY DEF cm_handle_pending_send
<1>2. CASE UNCHANGED <<rc, sendq>>
  BY <1>1, <1>2 DEF Undelivered
<1>3. CASE /\ rc' = [rc EXCEPT ![p][q] = @ \o sendq[p][q]]
           /\ sendq' = [sendq EXCEPT ![p][q] = << >>]
  <2>1. \A r, s \in Procs : rc[r][s] \in Seq(Nat) /\ sendq[r][s] \in Seq(Nat)
    BY DEF TypeOK, DataTypeOK
  <2>2. rc'[p][q] = rc[p][q] \o sendq[p][q] /\ sendq'[p][q] = << >>
    BY <1>3 DEF TypeOK, DataTypeOK
  <2>3. \A r, s \in Procs : ~(r = p /\ s = q) =>
           rc'[r][s] = rc[r][s] /\ sendq'[r][s] = sendq[r][s]
    BY <1>3 DEF TypeOK, DataTypeOK
  <2>4. \A r, s \in Procs : rc'[r][s] \o sendq'[r][s] = rc[r][s] \o sendq[r][s]
    <3>1. rc[p][q] \o sendq[p][q] \in Seq(Nat)
      BY <2>1, ConcatProperties
    <3>2. rc'[p][q] \o sendq'[p][q] = rc[p][q] \o sendq[p][q]
      BY <2>2, <3>1, ConcatNothing
    <3>3. QED
      BY <2>3, <3>2
  <2>5. QED
    BY <1>1, <2>4 DEF Undelivered
<1>4. QED
  BY <1>1, <1>2, <1>3

\* A receive takes the first undelivered message.
LEMMA ReadEffect ==
    ASSUME TypeOK, NEW p \in Procs, NEW q \in Procs, ReadProgress(p, q)
    PROVE  /\ Undelivered[q][p] # << >>
           /\ received' = [received EXCEPT ![q][p] = Head(Undelivered[q][p])]
           /\ Undelivered' = [Undelivered EXCEPT ![q][p] = Tail(@)]
           /\ UNCHANGED issued
<1>1. /\ rc[q][p] # << >>
      /\ rc' = [rc EXCEPT ![q][p] = Tail(@)]
      /\ received' = [received EXCEPT ![q][p] = Head(rc[q][p])]
      /\ UNCHANGED <<sendq, issued>>
  BY DEF ReadProgress
<1>2. \A r, s \in Procs : rc[r][s] \in Seq(Nat) /\ sendq[r][s] \in Seq(Nat)
  BY DEF TypeOK, DataTypeOK
<1>3. /\ rc[q][p] \o sendq[q][p] # << >>
      /\ Head(rc[q][p] \o sendq[q][p]) = Head(rc[q][p])
      /\ Tail(rc[q][p] \o sendq[q][p]) = Tail(rc[q][p]) \o sendq[q][p]
  BY <1>1, <1>2, ConcatTail
<1>4. /\ rc'[q][p] = Tail(rc[q][p])
      /\ \A r, s \in Procs : ~(r = q /\ s = p) => rc'[r][s] = rc[r][s]
      /\ \A r, s \in Procs : sendq'[r][s] = sendq[r][s]
  BY <1>1 DEF TypeOK, DataTypeOK
<1>5. Undelivered' = [Undelivered EXCEPT ![q][p] = Tail(@)]
  <2>1. Undelivered'[q][p] = Tail(Undelivered[q][p])
    BY <1>3, <1>4, UndeliveredAt
  <2>2. ASSUME NEW r \in Procs, NEW s \in Procs, ~(r = q /\ s = p)
        PROVE  Undelivered'[r][s] = Undelivered[r][s]
    <3>1. rc'[r][s] \o sendq'[r][s] = rc[r][s] \o sendq[r][s]
      BY <1>4, <2>2
    <3>2. QED
      BY <3>1, UndeliveredAt
  <2>3. Undelivered' = [Undelivered EXCEPT ![q][p] = Undelivered'[q][p]]
    BY <2>2, UndeliveredIs, ExceptIs
  <2>4. QED
    BY <2>1, <2>3
<1>6. QED
  BY <1>1, <1>3, <1>5, UndeliveredAt

\* An assignment to one place of any table of tables.
LEMMA UpdateAt ==
    ASSUME NEW f, f = [r \in Procs |-> [s \in Procs |-> f[r][s]]],
           NEW p \in Procs, NEW q \in Procs, NEW x
    PROVE  \A r, s \in Procs :
              [f EXCEPT ![p][q] = x][r][s] = IF r = p /\ s = q THEN x ELSE f[r][s]
OBVIOUS

Sends(p, q) ==
    /\ issued' = [issued EXCEPT ![p][q] = @ + 1]
    /\ Undelivered' = [Undelivered EXCEPT ![p][q] = Append(@, issued[p][q] + 1)]
    /\ UNCHANGED received

Reads(p, q) ==
    /\ Undelivered[q][p] # << >>
    /\ received' = [received EXCEPT ![q][p] = Head(Undelivered[q][p])]
    /\ Undelivered' = [Undelivered EXCEPT ![q][p] = Tail(@)]
    /\ UNCHANGED issued

\* Every step sends one message, receives one, or leaves the messages alone.
LEMMA DataStep ==
    ASSUME TypeOK, [Next]_vars
    PROVE  \/ \E p, q \in Procs : Sends(p, q) \/ Reads(p, q)
           \/ UNCHANGED <<issued, Undelivered, received>>
<1>1. ASSUME NEW p \in Procs, NEW q \in Procs, MPIDI_CH3_iSend(p, q)
      PROVE  Sends(p, q)
  BY <1>1, SendEffect DEF Sends
<1>2. ASSUME NEW p \in Procs, NEW q \in Procs, ReadProgress(p, q)
      PROVE  Reads(p, q)
  BY <1>2, ReadEffect DEF Reads
<1>3. ASSUME NEW p \in Procs, NEW q \in Procs, cm_handle_pending_send(p, q)
      PROVE  UNCHANGED <<issued, Undelivered, received>>
  BY <1>3, FlushEffect
<1>4. ASSUME UNCHANGED dataVars
      PROVE  UNCHANGED <<issued, Undelivered, received>>
  BY <1>4 DEF dataVars, Undelivered
<1>5. ASSUME NEW p \in Procs, NEW q \in Procs,
             \/ MPIDI_CH3I_CM_Connect(p, q)
             \/ \E m \in net : cm_handle_REQ(p, q, m) \/ cm_handle_REP(p, q, m)
      PROVE  UNCHANGED dataVars
  BY <1>5 DEF MPIDI_CH3I_CM_Connect, cm_handle_REQ, cm_handle_REP, dataVars
<1>6. ASSUME NEW p \in Procs,
             \/ NewConnComplete(p) \/ cm_enable_done(p) \/ TimerCheck(p)
             \/ \E expired \in SUBSET PendingPackets(p) : TimerTick(p, expired)
      PROVE  UNCHANGED dataVars
  BY <1>6 DEF NewConnComplete, cm_enable_done, TimerCheck, TimerTick, dataVars
<1>7. ASSUME NEW m \in net, LoseDatagram(m)
      PROVE  UNCHANGED dataVars
  BY <1>7 DEF LoseDatagram, dataVars
<1>8. CASE UNCHANGED vars
  BY <1>4, <1>8 DEF vars
<1>9. QED
  BY <1>1, <1>2, <1>3, <1>4, <1>5, <1>6, <1>7, <1>8 DEF Next

\* Every step keeps the undelivered messages consecutive.
LEMMA ContiguousStep ==
    ASSUME TypeOK, Contiguous, [Next]_vars
    PROVE  Contiguous'
<1>1. \A r, s \in Procs : issued[r][s] \in Nat /\ received[r][s] \in Nat
  BY DEF TypeOK, DataTypeOK
<1>2. ASSUME NEW p \in Procs, NEW q \in Procs, Sends(p, q)
      PROVE  Contiguous'
  <2>1. \A r, s \in Procs : Undelivered'[r][s] =
           IF r = p /\ s = q THEN Append(Undelivered[p][q], issued[p][q] + 1)
           ELSE Undelivered[r][s]
    BY <1>2, UndeliveredIs, UpdateAt DEF Sends
  <2>2. \A r, s \in Procs :
          /\ issued'[r][s] = IF r = p /\ s = q THEN issued[p][q] + 1 ELSE issued[r][s]
          /\ received'[r][s] = received[r][s]
    BY <1>2 DEF Sends, TypeOK, DataTypeOK
  <2>3. Numbered(Append(Undelivered[p][q], issued[p][q] + 1), received[p][q], issued[p][q] + 1)
    BY <1>1, NumberedAppend DEF Contiguous
  <2>4. ASSUME NEW r \in Procs, NEW s \in Procs
        PROVE  Numbered(Undelivered'[r][s], received'[r][s], issued'[r][s])
    BY <2>1, <2>2, <2>3 DEF Contiguous
  <2>5. QED
    BY <2>4 DEF Contiguous
<1>3. ASSUME NEW p \in Procs, NEW q \in Procs, Reads(p, q)
      PROVE  Contiguous'
  <2>1. \A r, s \in Procs : Undelivered'[r][s] =
           IF r = q /\ s = p THEN Tail(Undelivered[q][p]) ELSE Undelivered[r][s]
    BY <1>3, UndeliveredIs, UpdateAt DEF Reads
  <2>2. \A r, s \in Procs :
          /\ issued'[r][s] = issued[r][s]
          /\ received'[r][s] = IF r = q /\ s = p THEN Head(Undelivered[q][p]) ELSE received[r][s]
    BY <1>3 DEF Reads, TypeOK, DataTypeOK
  <2>3. /\ Head(Undelivered[q][p]) = received[q][p] + 1
        /\ Numbered(Tail(Undelivered[q][p]), received[q][p] + 1, issued[q][p])
    BY <1>1, <1>3, NumberedTail DEF Contiguous, Reads
  <2>4. ASSUME NEW r \in Procs, NEW s \in Procs
        PROVE  Numbered(Undelivered'[r][s], received'[r][s], issued'[r][s])
    BY <2>1, <2>2, <2>3 DEF Contiguous
  <2>5. QED
    BY <2>4 DEF Contiguous
<1>4. CASE UNCHANGED <<issued, Undelivered, received>>
  BY <1>4 DEF Contiguous
<1>5. QED
  BY <1>2, <1>3, <1>4, DataStep

\* Initially nothing is undelivered.
LEMMA ContiguousInit == Init => Contiguous
<1> SUFFICES ASSUME Init PROVE Contiguous
  OBVIOUS
<1>1. \A p, q \in Procs : /\ rc[p][q] = << >> /\ sendq[p][q] = << >>
                          /\ issued[p][q] = 0 /\ received[p][q] = 0
  BY DEF Init, PerVc
<1>2. \A p, q \in Procs : Undelivered[p][q] = << >>
  <2>1. << >> \o << >> = << >>
    BY ConcatNothing, EmptySeq
  <2>2. QED
    BY <1>1, <2>1, UndeliveredAt
<1>3. QED
  BY <1>1, <1>2, NumberedEmpty DEF Contiguous

\* A step that receives takes the next message.
LEMMA ReadsNext ==
    ASSUME TypeOK, Contiguous, NEW p \in Procs, NEW q \in Procs, Reads(p, q)
    PROVE  Head(Undelivered[q][p]) = received[q][p] + 1
<1>1. issued[q][p] \in Nat /\ received[q][p] \in Nat
  BY DEF TypeOK, DataTypeOK
<1>2. QED
  BY <1>1, NumberedTail DEF Contiguous, Reads

\* Every step is a step of the abstract channels or a stutter.
LEMMA FifoStep ==
    ASSUME TypeOK, Contiguous, [Next]_vars
    PROVE  [Fifo!Next]_(Fifo!vars)
<1>1. ASSUME NEW p \in Procs, NEW q \in Procs, Sends(p, q)
      PROVE  Fifo!Send(p, q)
  BY <1>1 DEF Sends, Fifo!Send
<1>2. ASSUME NEW p \in Procs, NEW q \in Procs, Reads(p, q)
      PROVE  Fifo!Receive(q, p)
  <2>1. received' = [received EXCEPT ![q][p] = @ + 1]
    BY <1>2, ReadsNext DEF Reads
  <2>2. QED
    BY <1>2, <2>1, ReadsNext DEF Reads, Fifo!Receive
<1>3. QED
  BY <1>1, <1>2, DataStep DEF Fifo!Next, Fifo!vars

\* The initial state maps to an initial state of the abstract channels.
LEMMA FifoInit == Init => Fifo!Init
<1> SUFFICES ASSUME Init PROVE Fifo!Init
  OBVIOUS
<1>1. issued = [p \in Procs |-> [q \in Procs |-> 0]] /\ received = [p \in Procs |-> [q \in Procs |-> 0]]
  BY DEF Init, PerVc
<1>2. Undelivered = [p \in Procs |-> [q \in Procs |-> << >>]]
  <2>1. \A p, q \in Procs : rc[p][q] \o sendq[p][q] = << >>
    <3>1. \A p, q \in Procs : rc[p][q] = << >> /\ sendq[p][q] = << >>
      BY DEF Init, PerVc
    <3>2. << >> \o << >> = << >>
      BY ConcatNothing, EmptySeq
    <3>3. QED
      BY <3>1, <3>2
  <2>2. QED
    BY <2>1 DEF Undelivered
<1>3. QED
  BY <1>1, <1>2 DEF Fifo!Init

\* The connection manager implements reliable FIFO channels: whatever happens
\* to the handshake, messages arrive once and in the order they were sent, the
\* ones queued before the connection and the ones posted directly alike.
THEOREM DeliversInOrder == Spec => InOrder
<1>1. Init => Contiguous /\ TypeOK /\ Fifo!Init
  BY ContiguousInit, TypeInit, FifoInit
<1>2. TypeOK /\ Contiguous /\ [Next]_vars => Contiguous' /\ TypeOK' /\ [Fifo!Next]_(Fifo!vars)
  BY ContiguousStep, TypeStep, FifoStep
<1>3. QED
  BY <1>1, <1>2, PTL DEF Spec, InOrder, Fifo!Spec
=============================================================================
