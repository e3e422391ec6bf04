-------------------------- MODULE CreditFlowProofs --------------------------
(* Proofs about CreditFlow: for any number of rails, any depths and any number *)
(* of messages no receive queue overflows, no message waits in a backlog while *)
(* there is credit for it, every rail keeps its messages in order, every       *)
(* receive is accounted for by one credit, and all counters fit their bytes.   *)
EXTENDS CreditFlow, TLAPS, SequenceTheorems, FiniteSetTheorems

\* The shape of the state.  That the counters fit a byte follows from
\* CreditsMatchReceives (CountersAreBytes, at the end) and is not needed before.
CountersShape ==
    /\ remoteCredit \in PerRail(Nat) /\ localCredit \in PerRail(Nat)
    /\ preposts \in PerRail(Nat)
QueuesShape ==
    /\ backlog \in PerRail(Seq(Nat))
    /\ wire \in PerRail(Seq(Packet)) /\ early \in PerRail(Seq(Packet))
NumbersShape == issued \in [Ends -> Nat] /\ received \in [Ends -> Nat]
Shape == CountersShape /\ QueuesShape /\ NumbersShape

\* The invariants need the shape, and nothing else of each other.
IInv == Shape /\ ReceiveQueueFits /\ BacklogWaitsForCredit
-----------------------------------------------------------------------------
(* Lemmas about the building blocks. *)

\* One entry of a field of the credits is replaced.
LEMMA PerRailUpdate ==
    ASSUME NEW S, NEW f \in PerRail(S), NEW p \in Ends, NEW r \in Rails, NEW v \in S
    PROVE  /\ [f EXCEPT ![p][r] = v] \in PerRail(S)
           /\ \A q \in Ends, s \in Rails : [f EXCEPT ![p][r] = v][q][s] =
                 IF q = p /\ s = r THEN v ELSE f[q][s]
BY DEF PerRail

\* The constants of the receive queues are numbers, and a full set of receives fits.
LEMMA DepthsFit ==
    /\ InitialPrepost \in Nat /\ Needed \in Nat /\ RqSize \in Nat /\ Needed <= RqSize
    /\ InitialCredits \in Nat /\ InitialPrepost <= RqSize
BY DepthAssumption DEF Needed, RqSize, InitialCredits

\* A header made of numbers is a packet.
LEMMA HeaderIsPacket ==
    ASSUME NEW n \in Nat, NEW lc \in Nat, NEW rc \in Nat
    PROVE  Header(n, lc, rc) \in Packet
BY DEF Header, Packet

\* Posting receives anew takes none away and never exceeds the queue.
LEMMA RepostedFits ==
    ASSUME NEW k \in Nat, k <= RqSize
    PROVE  Reposted(k) \in Nat /\ Reposted(k) >= k /\ Reposted(k) <= RqSize
<1>1. CASE k < RqSize /\ k + PrepostThreshold < Needed
    <2>1. Reposted(k) = Needed
        BY <1>1 DEF Reposted
    <2>2. k <= Needed
        BY <1>1, DepthsFit, DepthAssumption
    <2> QED
        BY <2>1, <2>2, DepthsFit
<1>2. CASE ~(k < RqSize /\ k + PrepostThreshold < Needed)
    BY <1>2 DEF Reposted
<1> QED
    BY <1>1, <1>2

\* Backlog_send posts no more than there is, and no more than it has credit for;
\* it leaves messages only when it has used all of the credit.
LEMMA ReleasedBounds ==
    ASSUME Shape, NEW p \in Ends, NEW r \in Rails, NEW rc \in Nat
    PROVE  LET k == Released(p, r, rc) IN
           /\ k \in Nat /\ k <= rc /\ k <= Len(backlog[p][r])
           /\ k < Len(backlog[p][r]) => k = rc
<1>1. backlog[p][r] \in Seq(Nat)
    BY DEF Shape, QueuesShape, PerRail
<1>2. Len(backlog[p][r]) \in Nat
    BY <1>1, LenProperties
<1> QED
    BY <1>2 DEF Released

\* What is left of a queue once its first k entries have gone.
LEMMA RestOfQueue ==
    ASSUME NEW S, NEW s \in Seq(S), NEW k \in Nat, k <= Len(s)
    PROVE  /\ SubSeq(s, k + 1, Len(s)) \in Seq(S)
           /\ SubSeq(s, k + 1, Len(s)) # << >> => k < Len(s)
<1>1. Len(s) \in Nat
    BY LenProperties
<1>2. \A i \in (k + 1)..Len(s) : s[i] \in S
    BY <1>1, ElementOfSeq
<1>3. /\ SubSeq(s, k + 1, Len(s)) \in Seq(S)
      /\ Len(SubSeq(s, k + 1, Len(s))) =
            IF k + 1 <= Len(s) THEN Len(s) - (k + 1) + 1 ELSE 0
    BY <1>1, <1>2, SubSeqProperties
<1>4. SubSeq(s, k + 1, Len(s)) # << >> => Len(SubSeq(s, k + 1, Len(s))) # 0
    BY <1>3, EmptySeq
<1> QED
    BY <1>1, <1>3, <1>4
-----------------------------------------------------------------------------
(* What a packet handled does to credits, backlog and wire. *)

\* Parse_header keeps the shape and leaves a backlog only where no credit is left.
LEMMA ParseHeaderStep ==
    ASSUME Shape, BacklogWaitsForCredit,
           NEW p \in Ends, NEW r \in Rails, NEW m \in Packet, NEW lc \in Nat,
           NEW w \in PerRail(Seq(Packet)), Parse_header(p, r, m, lc, w)
    PROVE  /\ remoteCredit' \in PerRail(Nat) /\ localCredit' \in PerRail(Nat)
           /\ backlog' \in PerRail(Seq(Nat)) /\ wire' \in PerRail(Seq(Packet))
           /\ BacklogWaitsForCredit'
<1> DEFINE rc == remoteCredit[p][r] + m.vbufCredit
           k  == Released(p, r, rc)
           posted == [i \in 1..k |->
                        Header(backlog[p][r][i], IF i = 1 THEN lc ELSE 0, rc - i + 1)]
           rest == SubSeq(backlog[p][r], k + 1, Len(backlog[p][r]))
<1>1. /\ remoteCredit' = [remoteCredit EXCEPT ![p][r] = rc - k]
      /\ localCredit' = [localCredit EXCEPT ![p][r] = IF k = 0 THEN lc ELSE 0]
      /\ backlog' = [backlog EXCEPT ![p][r] = rest]
      /\ wire' = [w EXCEPT ![p][r] = w[p][r] \o posted]
    <2>1. /\ p \in DOMAIN backlog /\ r \in DOMAIN backlog[p]
          /\ p \in DOMAIN w /\ r \in DOMAIN w[p]
        BY DEF Shape, QueuesShape, PerRail
    <2> QED
        BY <2>1 DEF Parse_header
<1>2. /\ remoteCredit \in PerRail(Nat) /\ localCredit \in PerRail(Nat)
      /\ backlog \in PerRail(Seq(Nat))
    BY DEF Shape, CountersShape, QueuesShape
<1>3. /\ remoteCredit[p][r] \in Nat /\ backlog[p][r] \in Seq(Nat) /\ w[p][r] \in Seq(Packet)
      /\ m.vbufCredit \in Nat
    BY <1>2 DEF PerRail, Packet
<1>4. rc \in Nat
    BY <1>3
<1>5. k \in Nat /\ k <= rc /\ k <= Len(backlog[p][r]) /\ (k < Len(backlog[p][r]) => k = rc)
    BY <1>4, ReleasedBounds
<1>6. rest \in Seq(Nat) /\ (rest # << >> => k < Len(backlog[p][r]))
    BY <1>3, <1>5, RestOfQueue
<1>7. posted \in Seq(Packet)
    <2>1. SUFFICES ASSUME NEW i \in 1..k
                   PROVE  Header(backlog[p][r][i], IF i = 1 THEN lc ELSE 0, rc - i + 1) \in Packet
        BY <1>5
    <2>2. i \in 1..Len(backlog[p][r])
        BY <1>3, <1>5, LenProperties
    <2>3. backlog[p][r][i] \in Nat
        BY <1>3, <2>2, ElementOfSeq
    <2>4. rc - i + 1 \in Nat
        BY <1>4, <1>5
    <2> QED
        BY <2>3, <2>4, HeaderIsPacket
<1>8. w[p][r] \o posted \in Seq(Packet)
    BY <1>3, <1>7, ConcatProperties
<1> HIDE DEF rc, k, posted, rest
<1>9. rc - k \in Nat /\ (IF k = 0 THEN lc ELSE 0) \in Nat
    BY <1>4, <1>5
<1>10. /\ remoteCredit' \in PerRail(Nat)
       /\ \A q \in Ends, s \in Rails : remoteCredit'[q][s] =
             IF q = p /\ s = r THEN rc - k ELSE remoteCredit[q][s]
    <2> DEFINE left == rc - k
               new == [remoteCredit EXCEPT ![p][r] = left]
    <2>1. remoteCredit' = new
        BY <1>1
    <2>2. left \in Nat
        BY <1>9
    <2> HIDE DEF left
    <2>3. /\ new \in PerRail(Nat)
          /\ \A q \in Ends, s \in Rails :
                new[q][s] = IF q = p /\ s = r THEN left ELSE remoteCredit[q][s]
        BY <1>2, <2>2 DEF PerRail
    <2> HIDE DEF new
    <2>4. /\ remoteCredit' \in PerRail(Nat)
          /\ \A q \in Ends, s \in Rails :
                remoteCredit'[q][s] = IF q = p /\ s = r THEN left ELSE remoteCredit[q][s]
        BY <2>1, <2>3
    <2> QED
        BY <2>4 DEF left
<1>11. /\ backlog' \in PerRail(Seq(Nat))
       /\ \A q \in Ends, s \in Rails : backlog'[q][s] =
             IF q = p /\ s = r THEN rest ELSE backlog[q][s]
    <2> DEFINE new == [backlog EXCEPT ![p][r] = rest]
    <2>0. rest \in Seq(Nat) /\ backlog \in PerRail(Seq(Nat))
        BY <1>2, <1>6
    <2> HIDE DEF rest
    <2>1. /\ new \in PerRail(Seq(Nat))
          /\ \A q \in Ends, s \in Rails :
                new[q][s] = IF q = p /\ s = r THEN rest ELSE backlog[q][s]
        BY <2>0 DEF PerRail
    <2>2. backlog' = new
        BY <1>1
    <2> HIDE DEF new
    <2> QED
        BY <2>1, <2>2
<1>12. localCredit' \in PerRail(Nat)
    BY <1>1, <1>2, <1>9, PerRailUpdate
<1>13. wire' \in PerRail(Seq(Packet))
    BY <1>1, <1>8, PerRailUpdate
<1>14. BacklogWaitsForCredit'
    <2>1. SUFFICES ASSUME NEW q \in Ends, NEW s \in Rails, backlog'[q][s] # << >>
                   PROVE  remoteCredit'[q][s] = 0
        BY DEF BacklogWaitsForCredit
    <2>2. CASE q = p /\ s = r
        <3>1. rest # << >>
            BY <1>11, <2>1, <2>2
        <3>2. k = rc
            BY <1>5, <1>6, <3>1
        <3> QED
            BY <1>4, <1>10, <2>2, <3>2
    <2>3. CASE ~(q = p /\ s = r)
        BY <1>10, <1>11, <2>1, <2>3 DEF BacklogWaitsForCredit
    <2> QED
        BY <2>2, <2>3
<1> QED
    BY <1>10, <1>11, <1>12, <1>13, <1>14
-----------------------------------------------------------------------------
(* The invariant: one lemma for the initial states and one per action. *)

\* The invariant holds at first.
LEMMA InitIInv == Init => IInv
<1> SUFFICES ASSUME Init PROVE IInv
    OBVIOUS
<1>1. Shape
    <2>1. InitialCredits \in Nat /\ InitialPrepost \in Nat
        BY DepthsFit
    <2>2. << >> \in Seq(Nat) /\ << >> \in Seq(Packet)
        OBVIOUS
    <2>3. CountersShape
        BY <2>1 DEF Init, OnAll, CountersShape, PerRail
    <2>4. QueuesShape
        BY <2>2 DEF Init, OnAll, QueuesShape, PerRail
    <2>5. NumbersShape
        BY DEF Init, NumbersShape
    <2> QED
        BY <2>3, <2>4, <2>5 DEF Shape
<1>2. ReceiveQueueFits
    BY DepthsFit DEF Init, OnAll, ReceiveQueueFits
<1>3. BacklogWaitsForCredit
    BY DEF Init, OnAll, BacklogWaitsForCredit
<1> QED
    BY <1>1, <1>2, <1>3 DEF IInv

\* post_send keeps the invariant: it puts a message into the backlog only without credit.
LEMMA PostSendKeeps ==
    ASSUME IInv, NEW p \in Ends, NEW r \in Rails, post_send(p, r)
    PROVE  IInv'
<1> DEFINE n == issued[p] + 1
           h == Header(n, localCredit[p][r], remoteCredit[p][r])
<1>1. /\ CountersShape /\ QueuesShape /\ NumbersShape
      /\ ReceiveQueueFits /\ BacklogWaitsForCredit
    BY DEF IInv, Shape
<1>2. n \in Nat
    BY <1>1 DEF NumbersShape
<1>3. NumbersShape'
    BY <1>1 DEF post_send, NumbersShape
<1>4. UNCHANGED <<preposts, early>>
    BY DEF post_send
<1>5. CASE MayPost(p, r)
    <2>1. /\ wire' = [wire EXCEPT ![p][r] = Append(@, h)]
          /\ localCredit' = [localCredit EXCEPT ![p][r] = 0]
          /\ remoteCredit' = [remoteCredit EXCEPT ![p][r] = @ - 1]
          /\ backlog' = backlog
        BY <1>5 DEF post_send
    <2>2. h \in Packet
        BY <1>1, <1>2, HeaderIsPacket DEF CountersShape, PerRail
    <2> HIDE DEF h, n
    <2>3. wire' \in PerRail(Seq(Packet))
        BY <1>1, <2>1, <2>2 DEF QueuesShape, PerRail
    <2>4. /\ localCredit' \in PerRail(Nat) /\ remoteCredit' \in PerRail(Nat)
          /\ \A q \in Ends, s \in Rails :
                remoteCredit'[q][s] = IF q = p /\ s = r THEN remoteCredit[q][s] - 1
                                                     ELSE remoteCredit[q][s]
        BY <1>1, <1>5, <2>1 DEF CountersShape, PerRail, MayPost
    <2>5. BacklogWaitsForCredit'
        BY <1>1, <1>5, <2>1, <2>4 DEF BacklogWaitsForCredit, MayPost
    <2>6. QueuesShape' /\ CountersShape' /\ ReceiveQueueFits'
        BY <1>1, <1>4, <2>1, <2>3, <2>4 DEF QueuesShape, CountersShape, ReceiveQueueFits
    <2> QED
        BY <1>3, <2>5, <2>6 DEF IInv, Shape
<1>6. CASE ~MayPost(p, r)
    <2>1. /\ backlog' = [backlog EXCEPT ![p][r] = Append(@, n)]
          /\ UNCHANGED <<wire, localCredit, remoteCredit>>
        BY <1>6 DEF post_send
    <2> HIDE DEF n
    <2>2. /\ backlog' \in PerRail(Seq(Nat))
          /\ \A q \in Ends, s \in Rails :
                ~(q = p /\ s = r) => backlog'[q][s] = backlog[q][s]
        BY <1>1, <1>2, <2>1 DEF QueuesShape, PerRail
    <2>3. remoteCredit[p][r] = 0
        BY <1>1, <1>6 DEF CountersShape, PerRail, MayPost
    <2>4. BacklogWaitsForCredit'
        BY <1>1, <2>1, <2>2, <2>3 DEF BacklogWaitsForCredit
    <2>5. QueuesShape' /\ CountersShape' /\ ReceiveQueueFits'
        BY <1>1, <1>4, <2>1, <2>2 DEF QueuesShape, CountersShape, ReceiveQueueFits
    <2> QED
        BY <1>3, <2>4, <2>5 DEF IInv, Shape
<1> QED
    BY <1>5, <1>6

\* Handling an early message keeps the invariant.
LEMMA WaitingMsgKeeps ==
    ASSUME IInv, NEW p \in Ends, NEW r \in Rails, Waiting_msg(p, r)
    PROVE  IInv'
<1> DEFINE m == Head(early[p][r])
<1>1. /\ Shape /\ CountersShape /\ QueuesShape /\ NumbersShape
      /\ ReceiveQueueFits /\ BacklogWaitsForCredit
    BY DEF IInv, Shape
<1>2. early[p][r] \in Seq(Packet) /\ early[p][r] # << >>
    BY <1>1 DEF QueuesShape, PerRail, Waiting_msg, Ready
<1>3. m \in Packet /\ Tail(early[p][r]) \in Seq(Packet)
    BY <1>2, HeadTailProperties
<1>4. /\ received' = [received EXCEPT ![p] = m.n]
      /\ early' = [early EXCEPT ![p][r] = Tail(@)]
      /\ Parse_header(p, r, m, localCredit[p][r], wire)
      /\ UNCHANGED <<issued, preposts>>
    BY DEF Waiting_msg, Handle
<1>5. m.n \in Nat
    BY <1>3 DEF Packet
<1> HIDE DEF m
<1>6. localCredit[p][r] \in Nat /\ wire \in PerRail(Seq(Packet))
    BY <1>1 DEF CountersShape, QueuesShape, PerRail
<1>7. /\ remoteCredit' \in PerRail(Nat) /\ localCredit' \in PerRail(Nat)
      /\ backlog' \in PerRail(Seq(Nat)) /\ wire' \in PerRail(Seq(Packet))
      /\ BacklogWaitsForCredit'
    BY <1>1, <1>3, <1>4, <1>6, ParseHeaderStep
<1>8. early' \in PerRail(Seq(Packet))
    BY <1>1, <1>3, <1>4 DEF QueuesShape, PerRail
<1>9. NumbersShape'
    BY <1>1, <1>4, <1>5 DEF NumbersShape
<1>10. CountersShape' /\ QueuesShape' /\ ReceiveQueueFits'
    BY <1>1, <1>4, <1>7, <1>8 DEF CountersShape, QueuesShape, ReceiveQueueFits
<1> QED
    BY <1>7, <1>9, <1>10 DEF IInv, Shape

\* Cq_poll keeps the invariant: the receives it posts fit, and the credits it gets are used.
LEMMA CqPollKeeps ==
    ASSUME IInv, NEW p \in Ends, NEW r \in Rails, Cq_poll(p, r)
    PROVE  IInv'
<1> DEFINE q == Peer(p)
           m == Head(wire[q][r])
           left == preposts[p][r] - 1
           posted == IF IsNoop(m) THEN left + 1 ELSE Reposted(left)
           lc == localCredit[p][r] + Gained(m, posted - left)
           taken == [wire EXCEPT ![q][r] = Tail(@)]
           tell == NoopNeeded(p, r, lc)
           rest == IF tell THEN 0 ELSE lc
           h == Header(0, lc, remoteCredit[p][r])
           told == [taken EXCEPT ![p][r] = Append(@, h)]
           w == IF tell THEN told ELSE taken
<1>1. /\ Shape /\ CountersShape /\ QueuesShape /\ NumbersShape
      /\ ReceiveQueueFits /\ BacklogWaitsForCredit
    BY DEF IInv, Shape
<1>2. /\ wire[q][r] # << >> /\ preposts[p][r] > 0
      /\ preposts' = [preposts EXCEPT ![p][r] = posted]
      /\ issued' = issued
      /\ \/ /\ Parse_header(p, r, m, rest, w)
            /\ UNCHANGED <<received, early>>
         \/ /\ Parse_header(p, r, m, rest, w)
            /\ received' = [received EXCEPT ![p] = m.n]
            /\ UNCHANGED early
         \/ Queue(p, r, m, rest, w)
    BY DEF Cq_poll, Handle
<1>3. q \in Ends
    BY DEF Peer, Ends
<1>4. /\ wire \in PerRail(Seq(Packet)) /\ wire[q][r] \in Seq(Packet)
      /\ preposts[p][r] \in Nat /\ preposts[p][r] <= RqSize
      /\ localCredit[p][r] \in Nat /\ remoteCredit[p][r] \in Nat
    BY <1>1, <1>3 DEF CountersShape, QueuesShape, PerRail, ReceiveQueueFits
<1>5. m \in Packet /\ Tail(wire[q][r]) \in Seq(Packet)
    BY <1>2, <1>4, HeadTailProperties
<1>6. left \in Nat /\ left <= RqSize /\ left + 1 <= RqSize
    <2>1. preposts[p][r] > 0
        BY <1>2
    <2>2. \A k \in Nat : k > 0 /\ k <= RqSize =>
             k - 1 \in Nat /\ k - 1 <= RqSize /\ (k - 1) + 1 <= RqSize
        BY DepthsFit
    <2> QED
        BY <1>4, <2>1, <2>2
<1> HIDE DEF q, m
<1>7. posted \in Nat /\ posted >= left /\ posted <= RqSize
    <2> HIDE DEF left
    <2>1. Reposted(left) \in Nat /\ Reposted(left) >= left /\ Reposted(left) <= RqSize
        BY <1>6, RepostedFits
    <2>2. CASE IsNoop(m)
        BY <1>6, <2>2
    <2>3. CASE ~IsNoop(m)
        BY <2>1, <2>3
    <2> QED
        BY <2>2, <2>3
<1> HIDE DEF left, posted
<1>8. posted - left \in Nat
    BY <1>6, <1>7
<1>9. lc \in Nat
    BY <1>4, <1>8 DEF Gained
<1> HIDE DEF lc
<1>10. taken \in PerRail(Seq(Packet))
    BY <1>3, <1>4, <1>5 DEF PerRail
<1>11. h \in Packet
    BY <1>4, <1>9, HeaderIsPacket
<1> HIDE DEF taken, h
<1>12. told \in PerRail(Seq(Packet))
    BY <1>10, <1>11 DEF PerRail
<1> HIDE DEF told
<1>13. w \in PerRail(Seq(Packet)) /\ rest \in Nat
    BY <1>9, <1>10, <1>12
<1> HIDE DEF w, rest, tell
<1>14. /\ preposts' \in PerRail(Nat)
       /\ ReceiveQueueFits'
    <2>1. preposts \in PerRail(Nat)
        BY <1>1 DEF CountersShape
    <2>2. /\ preposts' \in PerRail(Nat)
          /\ \A e \in Ends, s \in Rails :
                preposts'[e][s] = IF e = p /\ s = r THEN posted ELSE preposts[e][s]
        BY <1>2, <1>7, <2>1 DEF PerRail
    <2>3. RqSize' = RqSize
        BY DEF RqSize
    <2> QED
        BY <1>1, <1>7, <2>2, <2>3 DEF ReceiveQueueFits
<1>15. CASE Parse_header(p, r, m, rest, w) /\ early' = early
    <2>1. /\ remoteCredit' \in PerRail(Nat) /\ localCredit' \in PerRail(Nat)
          /\ backlog' \in PerRail(Seq(Nat)) /\ wire' \in PerRail(Seq(Packet))
          /\ BacklogWaitsForCredit'
        BY <1>1, <1>5, <1>13, <1>15, ParseHeaderStep
    <2>2. early' \in PerRail(Seq(Packet))
        BY <1>1, <1>15 DEF QueuesShape
    <2>3. received' \in [Ends -> Nat]
        <3>1. m.n \in Nat
            BY <1>5 DEF Packet
        <3>2. \/ received' = received
              \/ received' = [received EXCEPT ![p] = m.n]
            BY <1>2 DEF Queue
        <3> QED
            BY <1>1, <3>1, <3>2 DEF NumbersShape
    <2>4. NumbersShape'
        BY <1>1, <1>2, <2>3 DEF NumbersShape
    <2>5. CountersShape' /\ QueuesShape'
        BY <1>14, <2>1, <2>2 DEF CountersShape, QueuesShape
    <2> QED
        BY <1>14, <2>1, <2>4, <2>5 DEF IInv, Shape
<1>16. CASE Queue(p, r, m, rest, w)
    <2>1. /\ early' = [early EXCEPT ![p][r] = Append(@, m)]
          /\ localCredit' = [localCredit EXCEPT ![p][r] = rest]
          /\ wire' = w
          /\ UNCHANGED <<received, remoteCredit, backlog>>
        BY <1>16 DEF Queue
    <2>2. early' \in PerRail(Seq(Packet))
        BY <1>1, <1>5, <2>1 DEF QueuesShape, PerRail
    <2>3. localCredit' \in PerRail(Nat)
        BY <1>1, <1>13, <2>1 DEF CountersShape, PerRail
    <2>4. CountersShape' /\ QueuesShape'
        BY <1>1, <1>13, <1>14, <2>1, <2>2, <2>3 DEF CountersShape, QueuesShape
    <2>5. NumbersShape' /\ BacklogWaitsForCredit'
        BY <1>1, <1>2, <2>1 DEF NumbersShape, BacklogWaitsForCredit
    <2> QED
        BY <1>14, <2>4, <2>5 DEF IInv, Shape
<1> QED
    BY <1>2, <1>15, <1>16

\* Every step keeps the invariant.
LEMMA NextKeepsIInv == IInv /\ [Next]_vars => IInv'
<1> SUFFICES ASSUME IInv, [Next]_vars PROVE IInv'
    OBVIOUS
<1>1. ASSUME NEW p \in Ends, NEW r \in Rails, post_send(p, r) PROVE IInv'
    BY <1>1, PostSendKeeps
<1>2. ASSUME NEW p \in Ends, NEW r \in Rails, Cq_poll(p, r) PROVE IInv'
    BY <1>2, CqPollKeeps
<1>3. ASSUME NEW p \in Ends, NEW r \in Rails, Waiting_msg(p, r) PROVE IInv'
    BY <1>3, WaitingMsgKeeps
<1>4. CASE UNCHANGED vars
    BY <1>4 DEF vars, creditVars, IInv, Shape, CountersShape, QueuesShape, NumbersShape,
                ReceiveQueueFits, BacklogWaitsForCredit
<1> QED
    BY <1>1, <1>2, <1>3, <1>4 DEF Next
-----------------------------------------------------------------------------
\* IInv holds always (Init, and every step of Next).
THEOREM AlwaysIInv == Spec => []IInv
<1>1. Init => IInv
    BY InitIInv
<1>2. IInv /\ [Next]_vars => IInv'
    BY NextKeepsIInv
<1> QED
    BY <1>1, <1>2, PTL DEF Spec

\* Cq_poll posts receives in batches; never more than the receive queue of a
\* queue pair has room for.
THEOREM ReceivesFit == Spec => []ReceiveQueueFits
<1>1. IInv => ReceiveQueueFits
    BY DEF IInv
<1> QED
    BY <1>1, AlwaysIInv, PTL

\* post_send and MRAILI_Backlog_send together: no message stays in a backlog
\* while there is credit for it, so post_send lets no later message pass it.
THEOREM BacklogOnlyWithoutCredit == Spec => []BacklogWaitsForCredit
<1>1. IInv => BacklogWaitsForCredit
    BY DEF IInv
<1> QED
    BY <1>1, AlwaysIInv, PTL
-----------------------------------------------------------------------------
(* The order on the rails.  First what sequences of numbers are made of.      *)

\* The messages of a sequence of numbers.
Messages(seq) == {seq[i] : i \in 1..Len(seq)} \ {0}

\* An entry of a concatenation, and each entry of its parts.
LEMMA ConcatEntries ==
    ASSUME NEW u \in Seq(Nat), NEW v \in Seq(Nat)
    PROVE  /\ u \o v \in Seq(Nat) /\ Len(u \o v) = Len(u) + Len(v)
           /\ \A i \in 1..Len(u) : (u \o v)[i] = u[i]
           /\ \A i \in 1..Len(v) : (u \o v)[Len(u) + i] = v[i]
           /\ \A i \in 1..(Len(u) + Len(v)) :
                 i \in 1..Len(u) \/ \E j \in 1..Len(v) : i = Len(u) + j
<1>1. /\ u \o v \in Seq(Nat) /\ Len(u \o v) = Len(u) + Len(v)
      /\ \A i \in 1..(Len(u) + Len(v)) :
            (u \o v)[i] = IF i <= Len(u) THEN u[i] ELSE v[i - Len(u)]
  BY ConcatProperties
<1>2. Len(u) \in Nat /\ Len(v) \in Nat
  BY LenProperties
<1> DEFINE a == Len(u)
           b == Len(v)
<1>3. \A i \in 1..b : a + i \in 1..(a + b) /\ ~(a + i <= a) /\ (a + i) - a = i
  BY <1>2
<1>4. \A i \in 1..(a + b) : i \in 1..a \/ (i - a \in 1..b /\ i = a + (i - a))
  BY <1>2
<1>5. \A i \in 1..a : i \in 1..(a + b) /\ i <= a
  BY <1>2
<1> QED BY <1>1, <1>3, <1>4, <1>5

\* The messages of a concatenation are those of its parts.
LEMMA MessagesOfBoth ==
    ASSUME NEW u \in Seq(Nat), NEW v \in Seq(Nat)
    PROVE  Messages(u \o v) = Messages(u) \cup Messages(v)
<1> DEFINE c == u \o v
<1>1. /\ Len(c) = Len(u) + Len(v) /\ Len(u) \in Nat /\ Len(v) \in Nat
      /\ \A i \in 1..Len(u) : c[i] = u[i]
      /\ \A i \in 1..Len(v) : c[Len(u) + i] = v[i]
      /\ \A i \in 1..(Len(u) + Len(v)) :
            i \in 1..Len(u) \/ \E j \in 1..Len(v) : i = Len(u) + j
  BY ConcatEntries, LenProperties
<1> HIDE DEF c
<1>2. \A i \in 1..Len(u) : i \in 1..Len(c)
  BY <1>1
<1>3. \A i \in 1..Len(v) : Len(u) + i \in 1..Len(c)
  BY <1>1
<1>4. ASSUME NEW x \in Messages(c)
      PROVE  x \in Messages(u) \cup Messages(v)
  <2>1. PICK k \in 1..(Len(u) + Len(v)) : c[k] = x /\ x # 0
    BY <1>1 DEF Messages
  <2>2. CASE k \in 1..Len(u)
    BY <1>1, <2>1, <2>2 DEF Messages
  <2>3. CASE k \notin 1..Len(u)
    <3>1. PICK j \in 1..Len(v) : k = Len(u) + j
      BY <1>1, <2>3
    <3> QED BY <1>1, <2>1, <3>1 DEF Messages
  <2> QED BY <2>2, <2>3
<1>5. Messages(u) \subseteq Messages(c)
  BY <1>1, <1>2 DEF Messages
<1>6. ASSUME NEW x \in Messages(v)
      PROVE  x \in Messages(c)
  <2>1. PICK j \in 1..Len(v) : v[j] = x /\ x # 0
    BY DEF Messages
  <2>2. Len(u) + j \in 1..Len(c) /\ c[Len(u) + j] = x
    BY <1>1, <1>3, <2>1
  <2> QED BY <2>1, <2>2 DEF Messages
<1> QED BY <1>4, <1>5, <1>6 DEF c

\* A concatenation rises when its parts do and the messages of the second are larger
\* than all numbers of the first.
LEMMA RisingParts ==
    ASSUME NEW u \in Seq(Nat), NEW v \in Seq(Nat)
    PROVE  Rising(u \o v) <=> /\ Rising(u) /\ Rising(v)
                              /\ \A x \in Messages(u), y \in Messages(v) : x < y
<1> DEFINE c == u \o v
<1>1. /\ Len(c) = Len(u) + Len(v) /\ Len(u) \in Nat /\ Len(v) \in Nat
      /\ \A i \in 1..Len(u) : c[i] = u[i] /\ u[i] \in Nat
      /\ \A i \in 1..Len(v) : c[Len(u) + i] = v[i] /\ v[i] \in Nat
      /\ \A i \in 1..(Len(u) + Len(v)) :
            i \in 1..Len(u) \/ \E j \in 1..Len(v) : i = Len(u) + j
  BY ConcatEntries, LenProperties, ElementOfSeq
<1> HIDE DEF c
<1>2. ASSUME Rising(c)
      PROVE  /\ Rising(u) /\ Rising(v)
             /\ \A x \in Messages(u), y \in Messages(v) : x < y
  <2>1. Rising(u)
    <3> SUFFICES ASSUME NEW i \in 1..Len(u), NEW j \in 1..Len(u), i < j, u[j] # 0
                 PROVE  u[i] < u[j]
      BY DEF Rising
    <3>1. i \in 1..Len(c) /\ j \in 1..Len(c)
      BY <1>1
    <3> QED BY <1>1, <1>2, <3>1 DEF Rising
  <2>2. Rising(v)
    <3> SUFFICES ASSUME NEW i \in 1..Len(v), NEW j \in 1..Len(v), i < j, v[j] # 0
                 PROVE  v[i] < v[j]
      BY DEF Rising
    <3>1. Len(u) + i \in 1..Len(c) /\ Len(u) + j \in 1..Len(c) /\ Len(u) + i < Len(u) + j
      BY <1>1
    <3> QED BY <1>1, <1>2, <3>1 DEF Rising
  <2>3. ASSUME NEW x \in Messages(u), NEW y \in Messages(v) PROVE x < y
    <3>1. PICK i \in 1..Len(u) : u[i] = x
      BY DEF Messages
    <3>2. PICK j \in 1..Len(v) : v[j] = y /\ y # 0
      BY DEF Messages
    <3>3. i \in 1..Len(c) /\ Len(u) + j \in 1..Len(c) /\ i < Len(u) + j
      BY <1>1
    <3>4. c[Len(u) + j] # 0
      BY <1>1, <3>2
    <3>5. c[i] < c[Len(u) + j]
      BY <1>2, <3>3, <3>4 DEF Rising
    <3> QED BY <1>1, <3>1, <3>2, <3>5
  <2> QED BY <2>1, <2>2, <2>3
<1>3. ASSUME Rising(u), Rising(v), \A x \in Messages(u), y \in Messages(v) : x < y
      PROVE  Rising(c)
  <2> SUFFICES ASSUME NEW i \in 1..Len(c), NEW j \in 1..Len(c), i < j, c[j] # 0
               PROVE  c[i] < c[j]
    BY DEF Rising
  <2>1. CASE i \in 1..Len(u) /\ j \in 1..Len(u)
    BY <1>1, <1>3, <2>1 DEF Rising
  <2>2. CASE i \in 1..Len(u) /\ j \notin 1..Len(u)
    <3>1. PICK k \in 1..Len(v) : j = Len(u) + k
      BY <1>1, <2>2
    <3>2. c[j] = v[k] /\ v[k] \in Messages(v) /\ v[k] \in Nat
      BY <1>1, <3>1 DEF Messages
    <3>3. c[i] = u[i] /\ u[i] \in Nat /\ (u[i] = 0 \/ u[i] \in Messages(u))
      BY <1>1, <2>2 DEF Messages
    <3>4. CASE u[i] = 0
      BY <3>2, <3>3, <3>4
    <3>5. CASE u[i] \in Messages(u)
      BY <1>3, <3>2, <3>3, <3>5
    <3> QED BY <3>3, <3>4, <3>5
  <2>3. CASE i \notin 1..Len(u)
    <3>1. PICK h \in 1..Len(v) : i = Len(u) + h
      BY <1>1, <2>3
    <3>2. j \notin 1..Len(u)
      BY <1>1, <2>3
    <3>3. PICK k \in 1..Len(v) : j = Len(u) + k
      BY <1>1, <3>2
    <3>4. h < k /\ c[i] = v[h] /\ c[j] = v[k]
      BY <1>1, <3>1, <3>3
    <3> QED BY <1>3, <3>4 DEF Rising
  <2> QED BY <2>1, <2>2, <2>3
<1> QED BY <1>2, <1>3 DEF c

\* A rail: what is early, what is on the wire, the backlog.
Orderly(e, w, b) ==
    /\ Rising(e) /\ Rising(w) /\ Rising(b)
    /\ \A x \in Messages(e), y \in Messages(w) \cup Messages(b) : x < y
    /\ \A x \in Messages(w), y \in Messages(b) : x < y

\* The three parts of a rail rise together when each does and each is behind the last.
LEMMA RailParts ==
    ASSUME NEW e \in Seq(Nat), NEW w \in Seq(Nat), NEW b \in Seq(Nat)
    PROVE  /\ e \o w \o b \in Seq(Nat)
           /\ Messages(e \o w \o b) = Messages(e) \cup Messages(w) \cup Messages(b)
           /\ Rising(e \o w \o b) <=> Orderly(e, w, b)
<1>1. /\ e \o w \in Seq(Nat) /\ Messages(e \o w) = Messages(e) \cup Messages(w)
      /\ Rising(e \o w) <=> /\ Rising(e) /\ Rising(w)
                            /\ \A x \in Messages(e), y \in Messages(w) : x < y
  BY ConcatProperties, MessagesOfBoth, RisingParts
<1> DEFINE c == e \o w
<1> HIDE DEF c
<1>2. c \in Seq(Nat)
  BY <1>1 DEF c
<1>3. /\ c \o b \in Seq(Nat) /\ Messages(c \o b) = Messages(c) \cup Messages(b)
      /\ Rising(c \o b) <=> /\ Rising(c) /\ Rising(b)
                            /\ \A x \in Messages(c), y \in Messages(b) : x < y
  BY <1>2, ConcatProperties, MessagesOfBoth, RisingParts
<1> QED BY <1>1, <1>3 DEF c, Orderly

\* One entry more at the end.
LEMMA OneMore ==
    ASSUME NEW s \in Seq(Nat), NEW x \in Nat
    PROVE  /\ s \o <<x>> \in Seq(Nat)
           /\ Messages(s \o <<x>>) = Messages(s) \cup ({x} \ {0})
           /\ Rising(s \o <<x>>) <=> Rising(s) /\ (x = 0 \/ \A y \in Messages(s) : y < x)
<1>1. <<x>> \in Seq(Nat) /\ Len(<<x>>) = 1 /\ <<x>>[1] = x
  OBVIOUS
<1> DEFINE t == <<x>>
<1> HIDE DEF t
<1>2. t \in Seq(Nat) /\ Len(t) = 1 /\ t[1] = x
  BY <1>1 DEF t
<1>3. Messages(t) = {x} \ {0}
  <2>1. {t[i] : i \in 1..Len(t)} = {x}
    BY <1>2
  <2> QED BY <2>1 DEF Messages
<1>4. Rising(t)
  BY <1>2 DEF Rising
<1>5. /\ s \o t \in Seq(Nat) /\ Messages(s \o t) = Messages(s) \cup Messages(t)
      /\ Rising(s \o t) <=> /\ Rising(s) /\ Rising(t)
                            /\ \A y \in Messages(s), z \in Messages(t) : y < z
  BY <1>2, ConcatProperties, MessagesOfBoth, RisingParts
<1> QED BY <1>3, <1>4, <1>5 DEF t

\* One entry less at the head.
LEMMA OneLess ==
    ASSUME NEW s \in Seq(Nat), s # << >>
    PROVE  /\ Head(s) \in Nat /\ Tail(s) \in Seq(Nat)
           /\ Messages(s) = Messages(Tail(s)) \cup ({Head(s)} \ {0})
           /\ Rising(s) <=> /\ Rising(Tail(s))
                            /\ \A y \in Messages(Tail(s)) : Head(s) # 0 => Head(s) < y
<1>1. Head(s) \in Nat /\ Tail(s) \in Seq(Nat) /\ Len(s) \in Nat \ {0}
  BY HeadTailProperties, EmptySeq, LenProperties
<1>2. s = <<Head(s)>> \o Tail(s)
  <2>1. SubSeq(s, 1, Len(s)) = <<s[1]>> \o SubSeq(s, 2, Len(s))
    BY <1>1, SubSeqRecursiveFirst
  <2> QED BY <1>1, <2>1, SubSeqFull, TailIsSubSeq
<1> DEFINE h == <<Head(s)>>
<1>3. h \in Seq(Nat) /\ Len(h) = 1 /\ h[1] = Head(s)
  BY <1>1
<1> DEFINE t == Tail(s)
           x == Head(s)
<1> HIDE DEF h, t, x
<1>4. Messages(h) = {x} \ {0} /\ Rising(h)
  <2>1. {h[i] : i \in 1..Len(h)} = {x}
    BY <1>3 DEF x
  <2> QED BY <1>3, <2>1 DEF Messages, Rising
<1>5. /\ Messages(h \o t) = Messages(h) \cup Messages(t)
      /\ Rising(h \o t) <=> /\ Rising(h) /\ Rising(t)
                            /\ \A y \in Messages(h), z \in Messages(t) : y < z
  BY <1>1, <1>3, MessagesOfBoth, RisingParts DEF t
<1> QED BY <1>1, <1>2, <1>4, <1>5 DEF h, t, x

\* The numbers in a queue of packets.
LEMMA NumbersOfPackets ==
    ASSUME NEW s \in Seq(Packet)
    PROVE  /\ NumbersIn(s) \in Seq(Nat) /\ Len(NumbersIn(s)) = Len(s)
           /\ \A i \in 1..Len(s) : NumbersIn(s)[i] = s[i].n
<1>1. Len(s) \in Nat /\ \A i \in 1..Len(s) : s[i].n \in Nat
  <2>1. Len(s) \in Nat /\ \A i \in 1..Len(s) : s[i] \in Packet
    BY LenProperties, ElementOfSeq
  <2> QED BY <2>1 DEF Packet
<1> QED BY <1>1, IsASeq DEF NumbersIn

\* The numbers in two queues, one behind the other.
LEMMA NumbersOfBoth ==
    ASSUME NEW s \in Seq(Packet), NEW t \in Seq(Packet)
    PROVE  NumbersIn(s \o t) = NumbersIn(s) \o NumbersIn(t)
<1>1. /\ s \o t \in Seq(Packet) /\ Len(s \o t) = Len(s) + Len(t)
      /\ \A i \in 1..(Len(s) + Len(t)) :
            (s \o t)[i] = IF i <= Len(s) THEN s[i] ELSE t[i - Len(s)]
  BY ConcatProperties
<1> DEFINE c == s \o t
           ns == NumbersIn(s)
           nt == NumbersIn(t)
           nc == NumbersIn(c)
           d == ns \o nt
<1> HIDE DEF c
<1>2. /\ ns \in Seq(Nat) /\ Len(ns) = Len(s) /\ \A i \in 1..Len(s) : ns[i] = s[i].n
      /\ nt \in Seq(Nat) /\ Len(nt) = Len(t) /\ \A i \in 1..Len(t) : nt[i] = t[i].n
      /\ nc \in Seq(Nat) /\ Len(nc) = Len(c) /\ \A i \in 1..Len(c) : nc[i] = c[i].n
  BY <1>1, NumbersOfPackets DEF c
<1> HIDE DEF ns, nt, nc
<1>3. /\ d \in Seq(Nat) /\ Len(d) = Len(ns) + Len(nt)
      /\ \A i \in 1..(Len(ns) + Len(nt)) :
            d[i] = IF i <= Len(ns) THEN ns[i] ELSE nt[i - Len(ns)]
  <2>1. ns \in Seq(Nat) /\ nt \in Seq(Nat)
    BY <1>2
  <2> QED BY ONLY <2>1, ConcatProperties
<1> HIDE DEF d
<1>4. Len(s) \in Nat /\ Len(t) \in Nat
  BY LenProperties
<1>5. ASSUME NEW i \in 1..Len(nc)
      PROVE  nc[i] = d[i]
  <2>1. CASE i <= Len(s)
    <3>1. i \in 1..(Len(s) + Len(t)) /\ i \in 1..Len(s) /\ i \in 1..Len(c)
      BY <1>1, <1>2, <1>4, <2>1 DEF c
    <3>2. d[i] = ns[i] /\ c[i] = s[i]
      BY <1>1, <1>2, <1>3, <2>1, <3>1 DEF c
    <3> QED BY <1>2, <3>1, <3>2
  <2>2. CASE ~(i <= Len(s))
    <3>1. i - Len(s) \in 1..Len(t) /\ i \in 1..(Len(s) + Len(t))
      BY <1>1, <1>2, <1>4, <2>2 DEF c
    <3>2. d[i] = nt[i - Len(s)] /\ c[i] = t[i - Len(s)]
      BY <1>1, <1>2, <1>3, <2>2, <3>1 DEF c
    <3> QED BY <1>1, <1>2, <3>1, <3>2 DEF c
  <2> QED BY <2>1, <2>2
<1>6. nc = d
  BY <1>1, <1>2, <1>3, <1>5, SeqEqual DEF c
<1> QED BY <1>6 DEF nc, d, ns, nt, c

\* A packet more.
LEMMA NumbersOfMore ==
    ASSUME NEW s \in Seq(Packet), NEW m \in Packet
    PROVE  NumbersIn(Append(s, m)) = NumbersIn(s) \o <<m.n>>
<1>1. <<m>> \in Seq(Packet) /\ NumbersIn(<<m>>) = <<m.n>>
  BY DEF NumbersIn
<1>2. Append(s, m) = s \o <<m>>
  BY AppendIsConcat
<1> QED BY <1>1, <1>2, NumbersOfBoth

\* A packet less.
LEMMA NumbersOfTail ==
    ASSUME NEW s \in Seq(Packet), s # << >>
    PROVE  /\ NumbersIn(s) # << >> /\ Head(NumbersIn(s)) = Head(s).n
           /\ Tail(NumbersIn(s)) = NumbersIn(Tail(s))
           /\ Head(s) \in Packet /\ Tail(s) \in Seq(Packet)
<1>1. /\ Head(s) \in Packet /\ Tail(s) \in Seq(Packet) /\ Len(s) \in Nat \ {0}
      /\ Head(s) = s[1]
      /\ Len(Tail(s)) = Len(s) - 1 /\ \A i \in 1..Len(Tail(s)) : Tail(s)[i] = s[i + 1]
  BY HeadTailProperties, EmptySeq, LenProperties
<1> DEFINE ns == NumbersIn(s)
           nt == NumbersIn(Tail(s))
<1>2. /\ ns \in Seq(Nat) /\ Len(ns) = Len(s) /\ \A i \in 1..Len(s) : ns[i] = s[i].n
      /\ nt \in Seq(Nat) /\ Len(nt) = Len(Tail(s))
      /\ \A i \in 1..Len(Tail(s)) : nt[i] = Tail(s)[i].n
  BY <1>1, NumbersOfPackets
<1> HIDE DEF ns, nt
<1>3. ns # << >> /\ Head(ns) = ns[1]
  BY <1>1, <1>2, EmptySeq
<1>4. /\ Tail(ns) \in Seq(Nat) /\ Len(Tail(ns)) = Len(ns) - 1
      /\ \A i \in 1..Len(Tail(ns)) : Tail(ns)[i] = ns[i + 1]
  BY <1>2, <1>3, HeadTailProperties
<1>5. Tail(ns) = nt
  <2> DEFINE u == Tail(ns)
             t == Tail(s)
  <2>1. u \in Seq(Nat) /\ nt \in Seq(Nat) /\ Len(u) = Len(nt)
    BY <1>1, <1>2, <1>4
  <2>2. ASSUME NEW i \in 1..Len(u) PROVE u[i] = nt[i]
    <3>1. i \in 1..Len(t) /\ i + 1 \in 1..Len(s)
      BY <1>1, <1>2, <2>1
    <3> QED BY <1>1, <1>2, <1>4, <3>1
  <2> HIDE DEF u
  <2>3. u = nt
    BY <2>1, <2>2, SeqEqual
  <2> QED BY <2>3 DEF u
<1> QED BY <1>1, <1>2, <1>3, <1>5 DEF ns, nt
-----------------------------------------------------------------------------
(* What happens to a rail. *)

\* The rail on which e is early, w on the wire and b in the backlog.
RailOf(e, w, b) == e \o w \o b

\* A message is posted where nothing is in the backlog.
LEMMA RailPosts ==
    ASSUME NEW e \in Seq(Nat), NEW w \in Seq(Nat), NEW x \in Nat,
           Rising(RailOf(e, w, << >>)), \A y \in Messages(RailOf(e, w, << >>)) : y < x
    PROVE  /\ Rising(RailOf(e, w \o <<x>>, << >>))
           /\ Messages(RailOf(e, w \o <<x>>, << >>)) =
                 Messages(RailOf(e, w, << >>)) \cup ({x} \ {0})
<1>1. << >> \in Seq(Nat) /\ Messages(<< >>) = {} /\ Rising(<< >>)
  BY DEF Messages, Rising
<1>2. /\ w \o <<x>> \in Seq(Nat) /\ Messages(w \o <<x>>) = Messages(w) \cup ({x} \ {0})
      /\ Rising(w \o <<x>>) <=> Rising(w) /\ (x = 0 \/ \A y \in Messages(w) : y < x)
  BY OneMore
<1> DEFINE v == w \o <<x>>
<1> DEFINE n == << >>
<1> HIDE DEF v, n
<1>5. v \in Seq(Nat) /\ n \in Seq(Nat)
  BY <1>1, <1>2 DEF v, n
<1>6. /\ Messages(e \o w \o n) = Messages(e) \cup Messages(w) \cup Messages(n)
      /\ Rising(e \o w \o n) <=> Orderly(e, w, n)
      /\ Messages(e \o v \o n) = Messages(e) \cup Messages(v) \cup Messages(n)
      /\ Rising(e \o v \o n) <=> Orderly(e, v, n)
  BY <1>5, RailParts
<1>3. /\ Messages(e \o w \o << >>) = Messages(e) \cup Messages(w) \cup Messages(<< >>)
      /\ Rising(e \o w \o << >>) <=> Orderly(e, w, << >>)
      /\ Messages(e \o v \o << >>) = Messages(e) \cup Messages(v) \cup Messages(<< >>)
      /\ Rising(e \o v \o << >>) <=> Orderly(e, v, << >>)
  BY <1>6 DEF n
<1>4. Orderly(e, v, << >>)
  BY <1>1, <1>2, <1>3 DEF Orderly, RailOf, v
<1> QED BY <1>1, <1>2, <1>3, <1>4 DEF RailOf, v

\* A message is put into the backlog.
LEMMA RailWaits ==
    ASSUME NEW e \in Seq(Nat), NEW w \in Seq(Nat), NEW b \in Seq(Nat), NEW x \in Nat,
           Rising(RailOf(e, w, b)), \A y \in Messages(RailOf(e, w, b)) : y < x
    PROVE  /\ Rising(RailOf(e, w, b \o <<x>>))
           /\ Messages(RailOf(e, w, b \o <<x>>)) = Messages(RailOf(e, w, b)) \cup ({x} \ {0})
<1>1. e \o w \in Seq(Nat)
  BY ConcatProperties
<1> DEFINE c == e \o w
<1> HIDE DEF c
<1>2. c \in Seq(Nat) /\ c \o b \in Seq(Nat) /\ <<x>> \in Seq(Nat)
  BY <1>1, ConcatProperties DEF c
<1>3. c \o (b \o <<x>>) = (c \o b) \o <<x>>
  BY <1>2, ConcatAssociative
<1>4. /\ Messages((c \o b) \o <<x>>) = Messages(c \o b) \cup ({x} \ {0})
      /\ Rising((c \o b) \o <<x>>) <=>
            Rising(c \o b) /\ (x = 0 \/ \A y \in Messages(c \o b) : y < x)
  BY <1>2, OneMore
<1> QED BY <1>3, <1>4 DEF RailOf, c

\* A NOOP is sent.
LEMMA RailNoop ==
    ASSUME NEW e \in Seq(Nat), NEW w \in Seq(Nat), NEW b \in Seq(Nat),
           Rising(RailOf(e, w, b))
    PROVE  /\ Rising(RailOf(e, w \o <<0>>, b))
           /\ Messages(RailOf(e, w \o <<0>>, b)) = Messages(RailOf(e, w, b))
<1> DEFINE z == 0
           v == w \o <<z>>
<1>0. z \in Nat /\ z = 0
  OBVIOUS
<1> HIDE DEF z
<1>1. v \in Seq(Nat) /\ Messages(v) = Messages(w) /\ (Rising(v) <=> Rising(w))
  <2>1. /\ w \o <<z>> \in Seq(Nat) /\ Messages(w \o <<z>>) = Messages(w) \cup ({z} \ {0})
        /\ Rising(w \o <<z>>) <=> Rising(w) /\ (z = 0 \/ \A y \in Messages(w) : y < z)
    BY <1>0, OneMore
  <2> HIDE DEF v
  <2>2. v \in Seq(Nat) /\ Messages(v) = Messages(w) \cup ({z} \ {0})
    BY <2>1 DEF v
  <2>3. Rising(v) <=> Rising(w)
    BY <1>0, <2>1 DEF v
  <2> QED BY <1>0, <2>2, <2>3
<1> HIDE DEF v
<1>2. /\ Messages(e \o w \o b) = Messages(e) \cup Messages(w) \cup Messages(b)
      /\ Rising(e \o w \o b) <=> Orderly(e, w, b)
      /\ Messages(e \o v \o b) = Messages(e) \cup Messages(v) \cup Messages(b)
      /\ Rising(e \o v \o b) <=> Orderly(e, v, b)
  BY <1>1, RailParts
<1>3. Orderly(e, v, b)
  BY <1>1, <1>2 DEF Orderly, RailOf, v
<1> QED BY <1>1, <1>2, <1>3 DEF RailOf, v, z

\* The first messages of the backlog are posted: the rail stays as it is.
LEMMA RailReleases ==
    ASSUME NEW e \in Seq(Nat), NEW w \in Seq(Nat), NEW a \in Seq(Nat), NEW b \in Seq(Nat)
    PROVE  RailOf(e, w \o a, b) = RailOf(e, w, a \o b)
<1>1. e \o w \in Seq(Nat)
  BY ConcatProperties
<1>2. e \o (w \o a) = (e \o w) \o a
  BY ConcatAssociative
<1>3. ((e \o w) \o a) \o b = (e \o w) \o (a \o b)
  BY <1>1, ConcatAssociative
<1> QED BY <1>2, <1>3 DEF RailOf

\* The receiver takes the next packet off the wire: it is a NOOP, or the message is
\* handled at once.
LEMMA RailTakes ==
    ASSUME NEW e \in Seq(Nat), NEW w \in Seq(Nat), NEW b \in Seq(Nat), w # << >>,
           Rising(RailOf(e, w, b))
    PROVE  /\ Rising(RailOf(e, Tail(w), b))
           /\ Head(w) = 0 => Messages(RailOf(e, Tail(w), b)) = Messages(RailOf(e, w, b))
           /\ Head(w) # 0 => /\ Head(w) \in Messages(RailOf(e, w, b))
                             /\ Messages(RailOf(e, Tail(w), b)) =
                                   Messages(RailOf(e, w, b)) \ {Head(w)}
<1> DEFINE t == Tail(w)
           x == Head(w)
<1>1. /\ x \in Nat /\ t \in Seq(Nat)
      /\ Messages(w) = Messages(t) \cup ({x} \ {0})
      /\ Rising(w) <=> Rising(t) /\ \A y \in Messages(t) : x # 0 => x < y
  BY OneLess
<1> HIDE DEF t, x
<1>2. /\ Messages(e \o w \o b) = Messages(e) \cup Messages(w) \cup Messages(b)
      /\ Rising(e \o w \o b) <=> Orderly(e, w, b)
      /\ Messages(e \o t \o b) = Messages(e) \cup Messages(t) \cup Messages(b)
      /\ Rising(e \o t \o b) <=> Orderly(e, t, b)
  BY <1>1, RailParts
<1>3. Orderly(e, w, b)
  BY <1>2 DEF RailOf
<1>4. Orderly(e, t, b)
  BY <1>1, <1>3 DEF Orderly
<1>5. x # 0 => x \notin Messages(e) /\ x \notin Messages(t) /\ x \notin Messages(b)
  <2>1. \A y \in Nat : ~(y < y)
    OBVIOUS
  <2> QED BY <1>1, <1>3, <2>1 DEF Orderly
<1>6. 0 \notin Messages(e) /\ 0 \notin Messages(t) /\ 0 \notin Messages(b)
  BY DEF Messages
<1> QED BY <1>1, <1>2, <1>4, <1>5, <1>6 DEF RailOf, t, x

\* The receiver takes a message off the wire and keeps it, since it is early.
LEMMA RailQueues ==
    ASSUME NEW e \in Seq(Nat), NEW w \in Seq(Nat), NEW b \in Seq(Nat), w # << >>
    PROVE  RailOf(e \o <<Head(w)>>, Tail(w), b) = RailOf(e, w, b)
<1> DEFINE t == Tail(w)
           h == <<Head(w)>>
<1>1. Head(w) \in Nat /\ Len(w) \in Nat \ {0} /\ t \in Seq(Nat) /\ h \in Seq(Nat)
  BY HeadTailProperties, EmptySeq, LenProperties
<1>2. w = h \o t
  <2>1. SubSeq(w, 1, Len(w)) = <<w[1]>> \o SubSeq(w, 2, Len(w))
    BY <1>1, SubSeqRecursiveFirst
  <2> QED BY <1>1, <2>1, SubSeqFull, TailIsSubSeq
<1> HIDE DEF t, h
<1>3. (e \o h) \o t = e \o (h \o t)
  <2>1. h \in Seq(Nat) /\ t \in Seq(Nat) /\ e \in Seq(Nat)
    BY <1>1
  <2> QED BY ONLY <2>1, ConcatAssociative, SMTT(20)
<1> QED BY <1>2, <1>3 DEF RailOf, t, h

\* The turn of the first early message has come.
LEMMA RailHandles ==
    ASSUME NEW e \in Seq(Nat), NEW w \in Seq(Nat), NEW b \in Seq(Nat), e # << >>,
           Head(e) # 0, Rising(RailOf(e, w, b))
    PROVE  /\ Rising(RailOf(Tail(e), w, b))
           /\ Head(e) \in Messages(RailOf(e, w, b))
           /\ Messages(RailOf(Tail(e), w, b)) = Messages(RailOf(e, w, b)) \ {Head(e)}
<1> DEFINE t == Tail(e)
           x == Head(e)
<1>1. /\ x \in Nat /\ t \in Seq(Nat)
      /\ Messages(e) = Messages(t) \cup ({x} \ {0})
      /\ Rising(e) <=> Rising(t) /\ \A y \in Messages(t) : x # 0 => x < y
  BY OneLess
<1> HIDE DEF t, x
<1>2. /\ Messages(e \o w \o b) = Messages(e) \cup Messages(w) \cup Messages(b)
      /\ Rising(e \o w \o b) <=> Orderly(e, w, b)
      /\ Messages(t \o w \o b) = Messages(t) \cup Messages(w) \cup Messages(b)
      /\ Rising(t \o w \o b) <=> Orderly(t, w, b)
  BY <1>1, RailParts
<1>3. Orderly(e, w, b)
  BY <1>2 DEF RailOf
<1>4. Orderly(t, w, b)
  BY <1>1, <1>3 DEF Orderly
<1>5. x # 0 /\ x \notin Messages(w) /\ x \notin Messages(t) /\ x \notin Messages(b)
  <2>1. x # 0
    BY DEF x
  <2>2. \A y \in Nat : ~(y < y)
    OBVIOUS
  <2> QED BY <1>1, <1>3, <2>1, <2>2 DEF Orderly
<1> QED BY <1>1, <1>2, <1>4, <1>5 DEF RailOf, t, x
-----------------------------------------------------------------------------
(* All rails of one direction. *)

\* The rails S carry each message from lo + 1 to hi, none of them twice, in order.
FlowOK(S, lo, hi) ==
    /\ \A r \in Rails : Rising(S[r]) /\ Messages(S[r]) \subseteq (lo + 1)..hi
    /\ \A r, s \in Rails : r # s => Messages(S[r]) \cap Messages(S[s]) = {}
    /\ \A n \in (lo + 1)..hi : \E r \in Rails : n \in Messages(S[r])

\* T is S but for rail r.
OtherRails(S, T, r) == \A s \in Rails \ {r} : T[s] = S[s]

\* The next message is sent on rail r.
LEMMA FlowGrows ==
    ASSUME NEW S, NEW T, NEW lo \in Nat, NEW hi \in Nat, NEW r \in Rails,
           FlowOK(S, lo, hi), OtherRails(S, T, r), lo <= hi,
           Rising(T[r]), Messages(T[r]) = Messages(S[r]) \cup {hi + 1}
    PROVE  FlowOK(T, lo, hi + 1)
<1>1. /\ \A n \in (lo + 1)..hi : n \in (lo + 1)..(hi + 1) /\ n # hi + 1
      /\ hi + 1 \in (lo + 1)..(hi + 1)
      /\ \A n \in (lo + 1)..(hi + 1) : n \in (lo + 1)..hi \/ n = hi + 1
  OBVIOUS
<1>2. ASSUME NEW s \in Rails
      PROVE  Rising(T[s]) /\ Messages(T[s]) \subseteq (lo + 1)..(hi + 1)
  BY <1>1 DEF FlowOK, OtherRails
<1>3. ASSUME NEW s \in Rails, NEW u \in Rails, s # u
      PROVE  Messages(T[s]) \cap Messages(T[u]) = {}
  BY <1>1, <1>3 DEF FlowOK, OtherRails
<1>4. ASSUME NEW n \in (lo + 1)..(hi + 1)
      PROVE  \E s \in Rails : n \in Messages(T[s])
  <2>1. CASE n = hi + 1
    BY <2>1
  <2>2. CASE n \in (lo + 1)..hi
    BY <2>2 DEF FlowOK, OtherRails
  <2> QED BY <1>1, <2>1, <2>2
<1> QED BY <1>2, <1>3, <1>4 DEF FlowOK

\* The messages stay the same.
LEMMA FlowStays ==
    ASSUME NEW S, NEW T, NEW lo \in Nat, NEW hi \in Nat, NEW r \in Rails,
           FlowOK(S, lo, hi), OtherRails(S, T, r),
           Rising(T[r]), Messages(T[r]) = Messages(S[r])
    PROVE  FlowOK(T, lo, hi)
<1>1. \A s \in Rails : Messages(T[s]) = Messages(S[s]) /\ Rising(T[s])
  BY DEF FlowOK, OtherRails
<1> QED BY <1>1 DEF FlowOK

\* The first message is handled.
LEMMA FlowShrinks ==
    ASSUME NEW S, NEW T, NEW lo \in Nat, NEW hi \in Nat, NEW r \in Rails,
           FlowOK(S, lo, hi), OtherRails(S, T, r), lo + 1 \in Messages(S[r]),
           Rising(T[r]), Messages(T[r]) = Messages(S[r]) \ {lo + 1}
    PROVE  FlowOK(T, lo + 1, hi) /\ lo + 1 <= hi
<1>1. \A n \in (lo + 1)..hi : n = lo + 1 \/ n \in (lo + 1 + 1)..hi
  OBVIOUS
<1>2. \A n \in (lo + 1 + 1)..hi : n \in (lo + 1)..hi /\ n # lo + 1
  OBVIOUS
<1>3. ASSUME NEW s \in Rails
      PROVE  Rising(T[s]) /\ Messages(T[s]) = Messages(S[s]) \ {lo + 1}
  <2>1. CASE s = r
    BY <2>1
  <2>2. CASE s # r
    <3>1. T[s] = S[s] /\ Rising(S[s]) /\ Messages(S[s]) \cap Messages(S[r]) = {}
      BY <2>2 DEF FlowOK, OtherRails
    <3> QED BY <3>1
  <2> QED BY <2>1, <2>2
<1>4. ASSUME NEW s \in Rails
      PROVE  Messages(T[s]) \subseteq (lo + 1 + 1)..hi
  <2>1. Messages(S[s]) \subseteq (lo + 1)..hi
    BY DEF FlowOK
  <2>2. ASSUME NEW n \in Messages(T[s]) PROVE n \in (lo + 1 + 1)..hi
    BY <1>1, <1>3, <2>1, <2>2
  <2> QED BY <2>2
<1>5. ASSUME NEW s \in Rails, NEW u \in Rails, s # u
      PROVE  Messages(T[s]) \cap Messages(T[u]) = {}
  BY <1>3, <1>5 DEF FlowOK
<1>6. ASSUME NEW n \in (lo + 1 + 1)..hi
      PROVE  \E s \in Rails : n \in Messages(T[s])
  BY <1>2, <1>3 DEF FlowOK
<1>7. lo + 1 <= hi
  <2>1. lo + 1 \in (lo + 1)..hi
    BY DEF FlowOK
  <2> QED BY <2>1
<1> QED BY <1>3, <1>4, <1>5, <1>6, <1>7 DEF FlowOK
-----------------------------------------------------------------------------
(* The invariant of the order. *)

\* The rails of p in one table.
SentBy(p) == [r \in Rails |-> Sent(p, r)]

\* What p has sent and its peer not handled is on p's rails, in order.
OrderInv ==
    \A p \in Ends : /\ FlowOK(SentBy(p), received[Peer(p)], issued[p])
                    /\ received[Peer(p)] <= issued[p]

\* The queues that make up a rail.
LEMMA RailQueueTypes ==
    ASSUME Shape, NEW p \in Ends, NEW r \in Rails
    PROVE  /\ early[p][r] \in Seq(Packet) /\ wire[p][r] \in Seq(Packet)
           /\ backlog[p][r] \in Seq(Nat)
           /\ NumbersIn(early[p][r]) \in Seq(Nat) /\ NumbersIn(wire[p][r]) \in Seq(Nat)
           /\ issued[p] \in Nat /\ received[p] \in Nat
<1>1. /\ early[p][r] \in Seq(Packet) /\ wire[p][r] \in Seq(Packet)
      /\ backlog[p][r] \in Seq(Nat) /\ issued[p] \in Nat /\ received[p] \in Nat
  BY DEF Shape, QueuesShape, NumbersShape, PerRail
<1> QED BY <1>1, NumbersOfPackets

\* A rail is made of its queues.
LEMMA SentIs ==
    \A p \in Ends, r \in Rails : SentBy(p)[r] =
        RailOf(NumbersIn(early[Peer(p)][r]), NumbersIn(wire[p][r]), backlog[p][r])
BY DEF SentBy, Sent, RailOf

\* So it is in the next state.
LEMMA SentNext ==
    \A p \in Ends, r \in Rails : SentBy(p)'[r] =
        RailOf(NumbersIn(early'[Peer(p)][r]), NumbersIn(wire'[p][r]), backlog'[p][r])
BY DEF SentBy, Sent, RailOf

\* What a step leaves alone of p's rails.
LEMMA SameRails ==
    ASSUME NEW p \in Ends, NEW R \in SUBSET Rails,
           \A s \in R : /\ early'[Peer(p)][s] = early[Peer(p)][s]
                        /\ wire'[p][s] = wire[p][s] /\ backlog'[p][s] = backlog[p][s]
    PROVE  \A s \in R : SentBy(p)'[s] = SentBy(p)[s]
BY SentIs, SentNext

\* A connection has two ends.
LEMMA TwoEnds ==
    \A p \in Ends : /\ Peer(p) \in Ends /\ Peer(p) # p /\ Peer(Peer(p)) = p
                    /\ Ends = {p, Peer(p)}
BY DEF Ends, Peer

\* At first nothing is sent.
LEMMA OrderAtFirst == Init => OrderInv
<1> SUFFICES ASSUME Init, NEW p \in Ends
             PROVE  FlowOK(SentBy(p), received[Peer(p)], issued[p])
                    /\ received[Peer(p)] <= issued[p]
  BY DEF OrderInv
<1>1. received[Peer(p)] = 0 /\ issued[p] = 0
  BY TwoEnds DEF Init
<1>2. ASSUME NEW r \in Rails
      PROVE  Messages(SentBy(p)[r]) = {} /\ Rising(SentBy(p)[r])
  <2>1. early[Peer(p)][r] = << >> /\ wire[p][r] = << >> /\ backlog[p][r] = << >>
    BY TwoEnds DEF Init, OnAll
  <2>2. NumbersIn(<< >>) = << >>
    BY DEF NumbersIn
  <2>3. << >> \o << >> \o << >> = << >>
    OBVIOUS
  <2>4. SentBy(p)[r] = << >>
    BY <2>1, <2>2, <2>3, SentIs DEF RailOf
  <2> QED BY <2>4 DEF Messages, Rising
<1> QED BY <1>1, <1>2 DEF FlowOK

\* What p has sent is not affected by a step that leaves its rails alone.
LEMMA FlowUntouched ==
    ASSUME NEW p \in Ends, NEW lo \in Nat, NEW hi \in Nat, FlowOK(SentBy(p), lo, hi),
           \A s \in Rails : /\ early'[Peer(p)][s] = early[Peer(p)][s]
                            /\ wire'[p][s] = wire[p][s] /\ backlog'[p][s] = backlog[p][s]
    PROVE  FlowOK(SentBy(p)', lo, hi)
<1>1. \A s \in Rails : SentBy(p)'[s] = SentBy(p)[s]
  BY SameRails
<1> QED BY <1>1 DEF FlowOK

\* post_send puts the next message at the end of its rail, on the wire or into the
\* backlog.
LEMMA PostSendOrder ==
    ASSUME IInv, OrderInv, NEW p \in Ends, NEW r \in Rails, post_send(p, r)
    PROVE  OrderInv'
<1> DEFINE q == Peer(p)
           n == issued[p] + 1
           h == Header(n, localCredit[p][r], remoteCredit[p][r])
           e == NumbersIn(early[q][r])
           w == NumbersIn(wire[p][r])
           b == backlog[p][r]
           lo == received[q]
           S == SentBy(p)
           T == SentBy(p)'
<1>0. q \in Ends /\ q # p /\ Peer(q) = p /\ Ends = {p, q}
  BY TwoEnds
<1>1. /\ Shape /\ BacklogWaitsForCredit /\ QueuesShape /\ CountersShape /\ NumbersShape
  BY DEF IInv, Shape
<1>2. /\ wire[p][r] \in Seq(Packet) /\ e \in Seq(Nat) /\ w \in Seq(Nat) /\ b \in Seq(Nat)
      /\ issued[p] \in Nat /\ lo \in Nat /\ n \in Nat /\ n # 0
  BY <1>0, <1>1, RailQueueTypes
<1>3. FlowOK(S, lo, issued[p]) /\ lo <= issued[p]
  BY DEF OrderInv
<1>4. S[r] = RailOf(e, w, b)
  BY SentIs
<1>5. Rising(RailOf(e, w, b)) /\ \A y \in Messages(RailOf(e, w, b)) : y < n
  <2>1. Rising(S[r]) /\ Messages(S[r]) \subseteq (lo + 1)..issued[p]
    BY <1>3 DEF FlowOK
  <2> HIDE DEF lo, S
  <2>2. \A y \in (lo + 1)..issued[p] : y < n
    BY <1>2
  <2> QED BY <1>4, <2>1, <2>2
<1>6. /\ issued' = [issued EXCEPT ![p] = n] /\ UNCHANGED <<received, early>>
  BY DEF post_send
<1>7. issued'[p] = n /\ issued'[q] = issued[q] /\ received'[q] = lo /\ received'[p] = received[p]
  BY <1>0, <1>1, <1>6 DEF NumbersShape
<1>8. h \in Packet /\ h.n = n
  <2>1. localCredit[p][r] \in Nat /\ remoteCredit[p][r] \in Nat
    BY <1>1 DEF CountersShape, PerRail
  <2> QED BY <1>2, <2>1 DEF Header, Packet
<1> HIDE DEF h, n, e, w, b, q
<1>9. Rising(T[r]) /\ Messages(T[r]) = Messages(S[r]) \cup {n}
  <2>1. CASE MayPost(p, r)
    <3>1. wire' = [wire EXCEPT ![p][r] = Append(@, h)] /\ backlog' = backlog
      BY <2>1 DEF post_send, h, n
    <3>2. wire'[p][r] = Append(wire[p][r], h)
      BY <1>1, <3>1 DEF QueuesShape, PerRail
    <3>3. NumbersIn(wire'[p][r]) = w \o <<n>>
      BY <1>2, <1>8, <3>2, NumbersOfMore DEF w
    <3>4. b = << >>
      BY <1>1, <2>1 DEF BacklogWaitsForCredit, MayPost, CountersShape, PerRail, b
    <3>5. T[r] = RailOf(e, w \o <<n>>, << >>)
      BY <1>6, <3>1, <3>3, <3>4, SentNext DEF e, q, b
    <3>6. /\ Rising(RailOf(e, w \o <<n>>, << >>))
          /\ Messages(RailOf(e, w \o <<n>>, << >>)) =
                Messages(RailOf(e, w, << >>)) \cup ({n} \ {0})
      BY <1>2, <1>5, <3>4, RailPosts
    <3> QED BY <1>2, <1>4, <3>4, <3>5, <3>6
  <2>2. CASE ~MayPost(p, r)
    <3>1. backlog' = [backlog EXCEPT ![p][r] = Append(@, n)] /\ wire' = wire
      BY <2>2 DEF post_send, n
    <3>2. backlog'[p][r] = Append(backlog[p][r], n)
      BY <1>1, <3>1 DEF QueuesShape, PerRail
    <3>3. backlog'[p][r] = b \o <<n>>
      BY <1>2, <3>2, AppendIsConcat DEF b
    <3>4. T[r] = RailOf(e, w, b \o <<n>>)
      BY <1>6, <3>1, <3>3, SentNext DEF e, q, w
    <3>5. /\ Rising(RailOf(e, w, b \o <<n>>))
          /\ Messages(RailOf(e, w, b \o <<n>>)) = Messages(RailOf(e, w, b)) \cup ({n} \ {0})
      BY <1>2, <1>5, RailWaits
    <3> QED BY <1>2, <1>4, <3>4, <3>5
  <2> QED BY <2>1, <2>2
<1>10. \A a \in Ends, s \in Rails :
          ~(a = p /\ s = r) => wire'[a][s] = wire[a][s] /\ backlog'[a][s] = backlog[a][s]
  BY <1>1 DEF post_send, QueuesShape, PerRail
<1>11. OtherRails(S, T, r)
  <2>1. \A s \in Rails \ {r} : T[s] = S[s]
    BY <1>6, <1>10, SameRails
  <2> QED BY <2>1 DEF OtherRails
<1>12. FlowOK(T, lo, n) /\ lo <= n
  <2> HIDE DEF S, T, lo
  <2>1. Messages(T[r]) = Messages(S[r]) \cup {issued[p] + 1}
    BY <1>9 DEF n
  <2>2. FlowOK(T, lo, issued[p] + 1)
    BY <1>2, <1>3, <1>9, <1>11, <2>1, FlowGrows
  <2> QED BY <1>2, <1>3, <2>2 DEF n
<1>13. FlowOK(SentBy(q)', received[p], issued[q]) /\ received[p] <= issued[q]
  <2>1. FlowOK(SentBy(q), received[p], issued[q]) /\ received[p] <= issued[q]
    BY <1>0 DEF OrderInv
  <2>2. received[p] \in Nat /\ issued[q] \in Nat
    BY <1>0, <1>1 DEF NumbersShape
  <2>3. \A s \in Rails : /\ early'[Peer(q)][s] = early[Peer(q)][s]
                         /\ wire'[q][s] = wire[q][s] /\ backlog'[q][s] = backlog[q][s]
    BY <1>0, <1>6, <1>10
  <2> QED BY <1>0, <2>1, <2>2, <2>3, FlowUntouched
<1> QED BY <1>0, <1>7, <1>12, <1>13 DEF OrderInv, q

\* Parse_header moves messages from the backlog to the wire in their order.
LEMMA ParseHeaderOrder ==
    ASSUME Shape, NEW p \in Ends, NEW r \in Rails, NEW m \in Packet, NEW lc \in Nat,
           NEW w \in PerRail(Seq(Packet)), Parse_header(p, r, m, lc, w)
    PROVE  /\ \A e \in Ends, s \in Rails : ~(e = p /\ s = r) =>
                 wire'[e][s] = w[e][s] /\ backlog'[e][s] = backlog[e][s]
           /\ \A e \in Seq(Nat) : RailOf(e, NumbersIn(wire'[p][r]), backlog'[p][r])
                                    = RailOf(e, NumbersIn(w[p][r]), backlog[p][r])
<1> DEFINE rc == remoteCredit[p][r] + m.vbufCredit
           k  == Released(p, r, rc)
           b  == backlog[p][r]
           posted == [i \in 1..k |-> Header(b[i], IF i = 1 THEN lc ELSE 0, rc - i + 1)]
           a  == SubSeq(b, 1, k)
           c  == SubSeq(b, k + 1, Len(b))
<1>1. /\ backlog \in PerRail(Seq(Nat)) /\ b \in Seq(Nat) /\ w[p][r] \in Seq(Packet)
      /\ Len(b) \in Nat /\ \A i \in 1..Len(b) : b[i] \in Nat
  <2>1. backlog \in PerRail(Seq(Nat)) /\ b \in Seq(Nat) /\ w[p][r] \in Seq(Packet)
    BY DEF Shape, QueuesShape, PerRail
  <2> HIDE DEF b
  <2> QED BY <2>1, LenProperties, ElementOfSeq
<1>2. rc \in Nat
  BY DEF Shape, CountersShape, PerRail, Packet
<1>3. k \in Nat /\ k <= rc /\ k <= Len(b)
  <2> HIDE DEF rc
  <2> QED BY <1>2, ReleasedBounds
<1>4. /\ backlog' = [backlog EXCEPT ![p][r] = c]
      /\ wire' = [w EXCEPT ![p][r] = w[p][r] \o posted]
  <2>1. /\ backlog' = [backlog EXCEPT ![p][r] = SubSeq(@, k + 1, Len(@))]
        /\ wire' = [w EXCEPT ![p][r] = @ \o posted]
    BY DEF Parse_header
  <2> QED BY <1>1, <2>1 DEF PerRail
<1> HIDE DEF rc, k
<1>5. /\ posted \in Seq(Packet) /\ Len(posted) = k /\ \A i \in 1..k : posted[i].n = b[i]
  <2>1. ASSUME NEW i \in 1..k
        PROVE  Header(b[i], IF i = 1 THEN lc ELSE 0, rc - i + 1) \in Packet
    <3>1. b[i] \in Nat /\ rc - i + 1 \in Nat
      BY <1>1, <1>2, <1>3
    <3>2. (IF i = 1 THEN lc ELSE 0) \in Nat
      OBVIOUS
    <3> QED BY <3>1, <3>2, HeaderIsPacket
  <2>2. posted \in Seq(Packet)
    BY <1>3, <2>1, IsASeq
  <2>3. Len(posted) = k
    BY <1>3
  <2> QED BY <2>2, <2>3 DEF Header
<1> HIDE DEF posted
<1>6. a \in Seq(Nat) /\ Len(a) = k /\ \A i \in 1..k : a[i] = b[i]
  BY <1>1, <1>3
<1>7. c \in Seq(Nat) /\ a \o c = b
  <2>1. /\ 1 \in 1..(Len(b) + 1) /\ k \in (1 - 1)..Len(b) /\ Len(b) \in k..Len(b)
    BY <1>1, <1>3
  <2>2. a \o c = SubSeq(b, 1, Len(b))
    BY <1>1, <2>1, ConcatAdjacentSubSeq
  <2>3. c \in Seq(Nat)
    BY <1>1, <1>3, RestOfQueue
  <2> QED BY <1>1, <2>2, <2>3, SubSeqFull
<1> HIDE DEF a, c, b
<1>8. NumbersIn(posted) = a
  <2>1. /\ NumbersIn(posted) \in Seq(Nat) /\ Len(NumbersIn(posted)) = k
        /\ \A i \in 1..k : NumbersIn(posted)[i] = a[i]
    BY <1>5, <1>6, NumbersOfPackets
  <2> DEFINE x == NumbersIn(posted)
  <2> HIDE DEF x
  <2>2. x \in Seq(Nat) /\ Len(x) = Len(a) /\ \A i \in 1..Len(x) : x[i] = a[i]
    BY <1>6, <2>1 DEF x
  <2>3. x = a
    BY <1>6, <2>2, SeqEqual
  <2> QED BY <2>3 DEF x
<1>9. wire'[p][r] = w[p][r] \o posted /\ backlog'[p][r] = c
  BY <1>1, <1>4 DEF PerRail
<1>10. NumbersIn(wire'[p][r]) = NumbersIn(w[p][r]) \o a
  BY <1>1, <1>5, <1>8, <1>9, NumbersOfBoth
<1>11. ASSUME NEW e \in Seq(Nat)
       PROVE  RailOf(e, NumbersIn(wire'[p][r]), backlog'[p][r])
                 = RailOf(e, NumbersIn(w[p][r]), backlog[p][r])
  <2>1. NumbersIn(w[p][r]) \in Seq(Nat)
    BY <1>1, NumbersOfPackets
  <2> DEFINE x == NumbersIn(w[p][r])
  <2> HIDE DEF x
  <2>2. x \in Seq(Nat)
    BY <2>1 DEF x
  <2>3. RailOf(e, x \o a, c) = RailOf(e, x, a \o c)
    BY <1>6, <1>7, <2>2, RailReleases
  <2> QED BY <1>7, <1>9, <1>10, <2>3 DEF b, x
<1>12. \A e \in Ends, s \in Rails : ~(e = p /\ s = r) =>
          wire'[e][s] = w[e][s] /\ backlog'[e][s] = backlog[e][s]
  BY <1>1, <1>4 DEF PerRail
<1> QED BY <1>11, <1>12

\* Cq_poll takes the next packet off its rail: one whose turn it is is handled, an
\* early one kept behind those that came before.  What p itself sends keeps its order,
\* with a NOOP among it or with messages of the backlog posted.
LEMMA CqPollOrder ==
    ASSUME IInv, OrderInv, NEW p \in Ends, NEW r \in Rails, Cq_poll(p, r)
    PROVE  OrderInv'
<1> DEFINE q == Peer(p)
           m == Head(wire[q][r])
           left == preposts[p][r] - 1
           posted == IF IsNoop(m) THEN left + 1 ELSE Reposted(left)
           lc == localCredit[p][r] + Gained(m, posted - left)
           taken == [wire EXCEPT ![q][r] = Tail(@)]
           tell == NoopNeeded(p, r, lc)
           rest == IF tell THEN 0 ELSE lc
           h == Header(0, lc, remoteCredit[p][r])
           told == [taken EXCEPT ![p][r] = Append(@, h)]
           v == IF tell THEN told ELSE taken
           e == NumbersIn(early[q][r])
           w == NumbersIn(wire[p][r])
           b == backlog[p][r]
<1>0. q \in Ends /\ q # p /\ Peer(q) = p /\ Ends = {p, q}
  BY TwoEnds
<1>1. Shape /\ QueuesShape /\ CountersShape /\ NumbersShape /\ ReceiveQueueFits
  BY DEF IInv, Shape
<1>2. /\ wire[q][r] # << >> /\ preposts[p][r] > 0
      /\ issued' = issued
      /\ \/ IsNoop(m) /\ Parse_header(p, r, m, rest, v) /\ UNCHANGED <<received, early>>
         \/ /\ m.n = received[p] + 1 /\ Parse_header(p, r, m, rest, v)
            /\ received' = [received EXCEPT ![p] = m.n] /\ UNCHANGED early
         \/ /\ ~IsNoop(m) /\ m.n # received[p] + 1 /\ Queue(p, r, m, rest, v)
  BY DEF Cq_poll, Handle
<1>3. /\ wire[q][r] \in Seq(Packet) /\ wire[p][r] \in Seq(Packet)
      /\ preposts[p][r] \in Nat /\ preposts[p][r] <= RqSize
      /\ localCredit[p][r] \in Nat /\ remoteCredit[p][r] \in Nat
      /\ backlog \in PerRail(Seq(Nat)) /\ early \in PerRail(Seq(Packet))
      /\ wire \in PerRail(Seq(Packet))
  BY <1>0, <1>1 DEF CountersShape, QueuesShape, PerRail, ReceiveQueueFits
<1>4. m \in Packet /\ Tail(wire[q][r]) \in Seq(Packet)
  BY <1>2, <1>3, HeadTailProperties
<1> HIDE DEF q, m
<1>5. rest \in Nat /\ h \in Packet /\ h.n = 0
  <2>1. left \in Nat /\ left <= RqSize /\ left + 1 \in Nat
    <3>1. \A k \in Nat : k > 0 /\ k <= RqSize =>
             k - 1 \in Nat /\ k - 1 <= RqSize /\ (k - 1) + 1 \in Nat
      BY DepthsFit
    <3> QED BY <1>2, <1>3, <3>1
  <2> HIDE DEF left
  <2>2. Reposted(left) \in Nat /\ Reposted(left) >= left
    BY <2>1, RepostedFits
  <2>3. posted - left \in Nat
    BY <2>1, <2>2
  <2> HIDE DEF posted
  <2>4. lc \in Nat
    BY <1>3, <2>3 DEF Gained
  <2> HIDE DEF lc
  <2> QED BY <1>3, <2>4, HeaderIsPacket DEF Header
<1> HIDE DEF rest, h, tell
<1>6. /\ taken \in PerRail(Seq(Packet))
      /\ \A a \in Ends, s \in Rails :
            taken[a][s] = IF a = q /\ s = r THEN Tail(wire[q][r]) ELSE wire[a][s]
  BY <1>0, <1>3, <1>4 DEF PerRail
<1> HIDE DEF taken
<1>7. /\ told \in PerRail(Seq(Packet))
      /\ \A a \in Ends, s \in Rails :
            told[a][s] = IF a = p /\ s = r THEN Append(taken[p][r], h) ELSE taken[a][s]
  <2> DEFINE x == Append(taken[p][r], h)
  <2>1. x \in Seq(Packet)
    <3>1. taken[p][r] \in Seq(Packet)
      BY <1>6 DEF PerRail
    <3> QED BY <1>5, <3>1, AppendProperties
  <2>2. told = [taken EXCEPT ![p][r] = x]
    OBVIOUS
  <2> HIDE DEF x, told
  <2>3. /\ told \in PerRail(Seq(Packet))
        /\ \A a \in Ends, s \in Rails : told[a][s] = IF a = p /\ s = r THEN x ELSE taken[a][s]
    BY <1>6, <2>1, <2>2 DEF PerRail
  <2> QED BY <2>3 DEF x
<1> HIDE DEF told
<1>8. /\ v \in PerRail(Seq(Packet)) /\ v[q][r] = Tail(wire[q][r])
      /\ v[p][r] = wire[p][r] \/ v[p][r] = Append(wire[p][r], h)
      /\ \A a \in Ends, s \in Rails : s # r => v[a][s] = wire[a][s]
  <2>1. CASE tell
    <3>1. v = told
      BY <2>1
    <3> HIDE DEF v
    <3>2. told[q][r] = taken[q][r] /\ told[p][r] = Append(taken[p][r], h)
      BY <1>0, <1>7
    <3>3. taken[q][r] = Tail(wire[q][r]) /\ taken[p][r] = wire[p][r]
      BY <1>0, <1>6
    <3>4. \A a \in Ends, s \in Rails : s # r => told[a][s] = wire[a][s]
      BY <1>6, <1>7
    <3> QED BY <1>7, <3>1, <3>2, <3>3, <3>4
  <2>2. CASE ~tell
    <3>1. v = taken
      BY <2>2
    <3> HIDE DEF v
    <3> QED BY <1>0, <1>6, <3>1
  <2> QED BY <2>1, <2>2
<1> HIDE DEF v
<1>9. /\ \A a \in Ends, s \in Rails : ~(a = p /\ s = r) =>
            wire'[a][s] = v[a][s] /\ backlog'[a][s] = backlog[a][s]
      /\ \A x \in Seq(Nat) : RailOf(x, NumbersIn(wire'[p][r]), backlog'[p][r])
                               = RailOf(x, NumbersIn(v[p][r]), backlog[p][r])
  <2>1. CASE Parse_header(p, r, m, rest, v)
    BY <1>1, <1>4, <1>5, <1>8, <2>1, ParseHeaderOrder
  <2>2. CASE Queue(p, r, m, rest, v)
    BY <2>2 DEF Queue
  <2> QED BY <1>2, <2>1, <2>2
<1>10. /\ early'[q] = early[q]
       /\ \A s \in Rails : s # r => early'[p][s] = early[p][s]
       /\ received'[q] = received[q]
  BY <1>0, <1>1, <1>2, <1>3 DEF Queue, NumbersShape, PerRail
<1>11. /\ e \in Seq(Nat) /\ w \in Seq(Nat) /\ b \in Seq(Nat)
       /\ NumbersIn(early[p][r]) \in Seq(Nat) /\ early[p][r] \in Seq(Packet)
       /\ NumbersIn(wire[q][r]) \in Seq(Nat) /\ backlog[q][r] \in Seq(Nat)
       /\ received[p] \in Nat /\ received[q] \in Nat /\ issued[p] \in Nat /\ issued[q] \in Nat
  BY <1>0, <1>1, RailQueueTypes
<1> HIDE DEF e, w, b
<1>12. FlowOK(SentBy(p)', received[q], issued[p]) /\ received[q] <= issued[p]
  <2>1. FlowOK(SentBy(p), received[q], issued[p]) /\ received[q] <= issued[p]
    BY DEF OrderInv, q
  <2>2. SentBy(p)[r] = RailOf(e, w, b)
    BY SentIs DEF e, w, b, q
  <2>3. SentBy(p)'[r] = RailOf(e, NumbersIn(v[p][r]), b)
    <3>1. SentBy(p)'[r] = RailOf(NumbersIn(early'[q][r]), NumbersIn(wire'[p][r]), backlog'[p][r])
      BY SentNext DEF q
    <3>2. NumbersIn(early'[q][r]) = e
      BY <1>10 DEF e
    <3> QED BY <1>9, <1>11, <3>1, <3>2 DEF b
  <2>4. Rising(RailOf(e, w, b))
    BY <2>1, <2>2 DEF FlowOK
  <2>5. /\ Rising(RailOf(e, NumbersIn(v[p][r]), b))
        /\ Messages(RailOf(e, NumbersIn(v[p][r]), b)) = Messages(RailOf(e, w, b))
    <3>1. CASE v[p][r] = wire[p][r]
      BY <2>4, <3>1 DEF w
    <3>2. CASE v[p][r] = Append(wire[p][r], h)
      <4>1. NumbersIn(v[p][r]) = w \o <<0>>
        BY <1>3, <1>5, <3>2, NumbersOfMore DEF w
      <4> QED BY <1>11, <2>4, <4>1, RailNoop
    <3> QED BY <1>8, <3>1, <3>2
  <2>6. OtherRails(SentBy(p), SentBy(p)', r)
    <3>1. \A s \in Rails \ {r} : /\ early'[q][s] = early[q][s]
                                 /\ wire'[p][s] = wire[p][s] /\ backlog'[p][s] = backlog[p][s]
      BY <1>8, <1>9, <1>10
    <3>2. \A s \in Rails \ {r} : SentBy(p)'[s] = SentBy(p)[s]
      BY <3>1, SameRails DEF q
    <3> QED BY <3>2 DEF OtherRails
  <2>7. Rising(SentBy(p)'[r]) /\ Messages(SentBy(p)'[r]) = Messages(SentBy(p)[r])
    BY <2>2, <2>3, <2>5
  <2>8. FlowOK(SentBy(p)', received[q], issued[p])
    BY <1>11, <2>1, <2>6, <2>7, FlowStays
  <2> QED BY <2>1, <2>8
<1>13. FlowOK(SentBy(q)', received'[p], issued[q]) /\ received'[p] <= issued[q]
  <2> DEFINE e2 == NumbersIn(early[p][r])
             w2 == NumbersIn(wire[q][r])
             b2 == backlog[q][r]
             S == SentBy(q)
             T == SentBy(q)'
  <2>1. FlowOK(S, received[p], issued[q]) /\ received[p] <= issued[q]
    BY <1>0 DEF OrderInv
  <2>2. S[r] = RailOf(e2, w2, b2)
    BY <1>0, SentIs
  <2>3. T[r] = RailOf(NumbersIn(early'[p][r]), Tail(w2), b2)
    <3>1. T[r] = RailOf(NumbersIn(early'[p][r]), NumbersIn(wire'[q][r]), backlog'[q][r])
      BY <1>0, SentNext
    <3>2. wire'[q][r] = Tail(wire[q][r]) /\ backlog'[q][r] = b2
      BY <1>0, <1>8, <1>9
    <3>3. NumbersIn(Tail(wire[q][r])) = Tail(w2)
      BY <1>2, <1>3, NumbersOfTail
    <3> QED BY <3>1, <3>2, <3>3
  <2>4. w2 # << >> /\ Head(w2) = m.n /\ Rising(RailOf(e2, w2, b2))
    BY <1>2, <1>3, <2>1, <2>2, NumbersOfTail DEF FlowOK, m
  <2>5. OtherRails(S, T, r)
    <3>1. \A s \in Rails \ {r} : /\ early'[Peer(q)][s] = early[Peer(q)][s]
                                 /\ wire'[q][s] = wire[q][s] /\ backlog'[q][s] = backlog[q][s]
      BY <1>0, <1>8, <1>9, <1>10
    <3>2. \A s \in Rails \ {r} : T[s] = S[s]
      BY <1>0, <3>1, SameRails
    <3> QED BY <3>2 DEF OtherRails
  <2>6. e2 \in Seq(Nat) /\ w2 \in Seq(Nat) /\ b2 \in Seq(Nat)
    BY <1>11
  <2> HIDE DEF e2, w2, b2, S, T
  <2>7. CASE IsNoop(m) /\ UNCHANGED <<received, early>>
    <3>1. T[r] = RailOf(e2, Tail(w2), b2) /\ Head(w2) = 0
      BY <2>3, <2>4, <2>7 DEF IsNoop, e2
    <3>2. Rising(T[r]) /\ Messages(T[r]) = Messages(S[r])
      BY <2>2, <2>4, <2>6, <3>1, RailTakes
    <3>3. FlowOK(T, received[p], issued[q])
      BY <1>11, <2>1, <2>5, <3>2, FlowStays
    <3> QED BY <2>1, <2>7, <3>3 DEF T
  <2>8. CASE /\ m.n = received[p] + 1 /\ received' = [received EXCEPT ![p] = m.n]
             /\ UNCHANGED early
    <3>1. T[r] = RailOf(e2, Tail(w2), b2) /\ Head(w2) = received[p] + 1
      BY <2>3, <2>4, <2>8 DEF e2
    <3>2. received[p] + 1 # 0
      BY <1>11
    <3>3. /\ Rising(T[r]) /\ received[p] + 1 \in Messages(S[r])
          /\ Messages(T[r]) = Messages(S[r]) \ {received[p] + 1}
      BY <2>2, <2>4, <2>6, <3>1, <3>2, RailTakes
    <3>4. FlowOK(T, received[p] + 1, issued[q]) /\ received[p] + 1 <= issued[q]
      BY <1>11, <2>1, <2>5, <3>3, FlowShrinks
    <3>5. received'[p] = received[p] + 1
      BY <1>1, <2>8 DEF NumbersShape
    <3> QED BY <3>4, <3>5 DEF T
  <2>9. CASE ~IsNoop(m) /\ Queue(p, r, m, rest, v)
    <3>1. early'[p][r] = Append(early[p][r], m) /\ received' = received
      BY <1>3, <2>9 DEF Queue, PerRail
    <3>2. NumbersIn(early'[p][r]) = e2 \o <<Head(w2)>>
      BY <1>4, <1>11, <2>4, <3>1, NumbersOfMore DEF e2
    <3>3. T[r] = S[r]
      BY <2>2, <2>3, <2>4, <2>6, <3>2, RailQueues
    <3>4. Rising(T[r]) /\ Messages(T[r]) = Messages(S[r])
      BY <2>2, <2>4, <3>3
    <3>5. FlowOK(T, received[p], issued[q])
      BY <1>11, <2>1, <2>5, <3>4, FlowStays
    <3> QED BY <2>1, <3>1, <3>5 DEF T
  <2> QED BY <1>2, <2>7, <2>8, <2>9
<1> QED BY <1>0, <1>2, <1>10, <1>12, <1>13 DEF OrderInv, q

\* A message that was early is handled when its turn has come; what p itself sends
\* keeps its order.
LEMMA WaitingMsgOrder ==
    ASSUME IInv, OrderInv, NEW p \in Ends, NEW r \in Rails, Waiting_msg(p, r)
    PROVE  OrderInv'
<1> DEFINE q == Peer(p)
           m == Head(early[p][r])
           e == NumbersIn(early[q][r])
           w == NumbersIn(wire[p][r])
           b == backlog[p][r]
           e2 == NumbersIn(early[p][r])
           w2 == NumbersIn(wire[q][r])
           b2 == backlog[q][r]
           S == SentBy(q)
           T == SentBy(q)'
<1>0. q \in Ends /\ q # p /\ Peer(q) = p /\ Ends = {p, q}
  BY TwoEnds
<1>1. Shape /\ QueuesShape /\ CountersShape /\ NumbersShape
  BY DEF IInv, Shape
<1>2. /\ early[p][r] # << >> /\ m.n = received[p] + 1
      /\ received' = [received EXCEPT ![p] = m.n]
      /\ early' = [early EXCEPT ![p][r] = Tail(@)]
      /\ Parse_header(p, r, m, localCredit[p][r], wire)
      /\ issued' = issued
  BY DEF Waiting_msg, Handle, Ready
<1>3. /\ early[p][r] \in Seq(Packet) /\ wire \in PerRail(Seq(Packet))
      /\ early \in PerRail(Seq(Packet)) /\ localCredit[p][r] \in Nat
  BY <1>1 DEF CountersShape, QueuesShape, PerRail
<1>4. m \in Packet /\ Tail(early[p][r]) \in Seq(Packet)
  BY <1>2, <1>3, HeadTailProperties
<1> HIDE DEF m, q
<1>5. /\ \A a \in Ends, s \in Rails : ~(a = p /\ s = r) =>
            wire'[a][s] = wire[a][s] /\ backlog'[a][s] = backlog[a][s]
      /\ \A x \in Seq(Nat) : RailOf(x, NumbersIn(wire'[p][r]), backlog'[p][r])
                               = RailOf(x, NumbersIn(wire[p][r]), backlog[p][r])
  BY <1>1, <1>2, <1>3, <1>4, ParseHeaderOrder
<1>6. /\ early'[q] = early[q] /\ early'[p][r] = Tail(early[p][r])
      /\ \A s \in Rails : s # r => early'[p][s] = early[p][s]
      /\ received'[q] = received[q] /\ received'[p] = received[p] + 1
  BY <1>0, <1>1, <1>2, <1>3 DEF NumbersShape, PerRail
<1>7. /\ e \in Seq(Nat) /\ w \in Seq(Nat) /\ b \in Seq(Nat)
      /\ e2 \in Seq(Nat) /\ w2 \in Seq(Nat) /\ b2 \in Seq(Nat)
      /\ received[p] \in Nat /\ received[q] \in Nat /\ issued[p] \in Nat /\ issued[q] \in Nat
  BY <1>0, <1>1, RailQueueTypes
<1>8. FlowOK(SentBy(p)', received[q], issued[p]) /\ received[q] <= issued[p]
  <2>1. FlowOK(SentBy(p), received[q], issued[p]) /\ received[q] <= issued[p]
    BY DEF OrderInv, q
  <2> HIDE DEF e, w, b
  <2>2. SentBy(p)[r] = RailOf(e, w, b)
    BY SentIs DEF e, w, b, q
  <2>3. SentBy(p)'[r] = RailOf(e, w, b)
    <3>1. SentBy(p)'[r] = RailOf(NumbersIn(early'[q][r]), NumbersIn(wire'[p][r]), backlog'[p][r])
      BY SentNext DEF q
    <3>2. NumbersIn(early'[q][r]) = e
      BY <1>6 DEF e
    <3> QED BY <1>5, <1>7, <3>1, <3>2 DEF w, b
  <2>4. \A s \in Rails \ {r} : /\ early'[q][s] = early[q][s]
                               /\ wire'[p][s] = wire[p][s] /\ backlog'[p][s] = backlog[p][s]
    BY <1>5, <1>6
  <2>5. OtherRails(SentBy(p), SentBy(p)', r)
    <3>1. \A s \in Rails \ {r} : SentBy(p)'[s] = SentBy(p)[s]
      BY <2>4, SameRails DEF q
    <3> QED BY <3>1 DEF OtherRails
  <2>6. Rising(SentBy(p)'[r]) /\ Messages(SentBy(p)'[r]) = Messages(SentBy(p)[r])
    BY <2>1, <2>2, <2>3 DEF FlowOK
  <2>7. FlowOK(SentBy(p)', received[q], issued[p])
    BY <1>7, <2>1, <2>5, <2>6, FlowStays
  <2> QED BY <2>1, <2>7
<1>9. FlowOK(T, received[p] + 1, issued[q]) /\ received[p] + 1 <= issued[q]
  <2>1. FlowOK(S, received[p], issued[q]) /\ received[p] <= issued[q]
    BY <1>0 DEF OrderInv
  <2>2. S[r] = RailOf(e2, w2, b2)
    BY <1>0, SentIs
  <2>3. T[r] = RailOf(Tail(e2), w2, b2)
    <3>1. T[r] = RailOf(NumbersIn(early'[p][r]), NumbersIn(wire'[q][r]), backlog'[q][r])
      BY <1>0, SentNext
    <3>2. wire'[q][r] = wire[q][r] /\ backlog'[q][r] = b2
      BY <1>0, <1>5
    <3>3. NumbersIn(early'[p][r]) = Tail(e2)
      BY <1>2, <1>3, <1>6, NumbersOfTail
    <3> QED BY <3>1, <3>2, <3>3
  <2>4. e2 # << >> /\ Head(e2) = received[p] + 1 /\ Rising(RailOf(e2, w2, b2))
    BY <1>2, <1>3, <2>1, <2>2, NumbersOfTail DEF FlowOK, m
  <2>5. OtherRails(S, T, r)
    <3>1. \A s \in Rails \ {r} : /\ early'[Peer(q)][s] = early[Peer(q)][s]
                                 /\ wire'[q][s] = wire[q][s] /\ backlog'[q][s] = backlog[q][s]
      BY <1>0, <1>5, <1>6
    <3>2. \A s \in Rails \ {r} : T[s] = S[s]
      BY <1>0, <3>1, SameRails
    <3> QED BY <3>2 DEF OtherRails
  <2> HIDE DEF e2, w2, b2, S, T
  <2>6. received[p] + 1 # 0
    BY <1>7
  <2>7. /\ Rising(T[r]) /\ received[p] + 1 \in Messages(S[r])
        /\ Messages(T[r]) = Messages(S[r]) \ {received[p] + 1}
    BY <1>7, <2>2, <2>3, <2>4, <2>6, RailHandles
  <2> QED BY <1>7, <2>1, <2>5, <2>7, FlowShrinks
<1> QED BY <1>0, <1>2, <1>6, <1>8, <1>9 DEF OrderInv, q

\* Every step keeps the order.
LEMMA NextKeepsOrder == IInv /\ OrderInv /\ [Next]_vars => OrderInv'
<1> SUFFICES ASSUME IInv, OrderInv, [Next]_vars PROVE OrderInv'
  OBVIOUS
<1>1. ASSUME NEW p \in Ends, NEW r \in Rails, post_send(p, r) PROVE OrderInv'
  BY <1>1, PostSendOrder
<1>2. ASSUME NEW p \in Ends, NEW r \in Rails, Cq_poll(p, r) PROVE OrderInv'
  BY <1>2, CqPollOrder
<1>3. ASSUME NEW p \in Ends, NEW r \in Rails, Waiting_msg(p, r) PROVE OrderInv'
  BY <1>3, WaitingMsgOrder
<1>4. CASE UNCHANGED vars
  <2>1. UNCHANGED <<early, wire, backlog, received, issued>>
    BY <1>4 DEF vars
  <2>2. ASSUME NEW p \in Ends
        PROVE  FlowOK(SentBy(p)', received[Peer(p)], issued[p])
    <3>1. /\ FlowOK(SentBy(p), received[Peer(p)], issued[p])
          /\ received[Peer(p)] \in Nat /\ issued[p] \in Nat
      BY TwoEnds DEF OrderInv, IInv, Shape, NumbersShape
    <3> QED BY <2>1, <3>1, FlowUntouched
  <2> QED BY <2>1, <2>2 DEF OrderInv
<1> QED BY <1>1, <1>2, <1>3, <1>4 DEF Next

\* Messages travel over several rails (post_send), wait in backlogs and in the queues of
\* early ones (Cq_poll), and yet each rail keeps their order and each message is on
\* exactly one of them until it is handled, for any number of rails and of messages.
THEOREM EachRailInOrder == Spec => []RailsInOrder
<1>1. Init => OrderInv
  BY OrderAtFirst
<1>2. IInv /\ OrderInv /\ [Next]_vars => OrderInv'
  BY NextKeepsOrder
<1>3. IInv /\ OrderInv => RailsInOrder
  <2> SUFFICES ASSUME IInv, OrderInv PROVE RailsInOrder
    OBVIOUS
  <2>1. \A p \in Ends, r \in Rails : /\ SentBy(p)[r] = Sent(p, r)
                                     /\ Messages(SentBy(p)[r]) = Carried(p, r)
    BY DEF SentBy, Carried, Messages
  <2>2. \A p \in Ends : FlowOK(SentBy(p), received[Peer(p)], issued[p])
    BY DEF OrderInv
  <2>3. \A p \in Ends, r \in Rails : Rising(Sent(p, r))
    BY <2>1, <2>2 DEF FlowOK
  <2>4. ASSUME NEW p \in Ends, NEW n \in (received[Peer(p)] + 1)..issued[p]
        PROVE  \E r \in Rails : /\ n \in Carried(p, r)
                                /\ \A s \in Rails \ {r} : n \notin Carried(p, s)
    <3>1. PICK r \in Rails : n \in Messages(SentBy(p)[r])
      BY <2>2 DEF FlowOK
    <3>2. \A s \in Rails \ {r} : Messages(SentBy(p)[r]) \cap Messages(SentBy(p)[s]) = {}
      BY <2>2 DEF FlowOK
    <3> QED BY <2>1, <3>1, <3>2
  <2> QED BY <2>3, <2>4 DEF RailsInOrder
<1> QED BY <1>1, <1>2, <1>3, AlwaysIInv, PTL DEF Spec
-----------------------------------------------------------------------------
(* Induction over naturals, finite sets and sequences, from the well-founded order of *)
(* finite sets, and with it what SumFunction gives for sequences of naturals.         *)

\* A set of naturals that holds 0 and the successor of each of its members holds all.
LEMMA NatSetInduction ==
    ASSUME NEW S, 0 \in S, \A n \in Nat : n \in S => n + 1 \in S
    PROVE  Nat \subseteq S
<1> SUFFICES ASSUME NEW n \in Nat, n \notin S PROVE FALSE
    OBVIOUS
<1> DEFINE T == {0 .. k : k \in {j \in 0 .. n : j \notin S}}
<1>1. T \subseteq FiniteSubsetsOf(0 .. n)
    <2> SUFFICES ASSUME NEW k \in 0 .. n, k \notin S PROVE 0 .. k \in FiniteSubsetsOf(0 .. n)
        OBVIOUS
    <2>1. IsFiniteSet(0 .. k)
        BY FS_Interval
    <2> QED
        BY <2>1 DEF FiniteSubsetsOf
<1>2. T # {}
    OBVIOUS
<1>3. PICK x \in T : \A y \in T : ~ (<<y, x>> \in StrictSubsetOrdering(0 .. n))
    <2> HIDE DEF T
    <2>1. IsWellFoundedOn(StrictSubsetOrdering(0 .. n), FiniteSubsetsOf(0 .. n))
        BY FS_StrictSubsetOrderingWellFounded
    <2> QED
        BY ONLY <1>1, <1>2, <2>1, WFMin
<1>4. PICK k \in 0 .. n : k \notin S /\ x = 0 .. k
    OBVIOUS
<1>5. k # 0 /\ k - 1 \in S
    <2>1. k # 0
        BY <1>4
    <2>2. ASSUME k - 1 \notin S PROVE FALSE
        <3>1. 0 .. (k - 1) \in T
            BY <1>4, <2>1, <2>2
        <3>2. <<0 .. (k - 1), 0 .. k>> \in StrictSubsetOrdering(0 .. n)
            BY <2>1 DEF StrictSubsetOrdering
        <3> QED
            BY <3>1, <3>2, <1>3, <1>4
    <2> QED
        BY <2>1, <2>2
<1> QED
    BY <1>4, <1>5

\* A set of finite sets that holds the empty one, and each whose parts with one element
\* less it holds.
LEMMA SubsetInduction ==
    ASSUME NEW D, IsFiniteSet(D), NEW P,
           \A s \in SUBSET D : (\A t \in SUBSET s : t # s => t \in P) => s \in P
    PROVE  SUBSET D \subseteq P
<1> SUFFICES ASSUME NEW n \in SUBSET D, n \notin P PROVE FALSE
    OBVIOUS
<1> DEFINE T == {s \in SUBSET D : s \notin P}
<1>1. T \subseteq FiniteSubsetsOf(D)
    <2>1. \A s \in SUBSET D : IsFiniteSet(s)
        BY FS_Subset
    <2> QED
        BY <2>1 DEF FiniteSubsetsOf
<1>2. T # {}
    OBVIOUS
<1>3. PICK x \in T : \A y \in T : ~ (<<y, x>> \in StrictSubsetOrdering(D))
    <2> HIDE DEF T
    <2>1. IsWellFoundedOn(StrictSubsetOrdering(D), FiniteSubsetsOf(D))
        BY FS_StrictSubsetOrderingWellFounded
    <2> QED
        BY ONLY <1>1, <1>2, <2>1, WFMin
<1>4. \A t \in SUBSET x : t # x => t \in P
    <2> SUFFICES ASSUME NEW t \in SUBSET x, t # x, t \notin P PROVE FALSE
        OBVIOUS
    <2>1. t \in T
        OBVIOUS
    <2>2. <<t, x>> \in StrictSubsetOrdering(D)
        BY DEF StrictSubsetOrdering
    <2> QED
        BY <2>1, <2>2, <1>3
<1> QED
    BY <1>4

Some(s) == CHOOSE x \in s : TRUE

\* A set that is not empty has the member chosen from it.
LEMMA SomeIn == ASSUME NEW s, s # {} PROVE Some(s) \in s
BY DEF Some

\* g gives the sum of v over each subset of the finite set D.
SumsOn(g, v, D) ==
    /\ IsFiniteSet(D) /\ v \in [D -> Nat]
    /\ g \in [SUBSET D -> Nat] /\ g[{}] = 0
    /\ \A s \in SUBSET D : s # {} => g[s] = v[Some(s)] + g[s \ {Some(s)}]

IsSum(g, v, D) ==
   g = [s \in SUBSET D |-> IF s = {} THEN 0 ELSE v[Some(s)] + g[s \ {Some(s)}]]

\* w is a part of v.
PartOf(w, E, v, D) == E \in SUBSET D /\ w \in [E -> Nat] /\ \A x \in E : w[x] = v[x]

\* g gives the sum of v over each subset of D with at most n elements.
Upto(D, n) == {s \in SUBSET D : Cardinality(s) <= n}
SumsUpto(g, v, D, n) ==
    /\ g \in [Upto(D, n) -> Nat] /\ g[{}] = 0
    /\ \A s \in Upto(D, n) : s # {} => g[s] = v[Some(s)] + g[s \ {Some(s)}]

\* Taking an element out of a set with at most n + 1 leaves at most n.
LEMMA UptoLess ==
    ASSUME NEW D, IsFiniteSet(D), NEW n \in Nat
    PROVE  /\ {} \in Upto(D, n) /\ Upto(D, n) \subseteq Upto(D, n + 1)
           /\ \A s \in Upto(D, n + 1) : s # {} => Some(s) \in D /\ s \ {Some(s)} \in Upto(D, n)
<1>1. \A s \in SUBSET D : Cardinality(s) \in Nat /\ IsFiniteSet(s)
    BY FS_Subset, FS_CardinalityType
<1>2. {} \in Upto(D, n)
    BY FS_EmptySet DEF Upto
<1>3. Upto(D, n) \subseteq Upto(D, n + 1)
    BY <1>1 DEF Upto
<1>4. ASSUME NEW s \in Upto(D, n + 1), s # {}
      PROVE  Some(s) \in D /\ s \ {Some(s)} \in Upto(D, n)
    <2>1. s \in SUBSET D /\ Cardinality(s) <= n + 1
        BY DEF Upto
    <2>2. Some(s) \in s
        BY <1>4, SomeIn
    <2>3. Cardinality(s \ {Some(s)}) = Cardinality(s) - 1
        BY <2>1, <2>2, <1>1, FS_RemoveElement
    <2> QED
        BY <2>1, <2>2, <2>3, <1>1 DEF Upto
<1> QED
    BY <1>2, <1>3, <1>4

\* Sums over small sets give sums over sets with one element more.
LEMMA SumsGrow ==
    ASSUME NEW D, IsFiniteSet(D), NEW v \in [D -> Nat], NEW n \in Nat,
           NEW g, SumsUpto(g, v, D, n)
    PROVE  \E h : SumsUpto(h, v, D, n + 1)
<1> DEFINE h == [s \in Upto(D, n + 1) |-> IF s = {} THEN 0 ELSE v[Some(s)] + g[s \ {Some(s)}]]
<1>1. /\ g \in [Upto(D, n) -> Nat] /\ g[{}] = 0
      /\ \A s \in Upto(D, n) : s # {} => g[s] = v[Some(s)] + g[s \ {Some(s)}]
    BY DEF SumsUpto
<1>2. h \in [Upto(D, n + 1) -> Nat]
    <2> SUFFICES ASSUME NEW s \in Upto(D, n + 1), s # {}
                 PROVE  v[Some(s)] + g[s \ {Some(s)}] \in Nat
        OBVIOUS
    <2> QED
        BY <1>1, UptoLess
<1>3. h[{}] = 0
    BY UptoLess
<1>4. \A s \in Upto(D, n) : h[s] = g[s]
    BY <1>1, UptoLess
<1>5. ASSUME NEW s \in Upto(D, n + 1), s # {} PROVE h[s] = v[Some(s)] + h[s \ {Some(s)}]
    <2>1. h[s] = v[Some(s)] + g[s \ {Some(s)}]
        BY <1>5
    <2>2. s \ {Some(s)} \in Upto(D, n)
        BY <1>5, UptoLess
    <2> HIDE DEF h
    <2> QED
        BY <2>1, <2>2, <1>4
<1> HIDE DEF h
<1>6. SumsUpto(h, v, D, n + 1)
    BY <1>2, <1>3, <1>5 DEF SumsUpto
<1> QED
    BY <1>6

\* There are such sums for every finite D.
LEMMA SumsExist ==
    ASSUME NEW D, IsFiniteSet(D), NEW v \in [D -> Nat]
    PROVE  \E g : SumsOn(g, v, D)
<1> DEFINE P == {n \in Nat : \E g : SumsUpto(g, v, D, n)}
<1>1. 0 \in P
    <2> DEFINE g == [s \in Upto(D, 0) |-> 0]
    <2>1. \A s \in SUBSET D : IsFiniteSet(s) /\ Cardinality(s) \in Nat
        BY FS_Subset, FS_CardinalityType
    <2>2. \A s \in Upto(D, 0) : s = {}
        BY <2>1, FS_EmptySet DEF Upto
    <2>3. {} \in Upto(D, 0)
        BY UptoLess
    <2>4. SumsUpto(g, v, D, 0)
        BY <2>2, <2>3 DEF SumsUpto
    <2> HIDE DEF g
    <2> QED
        BY <2>4
<1>2. ASSUME NEW n \in Nat, n \in P PROVE n + 1 \in P
    BY <1>2, SumsGrow
<1>3. Nat \subseteq P
    <2> HIDE DEF P
    <2> QED
        BY <1>1, <1>2, NatSetInduction
<1>4. PICK g : SumsUpto(g, v, D, Cardinality(D))
    BY <1>3, FS_CardinalityType
<1>5. Upto(D, Cardinality(D)) = SUBSET D
    BY FS_Subset DEF Upto
<1> QED
    BY <1>4, <1>5 DEF SumsOn, SumsUpto

\* There is only one.
LEMMA SumsUnique ==
    ASSUME NEW D, NEW v, NEW g, SumsOn(g, v, D), NEW E, NEW w, PartOf(w, E, v, D),
           NEW h, IsSum(h, w, E)
    PROVE  \A s \in SUBSET E : h[s] = g[s]
<1> DEFINE P == {s \in SUBSET E : h[s] = g[s]}
<1>1. ASSUME NEW s \in SUBSET E, \A t \in SUBSET s : t # s => t \in P PROVE s \in P
    <2>1. CASE s = {}
        BY <2>1 DEF SumsOn, IsSum
    <2>2. CASE s # {}
        <3>1. Some(s) \in s
            BY <2>2, SomeIn
        <3>2. h[s \ {Some(s)}] = g[s \ {Some(s)}]
            BY <3>1, <1>1
        <3>3. h[s] = w[Some(s)] + h[s \ {Some(s)}]
            BY <2>2 DEF IsSum
        <3>4. g[s] = v[Some(s)] + g[s \ {Some(s)}]
            BY <2>2 DEF SumsOn, PartOf
        <3>5. w[Some(s)] = v[Some(s)]
            BY <3>1 DEF PartOf
        <3> QED
            BY <3>2, <3>3, <3>4, <3>5
    <2> QED
        BY <2>1, <2>2
<1>2. IsFiniteSet(E)
    BY FS_Subset DEF SumsOn, PartOf
<1>3. SUBSET E \subseteq P
    <2> HIDE DEF P
    <2> QED
        BY <1>1, <1>2, SubsetInduction
<1> QED
    BY <1>3

\* The order does not matter.
LEMMA SumsAnyOrder ==
    ASSUME NEW D, NEW v, NEW g, SumsOn(g, v, D)
    PROVE  \A s \in SUBSET D : \A x \in s : g[s] = v[x] + g[s \ {x}]
<1> DEFINE P == {s \in SUBSET D : \A x \in s : g[s] = v[x] + g[s \ {x}]}
<1>1. ASSUME NEW s \in SUBSET D, \A t \in SUBSET s : t # s => t \in P PROVE s \in P
    <2> SUFFICES ASSUME NEW x \in s PROVE g[s] = v[x] + g[s \ {x}]
        OBVIOUS
    <2> DEFINE c == Some(s)
    <2>1. c \in s
        BY SomeIn
    <2>2. g[s] = v[c] + g[s \ {c}]
        BY DEF SumsOn
    <2>3. CASE x = c
        BY <2>3, <2>2
    <2>4. CASE x # c
        <3>1. s \ {c} \in P /\ s \ {x} \in P
            BY <2>1, <1>1
        <3>2. x \in s \ {c} /\ c \in s \ {x}
            BY <2>1, <2>4
        <3>3. g[s \ {c}] = v[x] + g[(s \ {c}) \ {x}]
            BY <3>1, <3>2
        <3>4. g[s \ {x}] = v[c] + g[(s \ {x}) \ {c}]
            BY <3>1, <3>2
        <3>5. (s \ {c}) \ {x} = (s \ {x}) \ {c}
            OBVIOUS
        <3>6. v[x] \in Nat /\ v[c] \in Nat /\ g[(s \ {x}) \ {c}] \in Nat
            BY <2>1 DEF SumsOn
        <3>7. PICK r : r = g[(s \ {x}) \ {c}]
            OBVIOUS
        <3>8. g[s \ {c}] = v[x] + r /\ g[s \ {x}] = v[c] + r /\ r \in Nat
            BY <3>3, <3>4, <3>5, <3>6, <3>7
        <3> HIDE DEF c
        <3> QED
            BY <3>8, <3>6, <2>2
    <2> QED
        BY <2>3, <2>4
<1>2. SUBSET D \subseteq P
    <2> HIDE DEF P
    <2> QED
        BY <1>1, SubsetInduction DEF SumsOn
<1> QED
    BY <1>2

\* The sum of a part is what the sums over the subsets say.
LEMMA SumFunctionIs ==
    ASSUME NEW D, NEW v, NEW g, SumsOn(g, v, D), NEW E, NEW w, PartOf(w, E, v, D)
    PROVE  SumFunction(w) = g[E]
<1> DEFINE iter == CHOOSE h : IsSum(h, w, E)
<1>1. DOMAIN w = E
    BY DEF PartOf
<1>2. SumFunction(w) = iter[E]
    BY <1>1 DEF SumFunction, SumFunctionOnSet, FoldFunctionOnSet, MapThenFoldSet, IsSum, Some
<1>3. IsSum(iter, w, E)
    <2>1. IsFiniteSet(E)
        BY FS_Subset DEF SumsOn, PartOf
    <2>2. PICK h : SumsOn(h, w, E)
        BY <2>1, SumsExist DEF PartOf
    <2>3. IsSum(h, w, E)
        BY <2>2 DEF SumsOn, IsSum
    <2> QED
        BY <2>3
<1> HIDE DEF iter
<1>4. E \in SUBSET E
    OBVIOUS
<1> QED
    BY <1>2, <1>3, <1>4, SumsUnique

\* Sequences: a set that holds the empty one, and each of its members with an element
\* appended, holds all.
LEMMA SeqInduction ==
    ASSUME NEW S, NEW P, << >> \in P, \A f \in P \cap Seq(S) : \A e \in S : Append(f, e) \in P
    PROVE  Seq(S) \subseteq P
<1> DEFINE N == {n \in Nat : \A s \in Seq(S) : Len(s) = n => s \in P}
<1>1. 0 \in N
    BY EmptySeq
<1>2. ASSUME NEW n \in Nat, n \in N PROVE n + 1 \in N
    <2> SUFFICES ASSUME NEW s \in Seq(S), Len(s) = n + 1 PROVE s \in P
        OBVIOUS
    <2> DEFINE f == [i \in 1 .. n |-> s[i]]
    <2>1. f \in Seq(S) /\ Len(f) = n
        OBVIOUS
    <2>2. s[n + 1] \in S
        OBVIOUS
    <2>3. Append(f, s[n + 1]) \in Seq(S) /\ Len(Append(f, s[n + 1])) = n + 1
        BY <2>1, <2>2
    <2>4. \A i \in 1 .. n + 1 : s[i] = Append(f, s[n + 1])[i]
        BY <2>1, <2>2
    <2>5. s = Append(f, s[n + 1])
        BY <2>3, <2>4, SeqEqual
    <2>6. f \in P
        BY <2>1, <1>2
    <2> HIDE DEF f
    <2> QED
        BY <2>1, <2>2, <2>5, <2>6
<1>3. Nat \subseteq N
    <2> HIDE DEF N
    <2> QED
        BY <1>1, <1>2, NatSetInduction
<1> QED
    BY <1>3, LenProperties

\* The sum of no numbers is 0.
LEMMA SumEmpty == SumFunction(<< >>) = 0
<1>1. PICK w : w = << >>
    OBVIOUS
<1>2. IsFiniteSet({}) /\ w \in [{} -> Nat]
    BY <1>1, FS_EmptySet
<1>3. PICK g : SumsOn(g, w, {})
    BY <1>2, SumsExist
<1>4. PartOf(w, {}, w, {})
    BY <1>2 DEF PartOf
<1>5. SumFunction(w) = g[{}]
    BY <1>3, <1>4, SumFunctionIs
<1> QED
    BY <1>1, <1>3, <1>5 DEF SumsOn

\* The sum of natural numbers is one.
LEMMA SumNat ==
    ASSUME NEW s \in Seq(Nat)
    PROVE  SumFunction(s) \in Nat
<1>1. IsFiniteSet(1 .. Len(s)) /\ s \in [1 .. Len(s) -> Nat]
    BY FS_Interval
<1>2. PICK g : SumsOn(g, s, 1 .. Len(s))
    BY <1>1, SumsExist
<1>3. PartOf(s, 1 .. Len(s), s, 1 .. Len(s))
    BY <1>1 DEF PartOf
<1>4. SumFunction(s) = g[1 .. Len(s)]
    BY <1>2, <1>3, SumFunctionIs
<1> QED
    BY <1>2, <1>4 DEF SumsOn

\* A number appended is added to the sum.
LEMMA SumAppend ==
    ASSUME NEW s \in Seq(Nat), NEW e \in Nat
    PROVE  SumFunction(Append(s, e)) = SumFunction(s) + e
<1>1. PICK n : n = Len(s)
    OBVIOUS
<1>2. PICK t : t = Append(s, e)
    OBVIOUS
<1>3. PICK D : D = 1 .. n + 1
    OBVIOUS
<1>4. n \in Nat /\ s \in [1 .. n -> Nat]
    BY <1>1
<1>5. t \in [D -> Nat] /\ t[n + 1] = e /\ \A i \in 1 .. n : t[i] = s[i]
    <2>1. t \in Seq(Nat) /\ Len(t) = n + 1 /\ t[n + 1] = e /\ \A i \in 1 .. n : t[i] = s[i]
        BY <1>1, <1>2, AppendProperties
    <2> QED
        BY <2>1, <1>3
<1>6. IsFiniteSet(D)
    BY <1>3, <1>4, FS_Interval
<1>7. PICK g : SumsOn(g, t, D)
    BY <1>5, <1>6, SumsExist
<1>8. PartOf(t, D, t, D) /\ PartOf(s, 1 .. n, t, D)
    BY <1>3, <1>4, <1>5 DEF PartOf
<1>9. SumFunction(t) = g[D] /\ SumFunction(s) = g[1 .. n]
    BY <1>7, <1>8, SumFunctionIs
<1>10. D \in SUBSET D /\ n + 1 \in D /\ D \ {n + 1} = 1 .. n
    BY <1>3, <1>4
<1>11. g[D] = t[n + 1] + g[D \ {n + 1}]
    BY <1>7, <1>10, SumsAnyOrder
<1>12. g[1 .. n] \in Nat
    BY <1>7, <1>10 DEF SumsOn
<1>13. PICK k : k = g[1 .. n]
    OBVIOUS
<1>14. SumFunction(t) = e + k
    BY <1>5, <1>9, <1>10, <1>11, <1>13
<1>15. SumFunction(s) = k /\ k \in Nat
    BY <1>9, <1>12, <1>13
<1> QED
    BY <1>2, <1>14, <1>15

\* The sum of two sequences joined is that of both sums.
LEMMA SumConcat ==
    ASSUME NEW s \in Seq(Nat), NEW t \in Seq(Nat)
    PROVE  SumFunction(s \o t) = SumFunction(s) + SumFunction(t)
<1> DEFINE P == {u \in Seq(Nat) : SumFunction(s \o u) = SumFunction(s) + SumFunction(u)}
<1>1. << >> \in P
    <2>1. s \o << >> = s
        BY ConcatEmptySeq
    <2> QED
        BY <2>1, SumEmpty, SumNat
<1>2. ASSUME NEW f \in Seq(Nat), f \in P, NEW e \in Nat PROVE Append(f, e) \in P
    <2>1. s \o Append(f, e) = Append(s \o f, e)
        <3>1. Append(f, e) = f \o <<e>> /\ Append(s \o f, e) = (s \o f) \o <<e>>
            BY AppendIsConcat, ConcatProperties
        <3>2. <<e>> \in Seq(Nat)
            OBVIOUS
        <3>3. (s \o f) \o <<e>> = s \o (f \o <<e>>)
            BY <3>2, ConcatAssociative
        <3> QED
            BY <3>1, <3>3
    <2>2. s \o f \in Seq(Nat)
        BY ConcatProperties
    <2>3. SumFunction(s \o Append(f, e)) = SumFunction(s \o f) + e
        BY <2>1, <2>2, SumAppend
    <2>4. SumFunction(Append(f, e)) = SumFunction(f) + e
        BY SumAppend
    <2>5. SumFunction(s \o f) = SumFunction(s) + SumFunction(f)
        BY <1>2
    <2>6. SumFunction(s) \in Nat /\ SumFunction(f) \in Nat
        BY SumNat
    <2>7. Append(f, e) \in Seq(Nat)
        OBVIOUS
    <2> QED
        BY <2>3, <2>4, <2>5, <2>6, <2>7
<1>3. Seq(Nat) \subseteq P
    <2> HIDE DEF P
    <2> QED
        BY <1>1, <1>2, SeqInduction
<1> QED
    BY <1>3

\* The sum is its first number and the sum of the others.
LEMMA SumTail ==
    ASSUME NEW s \in Seq(Nat), s # << >>
    PROVE  SumFunction(s) = Head(s) + SumFunction(Tail(s))
<1>1. Head(s) \in Nat /\ Tail(s) \in Seq(Nat)
    BY HeadTailProperties
<1>2. <<Head(s)>> \in Seq(Nat) /\ <<Head(s)>> = Append(<< >>, Head(s)) /\ << >> \in Seq(Nat)
    BY <1>1
<1>3. s = <<Head(s)>> \o Tail(s)
    OBVIOUS
<1>4. SumFunction(<<Head(s)>>) = 0 + Head(s)
    BY <1>1, <1>2, SumAppend, SumEmpty
<1>5. SumFunction(s) = SumFunction(<<Head(s)>>) + SumFunction(Tail(s))
    BY <1>1, <1>2, <1>3, SumConcat
<1> QED
    BY <1>1, <1>4, <1>5

\* All but the first of the numbers are 0.
OnlyFirst(s, a) == \A i \in 1 .. Len(s) : s[i] = IF i = 1 THEN a ELSE 0

\* A zero appended leaves the first number the only one.
LEMMA OnlyFirstAppend ==
    ASSUME NEW f \in Seq(Nat), NEW e \in Nat, NEW a \in Nat, OnlyFirst(Append(f, e), a)
    PROVE  OnlyFirst(f, a) /\ e = IF Len(f) = 0 THEN a ELSE 0
<1>1. PICK u : u = Append(f, e)
    OBVIOUS
<1>2. PICK n : n = Len(f)
    OBVIOUS
<1>3. /\ n \in Nat /\ Len(u) = n + 1 /\ u[n + 1] = e
      /\ \A i \in 1 .. n : u[i] = f[i]
    BY <1>1, <1>2, AppendProperties
<1>4. \A i \in 1 .. n + 1 : u[i] = IF i = 1 THEN a ELSE 0
    BY <1>1, <1>3 DEF OnlyFirst
<1>5. e = IF n = 0 THEN a ELSE 0
    BY <1>3, <1>4
<1>6. \A i \in 1 .. n : f[i] = IF i = 1 THEN a ELSE 0
    BY <1>3, <1>4
<1> QED
    BY <1>2, <1>5, <1>6 DEF OnlyFirst

\* The sum of zeros after the first number is that number.
LEMMA SumFirstOnly ==
    ASSUME NEW s \in Seq(Nat), NEW a \in Nat, OnlyFirst(s, a)
    PROVE  SumFunction(s) = IF Len(s) = 0 THEN 0 ELSE a
<1> DEFINE P == {u \in Seq(Nat) :
                    OnlyFirst(u, a) => SumFunction(u) = IF Len(u) = 0 THEN 0 ELSE a}
<1>1. << >> \in P
    BY SumEmpty
<1>2. ASSUME NEW f \in Seq(Nat), f \in P, NEW e \in Nat PROVE Append(f, e) \in P
    <2>1. PICK u : u = Append(f, e)
        OBVIOUS
    <2>2. u \in Seq(Nat) /\ Len(u) # 0
        BY <2>1
    <2>3. ASSUME OnlyFirst(u, a) PROVE SumFunction(u) = a
        <3>1. OnlyFirst(f, a) /\ e = IF Len(f) = 0 THEN a ELSE 0
            BY <2>1, <2>3, OnlyFirstAppend
        <3>2. SumFunction(f) = IF Len(f) = 0 THEN 0 ELSE a
            BY <3>1, <1>2
        <3>3. SumFunction(u) = SumFunction(f) + e
            BY <2>1, SumAppend
        <3> QED
            BY <3>1, <3>2, <3>3
    <2> QED
        BY <2>1, <2>2, <2>3
<1>3. Seq(Nat) \subseteq P
    <2> HIDE DEF P
    <2> QED
        BY <1>1, <1>2, SeqInduction
<1> QED
    BY <1>3
-----------------------------------------------------------------------------
(* The credits in packets, and the receives that messages on the wire will use. *)

\* The credits of the packets, one after the other.
Credits(seq) == [i \in 1..Len(seq) |-> seq[i].vbufCredit]

\* Credits are numbers, and CreditIn is their sum.
LEMMA CreditsOfPackets ==
    ASSUME NEW s \in Seq(Packet)
    PROVE  /\ Credits(s) \in Seq(Nat) /\ Len(Credits(s)) = Len(s)
           /\ \A i \in 1..Len(s) : Credits(s)[i] = s[i].vbufCredit
           /\ CreditIn(s) = SumFunction(Credits(s)) /\ CreditIn(s) \in Nat
<1>1. Len(s) \in Nat /\ \A i \in 1..Len(s) : s[i].vbufCredit \in Nat
  <2>1. Len(s) \in Nat /\ \A i \in 1..Len(s) : s[i] \in Packet
    BY LenProperties, ElementOfSeq
  <2> QED BY <2>1 DEF Packet
<1>2. /\ Credits(s) \in Seq(Nat) /\ Len(Credits(s)) = Len(s)
      /\ \A i \in 1..Len(s) : Credits(s)[i] = s[i].vbufCredit
  BY <1>1, IsASeq DEF Credits
<1>3. CreditIn(s) = SumFunction(Credits(s))
  BY DEF CreditIn, Credits
<1> QED BY <1>2, <1>3, SumNat

\* Two queues of packets, one behind the other.
LEMMA CreditBoth ==
    ASSUME NEW s \in Seq(Packet), NEW t \in Seq(Packet)
    PROVE  CreditIn(s \o t) = CreditIn(s) + CreditIn(t)
<1>1. /\ s \o t \in Seq(Packet) /\ Len(s \o t) = Len(s) + Len(t)
      /\ \A i \in 1..(Len(s) + Len(t)) :
            (s \o t)[i] = IF i <= Len(s) THEN s[i] ELSE t[i - Len(s)]
  BY ConcatProperties
<1>2. PICK c : c = s \o t
  OBVIOUS
<1>3. PICK a : a = Credits(s)
  OBVIOUS
<1>4. PICK b : b = Credits(t)
  OBVIOUS
<1>5. PICK d : d = Credits(c)
  OBVIOUS
<1>6. PICK e : e = a \o b
  OBVIOUS
<1>7. /\ a \in Seq(Nat) /\ Len(a) = Len(s) /\ \A i \in 1..Len(s) : a[i] = s[i].vbufCredit
      /\ b \in Seq(Nat) /\ Len(b) = Len(t) /\ \A i \in 1..Len(t) : b[i] = t[i].vbufCredit
      /\ d \in Seq(Nat) /\ Len(d) = Len(c) /\ \A i \in 1..Len(c) : d[i] = c[i].vbufCredit
  BY <1>1, <1>2, <1>3, <1>4, <1>5, CreditsOfPackets
<1>8. /\ e \in Seq(Nat) /\ Len(e) = Len(a) + Len(b)
      /\ \A i \in 1..(Len(a) + Len(b)) : e[i] = IF i <= Len(a) THEN a[i] ELSE b[i - Len(a)]
  <2>1. a \in Seq(Nat) /\ b \in Seq(Nat)
    BY <1>7
  <2> QED BY ONLY <1>6, <2>1, ConcatProperties
<1>9. Len(s) \in Nat /\ Len(t) \in Nat
  BY LenProperties
<1>10. ASSUME NEW i \in 1..Len(d) PROVE d[i] = e[i]
  <2>1. i \in 1..(Len(s) + Len(t)) /\ d[i] = c[i].vbufCredit
    BY <1>1, <1>2, <1>7
  <2>2. CASE i <= Len(s)
    <3>1. i \in 1..Len(s) /\ c[i] = s[i] /\ e[i] = a[i]
      BY <1>1, <1>2, <1>7, <1>8, <1>9, <2>1, <2>2
    <3> QED BY <1>7, <2>1, <3>1
  <2>3. CASE ~(i <= Len(s))
    <3>1. i - Len(s) \in 1..Len(t) /\ c[i] = t[i - Len(s)] /\ e[i] = b[i - Len(s)]
      BY <1>1, <1>2, <1>7, <1>8, <1>9, <2>1, <2>3
    <3> QED BY <1>7, <2>1, <3>1
  <2> QED BY <2>2, <2>3
<1>11. d = e
  BY <1>1, <1>2, <1>7, <1>8, <1>10, SeqEqual
<1>12. SumFunction(d) = SumFunction(a) + SumFunction(b)
  BY <1>6, <1>7, <1>11, SumConcat
<1> QED BY <1>1, <1>2, <1>3, <1>4, <1>5, <1>12, CreditsOfPackets

\* A packet more.
LEMMA CreditMore ==
    ASSUME NEW s \in Seq(Packet), NEW m \in Packet
    PROVE  CreditIn(Append(s, m)) = CreditIn(s) + m.vbufCredit
<1>1. <<m>> \in Seq(Packet) /\ Append(s, m) = s \o <<m>>
  BY AppendIsConcat
<1>2. CreditIn(<<m>>) = m.vbufCredit
  <2>1. m.vbufCredit \in Nat /\ << >> \in Seq(Nat)
    BY DEF Packet
  <2>2. Credits(<<m>>) = Append(<< >>, m.vbufCredit)
    BY DEF Credits
  <2>3. CreditIn(<<m>>) = SumFunction(Append(<< >>, m.vbufCredit))
    BY <2>2 DEF CreditIn, Credits
  <2>4. SumFunction(Append(<< >>, m.vbufCredit)) = SumFunction(<< >>) + m.vbufCredit
    BY <2>1, SumAppend
  <2> QED BY <2>1, <2>3, <2>4, SumEmpty
<1>3. CreditIn(s \o <<m>>) = CreditIn(s) + CreditIn(<<m>>)
  BY <1>1, CreditBoth
<1> QED BY <1>1, <1>2, <1>3

\* A packet less.
LEMMA CreditLess ==
    ASSUME NEW s \in Seq(Packet), s # << >>
    PROVE  /\ Head(s) \in Packet /\ Tail(s) \in Seq(Packet)
           /\ CreditIn(s) = Head(s).vbufCredit + CreditIn(Tail(s))
<1>1. /\ Head(s) \in Packet /\ Tail(s) \in Seq(Packet) /\ Len(s) \in Nat \ {0}
  BY HeadTailProperties, EmptySeq, LenProperties
<1>2. s = <<Head(s)>> \o Tail(s)
  <2>1. SubSeq(s, 1, Len(s)) = <<s[1]>> \o SubSeq(s, 2, Len(s))
    BY <1>1, SubSeqRecursiveFirst
  <2> QED BY <1>1, <2>1, HeadTailProperties, SubSeqFull, TailIsSubSeq
<1>3. << >> \in Seq(Packet) /\ <<Head(s)>> = Append(<< >>, Head(s)) /\ <<Head(s)>> \in Seq(Packet)
  BY <1>1
<1>4. CreditIn(<<Head(s)>>) = Head(s).vbufCredit
  <2>1. CreditIn(<< >>) = 0
    <3>1. Credits(<< >>) = << >>
      BY DEF Credits
    <3> QED BY <3>1, SumEmpty DEF CreditIn, Credits
  <2>2. CreditIn(Append(<< >>, Head(s))) = CreditIn(<< >>) + Head(s).vbufCredit
    BY <1>1, <1>3, CreditMore
  <2>3. Head(s).vbufCredit \in Nat
    BY <1>1 DEF Packet
  <2> QED BY <1>3, <2>1, <2>2, <2>3
<1>5. CreditIn(<<Head(s)>> \o Tail(s)) = CreditIn(<<Head(s)>>) + CreditIn(Tail(s))
  BY <1>1, <1>3, CreditBoth
<1> QED BY <1>1, <1>2, <1>4, <1>5

\* The receives that the messages of a queue use up.
Used(ns) == Cardinality(Messages(ns))

\* The messages among finitely many numbers are finitely many.
LEMMA UsedFinite ==
    ASSUME NEW ns \in Seq(Nat)
    PROVE  IsFiniteSet(Messages(ns)) /\ Used(ns) \in Nat
<1> DEFINE P == {s \in Seq(Nat) : IsFiniteSet(Messages(s))}
<1>1. << >> \in P
  <2>1. Messages(<< >>) = {}
    BY DEF Messages
  <2>2. IsFiniteSet({})
    BY FS_EmptySet
  <2>3. PICK z : z = << >>
    OBVIOUS
  <2>4. z \in Seq(Nat)
    BY <2>3
  <2>5. IsFiniteSet(Messages(z))
    BY <2>1, <2>2, <2>3
  <2>6. z \in P
    BY <2>4, <2>5
  <2> QED BY <2>3, <2>6
<1>2. ASSUME NEW f \in Seq(Nat), f \in P, NEW e \in Nat PROVE Append(f, e) \in P
  <2>1. Append(f, e) = f \o <<e>> /\ Append(f, e) \in Seq(Nat)
    BY AppendIsConcat
  <2>2. Messages(f \o <<e>>) = Messages(f) \cup ({e} \ {0})
    BY OneMore
  <2>3. IsFiniteSet({e} \ {0})
    <3>1. IsFiniteSet({e})
      BY FS_Singleton
    <3> QED BY <3>1, FS_Subset
  <2>4. IsFiniteSet(Messages(f) \cup ({e} \ {0}))
    BY <1>2, <2>3, FS_Union
  <2> QED BY <2>1, <2>2, <2>4
<1>3. Seq(Nat) \subseteq P
  <2> HIDE DEF P
  <2> QED BY <1>1, <1>2, SeqInduction
<1> QED BY <1>3, FS_CardinalityType DEF Used

\* A rising queue of messages uses as many receives as it is long.
Numbered(s) == \A i \in 1..Len(s) : s[i] # 0

\* Messages in order that are no NOOPs use a credit each.
LEMMA UsedByAll ==
    ASSUME NEW ns \in Seq(Nat), Numbered(ns), Rising(ns)
    PROVE  Used(ns) = Len(ns)
<1> DEFINE P == {s \in Seq(Nat) : Numbered(s) /\ Rising(s) => Used(s) = Len(s)}
<1>1. << >> \in P
  <2>1. Messages(<< >>) = {}
    BY DEF Messages
  <2>2. Used(<< >>) = 0
    BY <2>1, FS_EmptySet DEF Used
  <2>3. << >> \in Seq(Nat) /\ Len(<< >>) = 0
    OBVIOUS
  <2> QED BY <2>2, <2>3
<1>2. ASSUME NEW f \in Seq(Nat), f \in P, NEW e \in Nat PROVE Append(f, e) \in P
  <2>1. PICK u : u = Append(f, e)
    OBVIOUS
  <2>2. u = f \o <<e>>
    BY <2>1, AppendIsConcat
  <2>3. u \in Seq(Nat) /\ Len(u) = Len(f) + 1 /\ u[Len(f) + 1] = e /\ Len(f) \in Nat
        /\ \A i \in 1..Len(f) : u[i] = f[i]
    BY <2>1, AppendProperties, LenProperties
  <2>4. ASSUME Numbered(u), Rising(u) PROVE Used(u) = Len(u)
    <3>1. e # 0 /\ Numbered(f)
      BY <2>3, <2>4 DEF Numbered
    <3>2. /\ Messages(u) = Messages(f) \cup {e} /\ Rising(f)
          /\ \A y \in Messages(f) : y < e
      <4>1. /\ Messages(f \o <<e>>) = Messages(f) \cup ({e} \ {0})
            /\ Rising(f \o <<e>>) <=> Rising(f) /\ (e = 0 \/ \A y \in Messages(f) : y < e)
        BY OneMore
      <4> QED BY <2>2, <2>4, <3>1, <4>1
    <3>3. e \notin Messages(f)
      BY <3>2
    <3>4. Used(f) = Len(f)
      BY <1>2, <3>1, <3>2
    <3>5. Cardinality(Messages(f) \cup {e}) = Cardinality(Messages(f)) + 1
      BY <3>3, UsedFinite, FS_AddElement
    <3> QED BY <2>3, <3>2, <3>4, <3>5 DEF Used
  <2> QED BY <2>1, <2>3, <2>4
<1>3. Seq(Nat) \subseteq P
  <2> HIDE DEF P
  <2> QED BY <1>1, <1>2, SeqInduction
<1> QED BY <1>3

\* Two queues in order, one behind the other.
LEMMA UsedByBoth ==
    ASSUME NEW u \in Seq(Nat), NEW v \in Seq(Nat), Rising(u \o v)
    PROVE  Used(u \o v) = Used(u) + Used(v)
<1>1. /\ Messages(u \o v) = Messages(u) \cup Messages(v)
      /\ \A x \in Messages(u), y \in Messages(v) : x < y
  BY MessagesOfBoth, RisingParts
<1>2. \A x \in Messages(u) : x \in Nat
  BY ElementOfSeq DEF Messages
<1>3. Messages(u) \cap Messages(v) = {}
  BY <1>1, <1>2
<1>4. IsFiniteSet(Messages(u)) /\ IsFiniteSet(Messages(v)) /\ Used(u) \in Nat /\ Used(v) \in Nat
  BY UsedFinite
<1>5. Cardinality(Messages(u) \cup Messages(v)) = Used(u) + Used(v) - Cardinality({})
  BY <1>3, <1>4, FS_Union DEF Used
<1>6. Cardinality({}) = 0
  BY FS_EmptySet
<1> QED BY <1>1, <1>4, <1>5, <1>6 DEF Used

\* A message less at the head.
LEMMA UsedLess ==
    ASSUME NEW s \in Seq(Nat), s # << >>, Rising(s)
    PROVE  /\ Tail(s) \in Seq(Nat)
           /\ Used(s) = Used(Tail(s)) + IF Head(s) = 0 THEN 0 ELSE 1
<1>1. /\ Head(s) \in Nat /\ Tail(s) \in Seq(Nat)
      /\ Messages(s) = Messages(Tail(s)) \cup ({Head(s)} \ {0})
      /\ \A y \in Messages(Tail(s)) : Head(s) # 0 => Head(s) < y
  BY OneLess
<1>2. IsFiniteSet(Messages(Tail(s))) /\ Used(Tail(s)) \in Nat
  BY <1>1, UsedFinite
<1>3. CASE Head(s) = 0
  <2>1. Messages(s) = Messages(Tail(s))
    BY <1>1, <1>3
  <2>2. Used(s) = Used(Tail(s)) /\ Used(Tail(s)) \in Nat
    BY <1>2, <2>1 DEF Used
  <2> QED BY <1>1, <1>3, <2>2
<1>4. CASE Head(s) # 0
  <2>1. Messages(s) = Messages(Tail(s)) \cup {Head(s)} /\ Head(s) \notin Messages(Tail(s))
    BY <1>1, <1>4
  <2>2. Cardinality(Messages(Tail(s)) \cup {Head(s)}) = Cardinality(Messages(Tail(s))) + 1
    BY <1>2, <2>1, FS_AddElement
  <2> QED BY <1>1, <1>4, <2>1, <2>2 DEF Used
<1> QED BY <1>3, <1>4

\* What is on a wire, as the property counts it.
LEMMA UsedIs ==
    ASSUME NEW s \in Seq(Packet)
    PROVE  Cardinality(Numbers(s)) = Used(NumbersIn(s))
<1>1. Len(NumbersIn(s)) = Len(s) /\ \A i \in 1..Len(s) : NumbersIn(s)[i] = s[i].n
  BY NumbersOfPackets
<1>2. {s[i].n : i \in 1..Len(s)} = {NumbersIn(s)[i] : i \in 1..Len(NumbersIn(s))}
  BY <1>1
<1> QED BY <1>2 DEF Used, Messages, Numbers
-----------------------------------------------------------------------------
(* The accounts: the receives of one end on one rail, and where their credits are. *)

\* a receives are accounted for by rc credits at the peer, those in the packets w on their
\* way and e queued early, lc still to be told of, and the messages of the packets v.
Balanced(a, rc, w, e, lc, v) ==
    a = rc + CreditIn(w) + CreditIn(e) + lc + Used(NumbersIn(v))
        + (InitialPrepost - InitialCredits)

Account(p, r) ==
    Balanced(preposts[p][r], remoteCredit[Peer(p)][r], wire[p][r], early[Peer(p)][r],
             localCredit[p][r], wire[Peer(p)][r])

\* No message of number 0 waits in a backlog: that number is the NOOP's.
BacklogNumbered == \A p \in Ends, r \in Rails : Numbered(backlog[p][r])

AccountsInv == (\A p \in Ends, r \in Rails : Account(p, r)) /\ BacklogNumbered

\* The accounts are what the property says.
LEMMA AccountsAre ==
    ASSUME Shape
    PROVE  (\A p \in Ends, r \in Rails : Account(p, r)) <=> CreditsMatchReceives
<1>1. ASSUME NEW p \in Ends, NEW r \in Rails
      PROVE  /\ Cardinality(Numbers(wire[p][r])) = Used(NumbersIn(wire[p][r]))
             /\ CreditIn(wire[p][r]) \in Nat /\ CreditIn(early[p][r]) \in Nat
             /\ remoteCredit[p][r] \in Nat /\ localCredit[p][r] \in Nat
             /\ Used(NumbersIn(wire[p][r])) \in Nat
  <2>1. wire[p][r] \in Seq(Packet) /\ early[p][r] \in Seq(Packet)
    BY RailQueueTypes
  <2>2. NumbersIn(wire[p][r]) \in Seq(Nat)
    BY RailQueueTypes
  <2>3. remoteCredit[p][r] \in Nat /\ localCredit[p][r] \in Nat
    BY DEF Shape, CountersShape, PerRail
  <2> QED BY <2>1, <2>2, <2>3, UsedIs, UsedFinite, CreditsOfPackets
<1>2. InitialPrepost - InitialCredits \in Int
  BY DepthsFit
<1>3. ASSUME NEW p \in Ends, NEW r \in Rails
      PROVE  Account(p, r) <=>
                preposts[p][r] = remoteCredit[Peer(p)][r] + OnTheWay(p, r) + localCredit[p][r]
                                 + Cardinality(Numbers(wire[Peer(p)][r]))
                                 + (InitialPrepost - InitialCredits)
  <2> DEFINE q == Peer(p)
             a == remoteCredit[q][r]
             b == CreditIn(wire[p][r])
             c == CreditIn(early[q][r])
             d == localCredit[p][r]
             f == Used(NumbersIn(wire[q][r]))
             g == InitialPrepost - InitialCredits
  <2>1. /\ a \in Nat /\ b \in Nat /\ c \in Nat /\ d \in Nat /\ f \in Nat /\ g \in Int
        /\ Cardinality(Numbers(wire[q][r])) = f
    BY <1>1, <1>2, TwoEnds
  <2>2. OnTheWay(p, r) = b + c
    BY DEF OnTheWay
  <2>3. Account(p, r) <=> preposts[p][r] = a + b + c + d + f + g
    BY DEF Account, Balanced
  <2> HIDE DEF a, b, c, d, f, g
  <2>4. a + b + c + d + f + g = a + (b + c) + d + f + g
    BY <2>1
  <2> QED BY <2>1, <2>2, <2>3, <2>4 DEF a, d, g, q
<1> QED BY <1>3 DEF CreditsMatchReceives

\* The account after a step.
LEMMA AccountNext ==
    \A p \in Ends, r \in Rails : Account(p, r)' <=>
        Balanced(preposts'[p][r], remoteCredit'[Peer(p)][r], wire'[p][r], early'[Peer(p)][r],
                 localCredit'[p][r], wire'[Peer(p)][r])
BY DEF Account, Balanced, CreditIn, Used, Messages, NumbersIn, InitialCredits, Peer

\* All terms of an account are numbers.
LEMMA AccountTypes ==
    ASSUME Shape, NEW p \in Ends, NEW r \in Rails
    PROVE  /\ preposts[p][r] \in Nat /\ remoteCredit[p][r] \in Nat /\ localCredit[p][r] \in Nat
           /\ wire[p][r] \in Seq(Packet) /\ early[p][r] \in Seq(Packet)
           /\ backlog[p][r] \in Seq(Nat)
           /\ NumbersIn(wire[p][r]) \in Seq(Nat)
           /\ CreditIn(wire[p][r]) \in Nat /\ CreditIn(early[p][r]) \in Nat
           /\ Used(NumbersIn(wire[p][r])) \in Nat
<1>1. /\ wire[p][r] \in Seq(Packet) /\ early[p][r] \in Seq(Packet)
      /\ NumbersIn(wire[p][r]) \in Seq(Nat) /\ backlog[p][r] \in Seq(Nat)
  BY RailQueueTypes
<1>2. preposts[p][r] \in Nat /\ remoteCredit[p][r] \in Nat /\ localCredit[p][r] \in Nat
  BY DEF Shape, CountersShape, PerRail
<1> QED BY <1>1, <1>2, UsedFinite, CreditsOfPackets

\* The messages on each wire are in order.
WiresRise == \A p \in Ends, r \in Rails : Rising(NumbersIn(wire[p][r]))

\* The order kept on the rails says so of the wires.
LEMMA OrderedWires == IInv /\ OrderInv => WiresRise
<1> SUFFICES ASSUME IInv, OrderInv, NEW p \in Ends, NEW r \in Rails
             PROVE  Rising(NumbersIn(wire[p][r]))
  BY DEF WiresRise
<1>1. /\ NumbersIn(early[Peer(p)][r]) \in Seq(Nat) /\ NumbersIn(wire[p][r]) \in Seq(Nat)
      /\ backlog[p][r] \in Seq(Nat)
  BY TwoEnds, RailQueueTypes DEF IInv
<1>2. Rising(RailOf(NumbersIn(early[Peer(p)][r]), NumbersIn(wire[p][r]), backlog[p][r]))
  BY SentIs DEF OrderInv, FlowOK
<1> QED BY <1>1, <1>2, RailParts DEF RailOf, Orderly

\* So they are after each step.
LEMMA OrderedWiresNext == IInv' /\ OrderInv' =>
    \A p \in Ends, r \in Rails : Rising(NumbersIn(wire'[p][r]))
<1>1. IInv' /\ OrderInv' => WiresRise'
  BY OrderedWires, PTL
<1> QED BY <1>1 DEF WiresRise, NumbersIn, Rising
-----------------------------------------------------------------------------
(* What the steps do to the accounts. *)

\* Parse_header moves credits from the packet to p and uses one for each message it
\* posts; the first of these takes the credits that p had to tell of.
HeaderEffect(p, r, m, lc, w, k) ==
    /\ k \in Nat /\ remoteCredit'[p][r] + k = remoteCredit[p][r] + m.vbufCredit
    /\ localCredit'[p][r] + CreditIn(wire'[p][r]) = lc + CreditIn(w[p][r])
    /\ Used(NumbersIn(wire'[p][r])) = Used(NumbersIn(w[p][r])) + k
    /\ Numbered(backlog'[p][r])
    /\ \A e \in Ends, s \in Rails : ~(e = p /\ s = r) =>
          /\ remoteCredit'[e][s] = remoteCredit[e][s] /\ localCredit'[e][s] = localCredit[e][s]
          /\ wire'[e][s] = w[e][s] /\ backlog'[e][s] = backlog[e][s]

\* Parse_header has this effect, for the number of messages it posts.
LEMMA ParseHeaderCredits ==
    ASSUME Shape, NEW p \in Ends, NEW r \in Rails, NEW m \in Packet, NEW lc \in Nat,
           NEW w \in PerRail(Seq(Packet)), Parse_header(p, r, m, lc, w),
           Numbered(backlog[p][r]), Rising(NumbersIn(wire'[p][r]))
    PROVE  \E k : HeaderEffect(p, r, m, lc, w, k)
<1> DEFINE rc == remoteCredit[p][r] + m.vbufCredit
           k  == Released(p, r, rc)
           b  == backlog[p][r]
           posted == [i \in 1..k |-> Header(b[i], IF i = 1 THEN lc ELSE 0, rc - i + 1)]
           c  == SubSeq(b, k + 1, Len(b))
           l  == IF k = 0 THEN lc ELSE 0
           x  == rc - k
<1>1. /\ backlog \in PerRail(Seq(Nat)) /\ b \in Seq(Nat) /\ w[p][r] \in Seq(Packet)
      /\ remoteCredit \in PerRail(Nat) /\ localCredit \in PerRail(Nat)
      /\ Len(b) \in Nat /\ \A i \in 1..Len(b) : b[i] \in Nat
  <2>1. /\ backlog \in PerRail(Seq(Nat)) /\ b \in Seq(Nat) /\ w[p][r] \in Seq(Packet)
        /\ remoteCredit \in PerRail(Nat) /\ localCredit \in PerRail(Nat)
    BY DEF Shape, QueuesShape, CountersShape, PerRail
  <2> HIDE DEF b
  <2> QED BY <2>1, LenProperties, ElementOfSeq
<1>2. rc \in Nat
  BY DEF Shape, CountersShape, PerRail, Packet
<1>3. k \in Nat /\ k <= rc /\ k <= Len(b)
  <2> HIDE DEF rc
  <2> QED BY <1>2, ReleasedBounds
<1>4. /\ backlog' = [backlog EXCEPT ![p][r] = c]
      /\ wire' = [w EXCEPT ![p][r] = w[p][r] \o posted]
      /\ remoteCredit' = [remoteCredit EXCEPT ![p][r] = x]
      /\ localCredit' = [localCredit EXCEPT ![p][r] = l]
  <2>1. /\ backlog' = [backlog EXCEPT ![p][r] = SubSeq(@, k + 1, Len(@))]
        /\ wire' = [w EXCEPT ![p][r] = @ \o posted]
        /\ remoteCredit' = [remoteCredit EXCEPT ![p][r] = x]
        /\ localCredit' = [localCredit EXCEPT ![p][r] = l]
    BY DEF Parse_header
  <2> QED BY <1>1, <2>1 DEF PerRail
<1> HIDE DEF rc, k
<1>5. posted \in Seq(Packet) /\ Len(posted) = k
      /\ \A i \in 1..k : posted[i].n = b[i] /\ posted[i].vbufCredit = IF i = 1 THEN lc ELSE 0
  <2>1. ASSUME NEW i \in 1..k
        PROVE  Header(b[i], IF i = 1 THEN lc ELSE 0, rc - i + 1) \in Packet
    <3>1. b[i] \in Nat /\ rc - i + 1 \in Nat
      BY <1>1, <1>2, <1>3
    <3>2. (IF i = 1 THEN lc ELSE 0) \in Nat
      OBVIOUS
    <3> QED BY <3>1, <3>2, HeaderIsPacket
  <2>2. posted \in Seq(Packet)
    BY <1>3, <2>1, IsASeq
  <2>3. Len(posted) = k
    BY <1>3
  <2> QED BY <2>2, <2>3 DEF Header
<1>6. x \in Nat /\ l \in Nat /\ x + k = rc
  BY <1>2, <1>3
<1> HIDE DEF posted, l, x, c, b
<1>7. wire'[p][r] = w[p][r] \o posted /\ backlog'[p][r] = c
      /\ remoteCredit'[p][r] = x /\ localCredit'[p][r] = l
  BY <1>1, <1>4 DEF PerRail
<1>8. ASSUME NEW e \in Ends, NEW s \in Rails, ~(e = p /\ s = r)
      PROVE  /\ remoteCredit'[e][s] = remoteCredit[e][s] /\ localCredit'[e][s] = localCredit[e][s]
             /\ wire'[e][s] = w[e][s] /\ backlog'[e][s] = backlog[e][s]
  BY <1>1, <1>4, <1>8 DEF PerRail
<1>9. l + CreditIn(wire'[p][r]) = lc + CreditIn(w[p][r])
  <2>1. /\ Credits(posted) \in Seq(Nat) /\ Len(Credits(posted)) = k
        /\ \A i \in 1..k : Credits(posted)[i] = posted[i].vbufCredit
        /\ CreditIn(posted) = SumFunction(Credits(posted))
    BY <1>5, CreditsOfPackets
  <2>2. OnlyFirst(Credits(posted), lc)
    BY <1>5, <2>1 DEF OnlyFirst
  <2>3. CreditIn(posted) = IF k = 0 THEN 0 ELSE lc
    BY <2>1, <2>2, SumFirstOnly
  <2>4. CreditIn(wire'[p][r]) = CreditIn(w[p][r]) + CreditIn(posted)
    BY <1>1, <1>5, <1>7, CreditBoth
  <2>5. CreditIn(w[p][r]) \in Nat
    BY <1>1, CreditsOfPackets
  <2> QED BY <2>3, <2>4, <2>5 DEF l
<1>10. Used(NumbersIn(wire'[p][r])) = Used(NumbersIn(w[p][r])) + k
  <2>1. NumbersIn(wire'[p][r]) = NumbersIn(w[p][r]) \o NumbersIn(posted)
    BY <1>1, <1>5, <1>7, NumbersOfBoth
  <2>2. /\ NumbersIn(posted) \in Seq(Nat) /\ Len(NumbersIn(posted)) = k
        /\ \A i \in 1..k : NumbersIn(posted)[i] = posted[i].n
        /\ NumbersIn(w[p][r]) \in Seq(Nat)
    BY <1>1, <1>5, NumbersOfPackets
  <2>3. Numbered(NumbersIn(posted))
    <3>1. \A i \in 1..k : b[i] # 0
      BY <1>1, <1>3 DEF Numbered, b
    <3> QED BY <1>5, <2>2, <3>1 DEF Numbered
  <2>4. PICK u : u = NumbersIn(w[p][r])
    OBVIOUS
  <2>5. PICK v : v = NumbersIn(posted)
    OBVIOUS
  <2>6. u \in Seq(Nat) /\ v \in Seq(Nat) /\ Rising(u \o v) /\ Numbered(v) /\ Len(v) = k
    BY <2>1, <2>2, <2>3, <2>4, <2>5
  <2>7. Rising(v)
    BY <2>6, RisingParts
  <2>8. Used(u \o v) = Used(u) + Used(v) /\ Used(v) = Len(v)
    BY <2>6, <2>7, UsedByBoth, UsedByAll
  <2> QED BY <2>1, <2>4, <2>5, <2>6, <2>8
<1>11. Numbered(c)
  <2>1. \A i \in 1..Len(b) : b[i] # 0
    BY DEF Numbered, b
  <2>2. /\ Len(c) = IF k + 1 <= Len(b) THEN Len(b) - (k + 1) + 1 ELSE 0
        /\ \A i \in 1..Len(c) : c[i] = b[(k + 1) + i - 1]
    BY <1>1, <1>3, SubSeqProperties DEF c
  <2>3. \A i \in 1..Len(c) : (k + 1) + i - 1 \in 1..Len(b)
    BY <1>1, <1>3, <2>2
  <2> QED BY <2>1, <2>2, <2>3 DEF Numbered
<1> QED BY <1>3, <1>6, <1>7, <1>8, <1>9, <1>10, <1>11 DEF HeaderEffect, rc

\* A message posted uses a receive and a credit, and takes along what p has to tell of.
LEMMA PostSendAccounts ==
    ASSUME IInv, OrderInv, AccountsInv, NEW p \in Ends, NEW r \in Rails, post_send(p, r)
    PROVE  AccountsInv'
<1> DEFINE q == Peer(p)
           n == issued[p] + 1
           h == Header(n, localCredit[p][r], remoteCredit[p][r])
           K == InitialPrepost - InitialCredits
<1>0. q \in Ends /\ q # p /\ Peer(q) = p /\ Ends = {p, q}
  BY TwoEnds
<1>1. Shape /\ CountersShape /\ QueuesShape /\ NumbersShape
  BY DEF IInv, Shape
<1>2. n \in Nat /\ n # 0
  BY <1>1 DEF NumbersShape
<1>3. IInv' /\ OrderInv'
  BY PostSendKeeps, PostSendOrder
<1>4. Rising(NumbersIn(wire'[p][r]))
  BY <1>3, OrderedWiresNext
<1>5. h \in Packet /\ h.n = n /\ h.vbufCredit = localCredit[p][r]
  BY <1>1, <1>2 DEF CountersShape, PerRail, Header, Packet
<1>6. UNCHANGED <<preposts, early>>
  BY DEF post_send
<1>7. K \in Int
  BY DepthsFit
<1> HIDE DEF q, n, h, K
<1>8. CASE MayPost(p, r)
  <2>1. /\ wire' = [wire EXCEPT ![p][r] = Append(@, h)]
        /\ localCredit' = [localCredit EXCEPT ![p][r] = 0]
        /\ remoteCredit' = [remoteCredit EXCEPT ![p][r] = @ - 1]
        /\ backlog' = backlog
    BY <1>8 DEF post_send, h, n
  <2>2. /\ wire'[p][r] = Append(wire[p][r], h)
        /\ localCredit'[p][r] = 0 /\ remoteCredit'[p][r] = remoteCredit[p][r] - 1
        /\ \A e \in Ends, s \in Rails : ~(e = p /\ s = r) =>
              /\ wire'[e][s] = wire[e][s] /\ localCredit'[e][s] = localCredit[e][s]
              /\ remoteCredit'[e][s] = remoteCredit[e][s]
    BY <1>1, <2>1 DEF CountersShape, QueuesShape, PerRail
  <2>3. CreditIn(wire'[p][r]) = CreditIn(wire[p][r]) + localCredit[p][r]
    BY <1>1, <1>5, <2>2, AccountTypes, CreditMore
  <2>4. Used(NumbersIn(wire'[p][r])) = Used(NumbersIn(wire[p][r])) + 1
    <3>1. NumbersIn(wire'[p][r]) = NumbersIn(wire[p][r]) \o <<n>>
      BY <1>1, <1>5, <2>2, AccountTypes, NumbersOfMore
    <3>2. PICK u : u = NumbersIn(wire[p][r])
      OBVIOUS
    <3>3. PICK v : v = <<n>>
      OBVIOUS
    <3>4. u \in Seq(Nat)
      BY <1>1, <3>2, AccountTypes
    <3>5. v \in Seq(Nat) /\ Len(v) = 1 /\ v[1] = n
      BY <1>2, <3>3
    <3>6. Numbered(v) /\ Rising(v)
      BY <1>2, <3>5 DEF Numbered, Rising
    <3>7. Rising(u \o v)
      BY <1>4, <3>1, <3>2, <3>3
    <3>8. Used(u \o v) = Used(u) + Used(v) /\ Used(v) = 1
      BY <3>4, <3>5, <3>6, <3>7, UsedByBoth, UsedByAll
    <3> QED BY <3>1, <3>2, <3>3, <3>8
  <2>5. ASSUME NEW e \in Ends, NEW s \in Rails PROVE Account(e, s)'
    <3>0. Account(e, s)
      BY DEF AccountsInv
    <3>1. CASE s # r
      BY <1>0, <1>6, <2>2, <3>0, <3>1, AccountNext, TwoEnds DEF Account
    <3>2. CASE s = r /\ e = p
      <4>1. Balanced(preposts[p][r], remoteCredit[q][r], wire[p][r], early[q][r],
                     localCredit[p][r], wire[q][r])
        BY <3>0, <3>2 DEF Account, q
      <4>2. Balanced(preposts[p][r], remoteCredit[q][r], wire'[p][r], early[q][r],
                     0, wire[q][r])
        <5>1. /\ remoteCredit[q][r] \in Nat /\ CreditIn(wire[p][r]) \in Nat
              /\ CreditIn(early[q][r]) \in Nat /\ localCredit[p][r] \in Nat
              /\ Used(NumbersIn(wire[q][r])) \in Nat
          BY <1>0, <1>1, AccountTypes
        <5> QED BY <1>7, <2>3, <4>1, <5>1 DEF Balanced, K
      <4> QED BY <1>0, <1>6, <2>2, <3>2, <4>2, AccountNext DEF q
    <3>3. CASE s = r /\ e = q
      <4>1. Balanced(preposts[q][r], remoteCredit[p][r], wire[q][r], early[p][r],
                     localCredit[q][r], wire[p][r])
        BY <1>0, <3>0, <3>3 DEF Account
      <4>2. Balanced(preposts[q][r], remoteCredit[p][r] - 1, wire[q][r], early[p][r],
                     localCredit[q][r], wire'[p][r])
        <5>1. /\ remoteCredit[p][r] \in Nat /\ CreditIn(wire[q][r]) \in Nat
              /\ CreditIn(early[p][r]) \in Nat /\ localCredit[q][r] \in Nat
              /\ Used(NumbersIn(wire[p][r])) \in Nat
          BY <1>0, <1>1, AccountTypes
        <5> QED BY <1>7, <2>4, <4>1, <5>1 DEF Balanced, K
      <4> QED BY <1>0, <1>6, <2>2, <3>3, <4>2, AccountNext
    <3> QED BY <1>0, <3>1, <3>2, <3>3
  <2>6. BacklogNumbered'
    BY <2>1 DEF AccountsInv, BacklogNumbered, Numbered
  <2> QED BY <2>5, <2>6 DEF AccountsInv
<1>9. CASE ~MayPost(p, r)
  <2>1. /\ backlog' = [backlog EXCEPT ![p][r] = Append(@, n)]
        /\ UNCHANGED <<wire, localCredit, remoteCredit>>
    BY <1>9 DEF post_send, n
  <2>2. ASSUME NEW e \in Ends, NEW s \in Rails PROVE Account(e, s)'
    BY <1>6, <2>1, AccountNext DEF AccountsInv, Account
  <2>3. ASSUME NEW e \in Ends, NEW s \in Rails PROVE Numbered(backlog'[e][s])
    <3>1. CASE e = p /\ s = r
      <4>1. PICK b : b = backlog[p][r]
        OBVIOUS
      <4>2. PICK a : a = Append(b, n)
        OBVIOUS
      <4>3. b \in Seq(Nat) /\ Numbered(b)
        BY <1>1, <4>1, AccountTypes DEF AccountsInv, BacklogNumbered
      <4>4. /\ Len(a) = Len(b) + 1 /\ Len(b) \in Nat /\ a[Len(b) + 1] = n
            /\ \A i \in 1..Len(b) : a[i] = b[i]
        BY <1>2, <4>2, <4>3, AppendProperties, LenProperties
      <4>5. Numbered(a)
        BY <1>2, <4>3, <4>4 DEF Numbered
      <4>6. backlog'[p][r] = a
        BY <1>1, <2>1, <4>1, <4>2 DEF QueuesShape, PerRail
      <4> QED BY <3>1, <4>5, <4>6
    <3>2. CASE ~(e = p /\ s = r)
      <4>1. backlog'[e][s] = backlog[e][s]
        BY <1>1, <2>1, <3>2 DEF QueuesShape, PerRail
      <4> QED BY <4>1 DEF AccountsInv, BacklogNumbered
    <3> QED BY <3>1, <3>2
  <2>4. BacklogNumbered'
    BY <2>3 DEF BacklogNumbered, Numbered
  <2> QED BY <2>2, <2>4 DEF AccountsInv
<1> QED BY <1>8, <1>9

\* An early message is handled: its credits come from the queue of early ones.
LEMMA WaitingMsgAccounts ==
    ASSUME IInv, OrderInv, AccountsInv, NEW p \in Ends, NEW r \in Rails, Waiting_msg(p, r)
    PROVE  AccountsInv'
<1> DEFINE q == Peer(p)
           m == Head(early[p][r])
           K == InitialPrepost - InitialCredits
<1>0. q \in Ends /\ q # p /\ Peer(q) = p /\ Ends = {p, q}
  BY TwoEnds
<1>1. Shape /\ CountersShape /\ QueuesShape /\ NumbersShape
  BY DEF IInv, Shape
<1>2. /\ early[p][r] # << >>
      /\ early' = [early EXCEPT ![p][r] = Tail(@)]
      /\ Parse_header(p, r, m, localCredit[p][r], wire)
      /\ preposts' = preposts
  BY DEF Waiting_msg, Handle, Ready
<1>3. /\ early[p][r] \in Seq(Packet) /\ wire \in PerRail(Seq(Packet))
      /\ early \in PerRail(Seq(Packet)) /\ localCredit[p][r] \in Nat
  BY <1>1 DEF CountersShape, QueuesShape, PerRail
<1>4. /\ m \in Packet /\ Tail(early[p][r]) \in Seq(Packet)
      /\ CreditIn(early[p][r]) = m.vbufCredit + CreditIn(Tail(early[p][r]))
  BY <1>2, <1>3, CreditLess
<1>5. Rising(NumbersIn(wire'[p][r]))
  BY WaitingMsgKeeps, WaitingMsgOrder, OrderedWiresNext
<1>6. K \in Int /\ m.vbufCredit \in Nat
  BY <1>4, DepthsFit DEF Packet
<1> HIDE DEF m, q, K
<1>7. PICK k : HeaderEffect(p, r, m, localCredit[p][r], wire, k)
  BY <1>1, <1>2, <1>3, <1>4, <1>5, ParseHeaderCredits DEF AccountsInv, BacklogNumbered
<1>8. /\ early'[q] = early[q] /\ early'[p][r] = Tail(early[p][r])
      /\ \A s \in Rails : s # r => early'[p][s] = early[p][s]
  BY <1>0, <1>2, <1>3 DEF PerRail
<1>9. ASSUME NEW e \in Ends, NEW s \in Rails PROVE Account(e, s)'
  <2>0. Account(e, s)
    BY DEF AccountsInv
  <2>1. CASE s # r
    <3>1. /\ remoteCredit'[Peer(e)][s] = remoteCredit[Peer(e)][s] /\ wire'[e][s] = wire[e][s]
          /\ localCredit'[e][s] = localCredit[e][s] /\ wire'[Peer(e)][s] = wire[Peer(e)][s]
          /\ early'[Peer(e)][s] = early[Peer(e)][s]
      BY <1>0, <1>7, <1>8, <2>1, TwoEnds DEF HeaderEffect
    <3> QED BY <1>2, <2>0, <3>1, AccountNext DEF Account
  <2>2. CASE s = r /\ e = p
    <3>1. Balanced(preposts[p][r], remoteCredit[q][r], wire[p][r], early[q][r],
                   localCredit[p][r], wire[q][r])
      BY <2>0, <2>2 DEF Account, q
    <3>2. /\ remoteCredit'[q][r] = remoteCredit[q][r] /\ wire'[q][r] = wire[q][r]
          /\ localCredit'[p][r] + CreditIn(wire'[p][r]) = localCredit[p][r] + CreditIn(wire[p][r])
      BY <1>0, <1>7 DEF HeaderEffect
    <3>3. Balanced(preposts[p][r], remoteCredit[q][r], wire'[p][r], early[q][r],
                   localCredit'[p][r], wire[q][r])
      <4>1. /\ remoteCredit[q][r] \in Nat /\ CreditIn(wire[p][r]) \in Nat
            /\ CreditIn(early[q][r]) \in Nat /\ localCredit[p][r] \in Nat
            /\ Used(NumbersIn(wire[q][r])) \in Nat
        BY <1>0, <1>1, AccountTypes
      <4>2. localCredit'[p][r] \in Nat /\ CreditIn(wire'[p][r]) \in Nat
        <5>1. localCredit' \in PerRail(Nat) /\ wire' \in PerRail(Seq(Packet))
          BY WaitingMsgKeeps DEF IInv, Shape, CountersShape, QueuesShape
        <5>2. localCredit'[p][r] \in Nat /\ wire'[p][r] \in Seq(Packet)
          BY <5>1 DEF PerRail
        <5> QED BY <5>2, CreditsOfPackets
      <4> QED BY <1>6, <3>1, <3>2, <4>1, <4>2 DEF Balanced, K
    <3> QED BY <1>0, <1>2, <1>8, <2>2, <3>2, <3>3, AccountNext DEF q
  <2>3. CASE s = r /\ e = q
    <3>1. Balanced(preposts[q][r], remoteCredit[p][r], wire[q][r], early[p][r],
                   localCredit[q][r], wire[p][r])
      BY <1>0, <2>0, <2>3 DEF Account
    <3>2. /\ wire'[q][r] = wire[q][r] /\ localCredit'[q][r] = localCredit[q][r]
          /\ remoteCredit'[p][r] + k = remoteCredit[p][r] + m.vbufCredit
          /\ Used(NumbersIn(wire'[p][r])) = Used(NumbersIn(wire[p][r])) + k /\ k \in Nat
      BY <1>0, <1>7 DEF HeaderEffect
    <3>3. Balanced(preposts[q][r], remoteCredit'[p][r], wire[q][r], Tail(early[p][r]),
                   localCredit[q][r], wire'[p][r])
      <4>1. /\ remoteCredit[p][r] \in Nat /\ CreditIn(wire[q][r]) \in Nat
            /\ CreditIn(early[p][r]) \in Nat /\ localCredit[q][r] \in Nat
            /\ Used(NumbersIn(wire[p][r])) \in Nat
        BY <1>0, <1>1, AccountTypes
      <4>2. remoteCredit'[p][r] \in Nat /\ CreditIn(Tail(early[p][r])) \in Nat
        <5>1. remoteCredit' \in PerRail(Nat)
          BY WaitingMsgKeeps DEF IInv, Shape, CountersShape
        <5> QED BY <1>4, <5>1, CreditsOfPackets DEF PerRail
      <4>3. preposts[q][r] = remoteCredit[p][r] + CreditIn(wire[q][r]) + CreditIn(early[p][r])
                             + localCredit[q][r] + Used(NumbersIn(wire[p][r])) + K
        BY <3>1 DEF Balanced, K
      <4>4. PICK R, R2, W, E, E2, L, U, U2, P, c :
               /\ R = remoteCredit[p][r] /\ R2 = remoteCredit'[p][r]
               /\ W = CreditIn(wire[q][r]) /\ L = localCredit[q][r]
               /\ E = CreditIn(early[p][r]) /\ E2 = CreditIn(Tail(early[p][r]))
               /\ U = Used(NumbersIn(wire[p][r])) /\ U2 = Used(NumbersIn(wire'[p][r]))
               /\ P = preposts[q][r] /\ c = m.vbufCredit
        OBVIOUS
      <4>5. R \in Nat /\ R2 \in Nat /\ W \in Nat /\ L \in Nat /\ E \in Nat /\ E2 \in Nat
            /\ U \in Nat /\ c \in Nat /\ k \in Nat
        BY ONLY <1>6, <3>2, <4>1, <4>2, <4>4
      <4>6. P = R + W + E + L + U + K /\ E = c + E2 /\ R2 + k = R + c /\ U2 = U + k
        BY ONLY <1>4, <3>2, <4>3, <4>4
      <4>7. P = R2 + W + E2 + L + U2 + K
        BY ONLY <1>6, <4>5, <4>6
      <4>8. preposts[q][r] = remoteCredit'[p][r] + CreditIn(wire[q][r])
                             + CreditIn(Tail(early[p][r])) + localCredit[q][r]
                             + Used(NumbersIn(wire'[p][r])) + K
        BY ONLY <4>4, <4>7
      <4> QED BY <4>8 DEF Balanced, K
    <3> QED BY <1>0, <1>2, <1>8, <2>3, <3>2, <3>3, AccountNext
  <2> QED BY <1>0, <2>1, <2>2, <2>3
<1>10. \A e \in Ends, s \in Rails : Numbered(backlog'[e][s])
  BY <1>7 DEF AccountsInv, BacklogNumbered, HeaderEffect
<1>11. BacklogNumbered'
  BY <1>10 DEF BacklogNumbered, Numbered
<1> QED BY <1>9, <1>11 DEF AccountsInv

\* A NOOP uses no credit.
LEMMA UsedByNoop ==
    ASSUME NEW s \in Seq(Nat)
    PROVE  Used(s \o <<0>>) = Used(s)
<1>1. Messages(s \o <<0>>) = Messages(s)
  BY OneMore
<1> QED BY <1>1 DEF Used

\* Cq_poll: the receives posted and the credits gained agree, a NOOP carries what it
\* tells of, and the credits of the packet are taken or queued with it.
LEMMA CqPollAccounts ==
    ASSUME IInv, OrderInv, AccountsInv, NEW p \in Ends, NEW r \in Rails, Cq_poll(p, r)
    PROVE  AccountsInv'
<1> DEFINE q == Peer(p)
           m == Head(wire[q][r])
           left == preposts[p][r] - 1
           posted == IF IsNoop(m) THEN left + 1 ELSE Reposted(left)
           lc == localCredit[p][r] + Gained(m, posted - left)
           taken == [wire EXCEPT ![q][r] = Tail(@)]
           tell == NoopNeeded(p, r, lc)
           rest == IF tell THEN 0 ELSE lc
           h == Header(0, lc, remoteCredit[p][r])
           told == [taken EXCEPT ![p][r] = Append(@, h)]
           v == IF tell THEN told ELSE taken
           u == IF IsNoop(m) THEN 0 ELSE 1
<1>0. q \in Ends /\ q # p /\ Peer(q) = p /\ Ends = {p, q}
  BY TwoEnds
<1>1. Shape /\ QueuesShape /\ CountersShape /\ NumbersShape /\ ReceiveQueueFits
  BY DEF IInv, Shape
<1>2. /\ wire[q][r] # << >> /\ preposts[p][r] > 0
      /\ preposts' = [preposts EXCEPT ![p][r] = posted]
      /\ \/ IsNoop(m) /\ Parse_header(p, r, m, rest, v) /\ UNCHANGED early
         \/ /\ m.n = received[p] + 1 /\ Parse_header(p, r, m, rest, v)
            /\ UNCHANGED early
         \/ /\ ~IsNoop(m) /\ m.n # received[p] + 1 /\ Queue(p, r, m, rest, v)
  BY DEF Cq_poll, Handle
<1>3. /\ wire[q][r] \in Seq(Packet) /\ wire[p][r] \in Seq(Packet)
      /\ preposts[p][r] \in Nat /\ preposts[p][r] <= RqSize
      /\ localCredit[p][r] \in Nat /\ remoteCredit[p][r] \in Nat
      /\ backlog \in PerRail(Seq(Nat)) /\ early \in PerRail(Seq(Packet))
      /\ wire \in PerRail(Seq(Packet))
  BY <1>0, <1>1 DEF CountersShape, QueuesShape, PerRail, ReceiveQueueFits
<1>4. m \in Packet /\ Tail(wire[q][r]) \in Seq(Packet)
  BY <1>2, <1>3, HeadTailProperties
<1> HIDE DEF q, m
<1>5. /\ rest \in Nat /\ h \in Packet /\ h.n = 0 /\ h.vbufCredit = lc /\ lc \in Nat /\ posted \in Nat
      /\ posted + localCredit[p][r] + u = preposts[p][r] + lc
      /\ rest + (IF tell THEN h.vbufCredit ELSE 0) = lc
  <2>1. left \in Nat /\ left <= RqSize /\ left + 1 \in Nat
    <3>1. \A k \in Nat : k > 0 /\ k <= RqSize =>
             k - 1 \in Nat /\ k - 1 <= RqSize /\ (k - 1) + 1 \in Nat
      BY DepthsFit
    <3> QED BY <1>2, <1>3, <3>1
  <2> HIDE DEF left
  <2>2. Reposted(left) \in Nat /\ Reposted(left) >= left
    BY <2>1, RepostedFits
  <2>3. posted - left \in Nat /\ posted \in Nat
    BY <2>1, <2>2
  <2>4. posted = IF IsNoop(m) THEN left + 1 ELSE Reposted(left)
    OBVIOUS
  <2> HIDE DEF posted
  <2>5. lc \in Nat
    BY <1>3, <2>3 DEF Gained
  <2>6. lc = localCredit[p][r] + Gained(m, posted - left) /\ u = IF IsNoop(m) THEN 0 ELSE 1
    OBVIOUS
  <2> HIDE DEF lc, u
  <2>7. posted + localCredit[p][r] + u = preposts[p][r] + lc
    <3>1. CASE IsNoop(m)
      <4>1. posted = left + 1 /\ lc = localCredit[p][r] + 0 /\ u = 0
        BY <2>4, <2>6, <3>1 DEF Gained
      <4> QED BY ONLY <1>3, <4>1 DEF left
    <3>2. CASE ~IsNoop(m)
      <4>1. lc = localCredit[p][r] + (posted - left) /\ u = 1
        BY <2>6, <3>2 DEF Gained
      <4> QED BY ONLY <1>3, <2>3, <4>1 DEF left
    <3> QED BY <3>1, <3>2
  <2> QED BY <1>3, <2>3, <2>5, <2>7, HeaderIsPacket DEF Header
<1> HIDE DEF rest, h, tell, lc, posted, u
<1>6. /\ taken \in PerRail(Seq(Packet))
      /\ \A a \in Ends, s \in Rails :
            taken[a][s] = IF a = q /\ s = r THEN Tail(wire[q][r]) ELSE wire[a][s]
  BY <1>0, <1>3, <1>4 DEF PerRail
<1> HIDE DEF taken
<1>7. /\ told \in PerRail(Seq(Packet))
      /\ \A a \in Ends, s \in Rails :
            told[a][s] = IF a = p /\ s = r THEN Append(taken[p][r], h) ELSE taken[a][s]
  <2> DEFINE x == Append(taken[p][r], h)
  <2>1. x \in Seq(Packet)
    <3>1. taken[p][r] \in Seq(Packet)
      BY <1>6 DEF PerRail
    <3> QED BY <1>5, <3>1, AppendProperties
  <2>2. told = [taken EXCEPT ![p][r] = x]
    OBVIOUS
  <2> HIDE DEF x, told
  <2>3. /\ told \in PerRail(Seq(Packet))
        /\ \A a \in Ends, s \in Rails : told[a][s] = IF a = p /\ s = r THEN x ELSE taken[a][s]
    BY <1>6, <2>1, <2>2 DEF PerRail
  <2> QED BY <2>3 DEF x
<1> HIDE DEF told
<1>8. /\ v \in PerRail(Seq(Packet)) /\ v[q][r] = Tail(wire[q][r])
      /\ v[p][r] = IF tell THEN Append(wire[p][r], h) ELSE wire[p][r]
      /\ \A a \in Ends, s \in Rails : s # r => v[a][s] = wire[a][s]
  <2>1. CASE tell
    <3>1. v = told
      BY <2>1
    <3> HIDE DEF v
    <3>2. told[q][r] = taken[q][r] /\ told[p][r] = Append(taken[p][r], h)
      BY <1>0, <1>7
    <3>3. taken[q][r] = Tail(wire[q][r]) /\ taken[p][r] = wire[p][r]
      BY <1>0, <1>6
    <3>4. \A a \in Ends, s \in Rails : s # r => told[a][s] = wire[a][s]
      BY <1>6, <1>7
    <3> QED BY <1>7, <2>1, <3>1, <3>2, <3>3, <3>4
  <2>2. CASE ~tell
    <3>1. v = taken
      BY <2>2
    <3> HIDE DEF v
    <3> QED BY <1>0, <1>6, <2>2, <3>1
  <2> QED BY <2>1, <2>2
<1> HIDE DEF v
<1>9. /\ rest + CreditIn(v[p][r]) = lc + CreditIn(wire[p][r])
      /\ Used(NumbersIn(v[p][r])) = Used(NumbersIn(wire[p][r]))
      /\ CreditIn(v[p][r]) \in Nat /\ CreditIn(wire[p][r]) \in Nat
  <2>1. CreditIn(wire[p][r]) \in Nat
    BY <1>3, CreditsOfPackets
  <2>2. CASE tell
    <3>1. v[p][r] = Append(wire[p][r], h) /\ rest + h.vbufCredit = lc
      BY <1>5, <1>8, <2>2
    <3>2. CreditIn(v[p][r]) = CreditIn(wire[p][r]) + h.vbufCredit
      BY <1>3, <1>5, <3>1, CreditMore
    <3>3. Used(NumbersIn(v[p][r])) = Used(NumbersIn(wire[p][r]))
      <4>1. NumbersIn(v[p][r]) = NumbersIn(wire[p][r]) \o <<0>>
        BY <1>3, <1>5, <3>1, NumbersOfMore
      <4>2. NumbersIn(wire[p][r]) \in Seq(Nat)
        BY <1>3, NumbersOfPackets
      <4> QED BY <4>1, <4>2, UsedByNoop
    <3> QED BY <1>5, <2>1, <3>1, <3>2, <3>3
  <2>3. CASE ~tell
    BY <1>5, <1>8, <2>1, <2>3
  <2> QED BY <2>2, <2>3
<1>10. /\ Used(NumbersIn(wire[q][r])) = Used(NumbersIn(Tail(wire[q][r]))) + u
       /\ CreditIn(wire[q][r]) = m.vbufCredit + CreditIn(Tail(wire[q][r]))
       /\ CreditIn(Tail(wire[q][r])) \in Nat /\ Used(NumbersIn(Tail(wire[q][r]))) \in Nat
       /\ m.vbufCredit \in Nat /\ u \in Nat
  <2>1. CreditIn(wire[q][r]) = m.vbufCredit + CreditIn(Tail(wire[q][r]))
    BY <1>2, <1>3, CreditLess DEF m
  <2>2. /\ NumbersIn(wire[q][r]) \in Seq(Nat) /\ NumbersIn(wire[q][r]) # << >>
        /\ Head(NumbersIn(wire[q][r])) = m.n
        /\ NumbersIn(Tail(wire[q][r])) = Tail(NumbersIn(wire[q][r]))
    BY <1>2, <1>3, NumbersOfPackets, NumbersOfTail DEF m
  <2>3. Rising(NumbersIn(wire[q][r]))
    BY <1>0, OrderedWires DEF WiresRise
  <2>4. Used(NumbersIn(wire[q][r])) = Used(NumbersIn(Tail(wire[q][r]))) + u
    BY <2>2, <2>3, UsedLess DEF u, IsNoop
  <2>5. Used(NumbersIn(Tail(wire[q][r]))) \in Nat
    BY <1>4, NumbersOfPackets, UsedFinite
  <2> QED BY <1>4, <2>1, <2>4, <2>5, CreditsOfPackets DEF Packet, u
<1>11. Rising(NumbersIn(wire'[p][r])) /\ Shape'
  BY CqPollKeeps, CqPollOrder, OrderedWiresNext DEF IInv
<1>12. ASSUME NEW a \in Ends, NEW s \in Rails
       PROVE  /\ ~(a = p /\ s = r) => /\ wire'[a][s] = v[a][s] /\ backlog'[a][s] = backlog[a][s]
                                       /\ remoteCredit'[a][s] = remoteCredit[a][s]
                                       /\ localCredit'[a][s] = localCredit[a][s]
                                       /\ early'[a][s] = early[a][s]
                                       /\ preposts'[a][s] = preposts[a][s]
              /\ Numbered(backlog'[a][s])
  <2>0. Numbered(backlog[a][s]) /\ Numbered(backlog[p][r])
    BY DEF AccountsInv, BacklogNumbered
  <2>1. ~(a = p /\ s = r) => preposts'[a][s] = preposts[a][s]
    BY <1>1, <1>2 DEF CountersShape, PerRail
  <2>2. CASE Parse_header(p, r, m, rest, v) /\ UNCHANGED early
    <3>1. PICK k : HeaderEffect(p, r, m, rest, v, k)
      BY <1>1, <1>4, <1>5, <1>8, <1>11, <2>0, <2>2, ParseHeaderCredits
    <3> QED BY <2>0, <2>1, <2>2, <3>1 DEF HeaderEffect
  <2>3. CASE Queue(p, r, m, rest, v)
    <3>1. /\ wire' = v /\ backlog' = backlog /\ remoteCredit' = remoteCredit
          /\ localCredit' = [localCredit EXCEPT ![p][r] = rest]
          /\ early' = [early EXCEPT ![p][r] = Append(@, m)]
      BY <2>3 DEF Queue
    <3>2. ~(a = p /\ s = r) => localCredit'[a][s] = localCredit[a][s] /\ early'[a][s] = early[a][s]
      BY <1>1, <3>1 DEF CountersShape, QueuesShape, PerRail
    <3> QED BY <2>0, <2>1, <3>1, <3>2
  <2> QED BY <1>2, <2>2, <2>3
<1>13. PICK k \in Nat :
          /\ remoteCredit'[p][r] + k + CreditIn(early'[p][r])
                = remoteCredit[p][r] + m.vbufCredit + CreditIn(early[p][r])
          /\ localCredit'[p][r] + CreditIn(wire'[p][r]) = rest + CreditIn(v[p][r])
          /\ Used(NumbersIn(wire'[p][r])) = Used(NumbersIn(wire[p][r])) + k
  <2>0. /\ early[p][r] \in Seq(Packet) /\ CreditIn(early[p][r]) \in Nat
        /\ remoteCredit'[p][r] \in Nat
    <3>1. remoteCredit' \in PerRail(Nat)
      BY <1>11 DEF Shape, CountersShape
    <3> QED BY <1>3, <3>1, CreditsOfPackets DEF PerRail
  <2>1. CASE Parse_header(p, r, m, rest, v) /\ UNCHANGED early
    <3>1. PICK k : HeaderEffect(p, r, m, rest, v, k)
      BY <1>1, <1>4, <1>5, <1>8, <1>11, <2>1, ParseHeaderCredits DEF AccountsInv, BacklogNumbered
    <3>2. /\ k \in Nat /\ remoteCredit'[p][r] + k = remoteCredit[p][r] + m.vbufCredit
          /\ localCredit'[p][r] + CreditIn(wire'[p][r]) = rest + CreditIn(v[p][r])
          /\ Used(NumbersIn(wire'[p][r])) = Used(NumbersIn(wire[p][r])) + k
      BY <1>9, <3>1 DEF HeaderEffect
    <3>3. early'[p][r] = early[p][r]
      BY <2>1
    <3> QED BY <3>2, <3>3
  <2>2. CASE Queue(p, r, m, rest, v)
    <3>1. /\ wire' = v /\ remoteCredit' = remoteCredit
          /\ localCredit'[p][r] = rest /\ early'[p][r] = Append(early[p][r], m)
      BY <1>1, <2>2 DEF Queue, CountersShape, QueuesShape, PerRail
    <3>2. CreditIn(early'[p][r]) = CreditIn(early[p][r]) + m.vbufCredit
      BY <1>4, <2>0, <3>1, CreditMore
    <3>3. Used(NumbersIn(wire[p][r])) \in Nat
      BY <1>1, AccountTypes
    <3>4. /\ remoteCredit'[p][r] + 0 + CreditIn(early'[p][r])
                = remoteCredit[p][r] + m.vbufCredit + CreditIn(early[p][r])
          /\ Used(NumbersIn(wire'[p][r])) = Used(NumbersIn(wire[p][r])) + 0
      BY <1>3, <1>9, <1>10, <2>0, <3>1, <3>2, <3>3
    <3> QED BY <3>1, <3>4
  <2> QED BY <1>2, <2>1, <2>2
<1>14. /\ preposts'[p][r] = posted /\ wire'[q][r] = Tail(wire[q][r])
       /\ remoteCredit'[q][r] = remoteCredit[q][r] /\ early'[q][r] = early[q][r]
       /\ localCredit'[q][r] = localCredit[q][r] /\ preposts'[q][r] = preposts[q][r]
  <2>1. preposts'[p][r] = posted
    BY <1>1, <1>2 DEF CountersShape, PerRail
  <2> QED BY <1>0, <1>8, <1>12, <2>1
<1>15. /\ localCredit'[p][r] \in Nat /\ CreditIn(wire'[p][r]) \in Nat
       /\ remoteCredit'[p][r] \in Nat /\ CreditIn(early'[p][r]) \in Nat
  <2>1. /\ localCredit' \in PerRail(Nat) /\ wire' \in PerRail(Seq(Packet))
        /\ remoteCredit' \in PerRail(Nat) /\ early' \in PerRail(Seq(Packet))
    BY <1>11 DEF Shape, CountersShape, QueuesShape
  <2>2. /\ localCredit'[p][r] \in Nat /\ wire'[p][r] \in Seq(Packet)
        /\ remoteCredit'[p][r] \in Nat /\ early'[p][r] \in Seq(Packet)
    BY <2>1 DEF PerRail
  <2> QED BY <2>2, CreditsOfPackets
<1>16. Account(p, r)'
  <2>1. Balanced(preposts[p][r], remoteCredit[q][r], wire[p][r], early[q][r],
                 localCredit[p][r], wire[q][r])
    BY DEF AccountsInv, Account, q
  <2>2. /\ remoteCredit[q][r] \in Nat /\ CreditIn(early[q][r]) \in Nat
        /\ preposts[p][r] \in Nat
    BY <1>0, <1>1, AccountTypes
  <2>3. PICK R, W, W2, E, L, L2, U, U2, P, V, K :
           /\ R = remoteCredit[q][r] /\ E = CreditIn(early[q][r])
           /\ W = CreditIn(wire[p][r]) /\ W2 = CreditIn(wire'[p][r]) /\ V = CreditIn(v[p][r])
           /\ L = localCredit[p][r] /\ L2 = localCredit'[p][r]
           /\ U = Used(NumbersIn(wire[q][r])) /\ U2 = Used(NumbersIn(Tail(wire[q][r])))
           /\ P = preposts[p][r] /\ K = InitialPrepost - InitialCredits
    OBVIOUS
  <2>4. /\ R \in Nat /\ E \in Nat /\ W \in Nat /\ W2 \in Nat /\ L \in Nat /\ L2 \in Nat /\ V \in Nat
        /\ U2 \in Nat /\ P \in Nat /\ rest \in Nat /\ lc \in Nat /\ posted \in Nat /\ u \in Nat
    BY ONLY <1>3, <1>5, <1>9, <1>10, <1>15, <2>2, <2>3
  <2>5. K \in Int
    BY <2>3, DepthsFit
  <2>6. /\ P = R + W + E + L + U + K /\ posted + L + u = P + lc /\ rest + V = lc + W
        /\ U = U2 + u /\ L2 + W2 = rest + V
    BY ONLY <1>5, <1>9, <1>10, <1>13, <2>1, <2>3 DEF Balanced
  <2>7. posted = R + W2 + E + L2 + U2 + K
    BY ONLY <2>4, <2>5, <2>6
  <2>8. Balanced(posted, remoteCredit[q][r], wire'[p][r], early[q][r], localCredit'[p][r],
                 Tail(wire[q][r]))
    BY ONLY <2>3, <2>7 DEF Balanced
  <2> QED BY <1>14, <2>8, AccountNext DEF q
<1>17. Account(q, r)'
  <2>1. Balanced(preposts[q][r], remoteCredit[p][r], wire[q][r], early[p][r],
                 localCredit[q][r], wire[p][r])
    BY <1>0 DEF AccountsInv, Account
  <2>2. /\ localCredit[q][r] \in Nat /\ preposts[q][r] \in Nat /\ CreditIn(early[p][r]) \in Nat
        /\ Used(NumbersIn(wire[p][r])) \in Nat
    BY <1>0, <1>1, AccountTypes
  <2>3. PICK R, R2, W, W2, E, E2, L, U, U2, P, c, K :
           /\ R = remoteCredit[p][r] /\ R2 = remoteCredit'[p][r]
           /\ W = CreditIn(wire[q][r]) /\ W2 = CreditIn(Tail(wire[q][r]))
           /\ E = CreditIn(early[p][r]) /\ E2 = CreditIn(early'[p][r])
           /\ L = localCredit[q][r] /\ c = m.vbufCredit
           /\ U = Used(NumbersIn(wire[p][r])) /\ U2 = Used(NumbersIn(wire'[p][r]))
           /\ P = preposts[q][r] /\ K = InitialPrepost - InitialCredits
    OBVIOUS
  <2>4. /\ R \in Nat /\ R2 \in Nat /\ W2 \in Nat /\ E \in Nat /\ E2 \in Nat /\ L \in Nat /\ U \in Nat
        /\ P \in Nat /\ c \in Nat /\ k \in Nat
    BY ONLY <1>3, <1>10, <1>13, <1>15, <2>2, <2>3
  <2>5. K \in Int
    BY <2>3, DepthsFit
  <2>6. /\ P = R + W + E + L + U + K /\ W = c + W2 /\ R2 + k + E2 = R + c + E /\ U2 = U + k
    BY ONLY <1>10, <1>13, <2>1, <2>3 DEF Balanced
  <2>7. P = R2 + W2 + E2 + L + U2 + K
    BY ONLY <2>4, <2>5, <2>6
  <2>8. Balanced(preposts[q][r], remoteCredit'[p][r], Tail(wire[q][r]), early'[p][r],
                 localCredit[q][r], wire'[p][r])
    BY ONLY <2>3, <2>7 DEF Balanced
  <2> QED BY <1>0, <1>14, <2>8, AccountNext
<1>18. ASSUME NEW a \in Ends, NEW s \in Rails, s # r PROVE Account(a, s)'
  <2>1. Account(a, s) /\ Peer(a) \in Ends
    BY TwoEnds DEF AccountsInv
  <2>2. \A x \in Ends : /\ wire'[x][s] = wire[x][s] /\ remoteCredit'[x][s] = remoteCredit[x][s]
                         /\ localCredit'[x][s] = localCredit[x][s]
                         /\ early'[x][s] = early[x][s] /\ preposts'[x][s] = preposts[x][s]
    BY <1>8, <1>12, <1>18
  <2> QED BY <2>1, <2>2, AccountNext DEF Account
<1>19. \A a \in Ends, s \in Rails : Account(a, s)'
  BY <1>0, <1>16, <1>17, <1>18
<1>20. BacklogNumbered'
  BY <1>12 DEF BacklogNumbered, Numbered
<1> QED BY <1>19, <1>20 DEF AccountsInv

\* At first all credits are with the peer, but those kept back for NOOPs.
LEMMA AccountsAtFirst == Init => AccountsInv
<1> SUFFICES ASSUME Init PROVE AccountsInv
  OBVIOUS
<1>1. PICK z : z = << >>
  OBVIOUS
<1>2. \A p \in Ends, r \in Rails :
         /\ preposts[p][r] = InitialPrepost /\ remoteCredit[Peer(p)][r] = InitialCredits
         /\ localCredit[p][r] = 0 /\ wire[p][r] = z /\ wire[Peer(p)][r] = z
         /\ early[Peer(p)][r] = z /\ backlog[p][r] = z
  BY <1>1, TwoEnds DEF Init, OnAll
<1>3. CreditIn(z) = 0 /\ Used(NumbersIn(z)) = 0
  <2>1. z \in Seq(Packet) /\ Len(z) = 0
    BY <1>1
  <2>2. Credits(z) \in Seq(Nat) /\ Len(Credits(z)) = 0 /\ CreditIn(z) = SumFunction(Credits(z))
    BY <2>1, CreditsOfPackets
  <2>3. NumbersIn(z) \in Seq(Nat) /\ Len(NumbersIn(z)) = 0
    BY <2>1, NumbersOfPackets
  <2>4. Credits(z) = << >> /\ CreditIn(z) = 0
    BY <2>2, SumEmpty, EmptySeq
  <2>5. Messages(NumbersIn(z)) = {}
    BY <2>3 DEF Messages
  <2>6. Used(NumbersIn(z)) = 0
    BY <2>5, FS_EmptySet DEF Used
  <2> QED BY <2>4, <2>6
<1>4. InitialPrepost = InitialCredits + 0 + 0 + 0 + 0 + (InitialPrepost - InitialCredits)
  BY DepthsFit
<1>5. \A p \in Ends, r \in Rails : Account(p, r)
  BY <1>2, <1>3, <1>4 DEF Account, Balanced
<1>6. BacklogNumbered
  BY <1>1, <1>2 DEF BacklogNumbered, Numbered
<1> QED BY <1>5, <1>6 DEF AccountsInv

\* Every step keeps the accounts.
LEMMA NextKeepsAccounts == IInv /\ OrderInv /\ AccountsInv /\ [Next]_vars => AccountsInv'
<1> SUFFICES ASSUME IInv, OrderInv, AccountsInv, [Next]_vars PROVE AccountsInv'
  OBVIOUS
<1>1. ASSUME NEW p \in Ends, NEW r \in Rails, post_send(p, r) PROVE AccountsInv'
  BY <1>1, PostSendAccounts
<1>2. ASSUME NEW p \in Ends, NEW r \in Rails, Cq_poll(p, r) PROVE AccountsInv'
  BY <1>2, CqPollAccounts
<1>3. ASSUME NEW p \in Ends, NEW r \in Rails, Waiting_msg(p, r) PROVE AccountsInv'
  BY <1>3, WaitingMsgAccounts
<1>4. CASE UNCHANGED vars
  <2>1. UNCHANGED <<remoteCredit, localCredit, preposts, backlog, wire, early>>
    BY <1>4 DEF vars, creditVars
  <2>2. ASSUME NEW p \in Ends, NEW r \in Rails PROVE Account(p, r)'
    <3>1. Account(p, r)
      BY DEF AccountsInv
    <3> QED BY <2>1, <3>1, AccountNext DEF Account
  <2>3. BacklogNumbered'
    BY <2>1 DEF AccountsInv, BacklogNumbered, Numbered
  <2> QED BY <2>2, <2>3 DEF AccountsInv
<1> QED BY <1>1, <1>2, <1>3, <1>4 DEF Next

\* All that is proved of the credits, for the theorems.
LEMMA AlwaysAccounts == Spec => [](IInv /\ OrderInv /\ AccountsInv)
<1>1. Init => OrderInv /\ AccountsInv
  BY OrderAtFirst, AccountsAtFirst
<1>2. IInv /\ OrderInv /\ AccountsInv /\ [Next]_vars => OrderInv' /\ AccountsInv'
  BY NextKeepsOrder, NextKeepsAccounts
<1> QED BY <1>1, <1>2, AlwaysIInv, PTL DEF Spec

\* Every receive posted is accounted for by one credit of the peer, wherever it is: no
\* credit is lost or made up by post_send, Parse_header, Backlog_send, NOOPs, or in the
\* queue of early messages, for any number of rails and any depths.
THEOREM CreditsAccountedFor == Spec => []CreditsMatchReceives
<1>1. IInv /\ OrderInv /\ AccountsInv => CreditsMatchReceives
  BY AccountsAre DEF IInv, AccountsInv
<1> QED BY <1>1, AlwaysAccounts, PTL
-----------------------------------------------------------------------------
(* The counters fit the bytes the code keeps them in. *)

Byte == 0..255

\* Bytes are natural numbers.
LEMMA BytesAreNumbers == Byte \subseteq Nat
BY DEF Byte

\* A packet whose header fits, and what the proof needs of the rest of the state.
SmallPacket == [n : Nat, vbufCredit : Nat, remoteCredit : Byte]
BytesInv ==
    /\ remoteCc \in PerRail(Byte)
    /\ wire \in PerRail(Seq(SmallPacket)) /\ early \in PerRail(Seq(SmallPacket))
    /\ idle \in [Ends -> BOOLEAN] /\ blocked \in [Ends -> BOOLEAN]

\* No counter of an account exceeds the receive queue, whose size fits a byte; nor do
\* the credits of p with those of a packet still to be handled.
LEMMA CountersFit ==
    ASSUME IInv, AccountsInv, NEW p \in Ends, NEW r \in Rails
    PROVE  /\ preposts[p][r] \in Byte /\ remoteCredit[p][r] \in Byte
           /\ localCredit[p][r] \in Byte
           /\ remoteCredit[p][r] + CreditIn(wire[Peer(p)][r]) \in Byte
           /\ remoteCredit[p][r] + CreditIn(early[p][r]) \in Byte
<1>1. Shape /\ Peer(p) \in Ends /\ Peer(Peer(p)) = p
  BY TwoEnds DEF IInv
<1>2. InitialPrepost - InitialCredits \in Nat /\ RqSize \in Nat /\ RqSize < 256
  BY DepthsFit, DepthAssumption DEF InitialCredits
<1>3. ASSUME NEW q \in Ends
      PROVE  /\ preposts[q][r] \in Byte /\ remoteCredit[Peer(q)][r] \in Byte
             /\ localCredit[q][r] \in Byte
             /\ remoteCredit[Peer(q)][r] + CreditIn(wire[q][r]) \in Byte
             /\ remoteCredit[Peer(q)][r] + CreditIn(early[Peer(q)][r]) \in Byte
  <2>1. Account(q, r) /\ preposts[q][r] <= RqSize /\ Peer(q) \in Ends
    BY TwoEnds DEF AccountsInv, IInv, ReceiveQueueFits
  <2>2. PICK P, R, W, E, L, U, K :
           /\ P = preposts[q][r] /\ R = remoteCredit[Peer(q)][r] /\ W = CreditIn(wire[q][r])
           /\ E = CreditIn(early[Peer(q)][r]) /\ L = localCredit[q][r]
           /\ U = Used(NumbersIn(wire[Peer(q)][r])) /\ K = InitialPrepost - InitialCredits
    OBVIOUS
  <2>3. P \in Nat /\ R \in Nat /\ W \in Nat /\ E \in Nat /\ L \in Nat /\ U \in Nat /\ K \in Nat
    BY <1>1, <1>2, <2>1, <2>2, AccountTypes
  <2>4. P = R + W + E + L + U + K /\ P <= RqSize
    BY ONLY <2>1, <2>2 DEF Account, Balanced
  <2>5. P \in 0..255 /\ R \in 0..255 /\ L \in 0..255 /\ R + W \in 0..255 /\ R + E \in 0..255
    BY ONLY <1>2, <2>3, <2>4
  <2> QED BY ONLY <2>2, <2>5 DEF Byte
<1> QED BY <1>1, <1>3

\* A header made of credits that fit is a small packet.
LEMMA SmallHeader ==
    ASSUME NEW n \in Nat, NEW lc \in Nat, NEW rc \in Byte
    PROVE  Header(n, lc, rc) \in SmallPacket
BY DEF Header, SmallPacket

\* The headers that Parse_header's caller posts fit when the credits with the packet's do.
LEMMA ParseHeaderBytes ==
    ASSUME Shape, NEW p \in Ends, NEW r \in Rails, NEW m \in SmallPacket, NEW lc \in Nat,
           NEW w \in PerRail(Seq(SmallPacket)), Parse_header(p, r, m, lc, w),
           remoteCc \in PerRail(Byte), remoteCredit[p][r] + m.vbufCredit \in Byte
    PROVE  remoteCc' \in PerRail(Byte) /\ wire' \in PerRail(Seq(SmallPacket))
<1> DEFINE rc == remoteCredit[p][r] + m.vbufCredit
           k  == Released(p, r, rc)
           posted == [i \in 1..k |->
                        Header(backlog[p][r][i], IF i = 1 THEN lc ELSE 0, rc - i + 1)]
<1>1. /\ remoteCc' = [remoteCc EXCEPT ![p][r] = m.remoteCredit]
      /\ wire' = [w EXCEPT ![p][r] = w[p][r] \o posted]
  <2>1. p \in DOMAIN w /\ r \in DOMAIN w[p]
    BY DEF PerRail
  <2> QED BY <2>1 DEF Parse_header
<1>2. m.remoteCredit \in Byte /\ rc \in Byte /\ w[p][r] \in Seq(SmallPacket)
      /\ backlog[p][r] \in Seq(Nat)
  BY DEF SmallPacket, PerRail, Shape, QueuesShape
<1>3. remoteCc' \in PerRail(Byte)
  BY <1>1, <1>2 DEF PerRail
<1> HIDE DEF rc
<1>4. rc \in Nat
  BY <1>2, BytesAreNumbers
<1>5. k \in Nat /\ k <= rc /\ k <= Len(backlog[p][r])
  BY <1>4, ReleasedBounds
<1> HIDE DEF k
<1>6. posted \in Seq(SmallPacket)
  <2>1. SUFFICES ASSUME NEW i \in 1..k
                 PROVE  Header(backlog[p][r][i], IF i = 1 THEN lc ELSE 0, rc - i + 1)
                           \in SmallPacket
    BY <1>5
  <2>2. i \in 1..Len(backlog[p][r])
    BY <1>2, <1>5, LenProperties
  <2>3. backlog[p][r][i] \in Nat
    BY <1>2, <2>2, ElementOfSeq
  <2>4. rc - i + 1 \in Byte
    BY ONLY <1>2, <1>4, <1>5, <2>1 DEF Byte
  <2>5. (IF i = 1 THEN lc ELSE 0) \in Nat
    OBVIOUS
  <2> QED BY <2>3, <2>4, <2>5, SmallHeader
<1> HIDE DEF posted
<1>7. w[p][r] \o posted \in Seq(SmallPacket)
  BY <1>2, <1>6, ConcatProperties
<1>8. wire' \in PerRail(Seq(SmallPacket))
  BY <1>1, <1>7, PerRailUpdate
<1> QED BY <1>3, <1>8

\* A sum fits when a greater one does.
LEMMA PartIsByte ==
    ASSUME NEW a \in Nat, NEW b \in Nat, NEW c \in Nat, a + (b + c) \in Byte
    PROVE  a + b \in Byte
BY DEF Byte

\* The credits that Cq_poll has to tell of are a number.
LEMMA CreditsToTell ==
    ASSUME IInv, NEW p \in Ends, NEW r \in Rails, NEW m, preposts[p][r] > 0
    PROVE  LET left == preposts[p][r] - 1
               posted == IF IsNoop(m) THEN left + 1 ELSE Reposted(left)
           IN  localCredit[p][r] + Gained(m, posted - left) \in Nat
<1> DEFINE left == preposts[p][r] - 1
           posted == IF IsNoop(m) THEN left + 1 ELSE Reposted(left)
<1>1. preposts[p][r] \in Nat /\ preposts[p][r] <= RqSize /\ localCredit[p][r] \in Nat
  BY DEF IInv, Shape, CountersShape, PerRail, ReceiveQueueFits
<1>2. left \in Nat /\ left <= RqSize
  <2>1. \A k \in Nat : k > 0 /\ k <= RqSize => k - 1 \in Nat /\ k - 1 <= RqSize
    BY DepthsFit
  <2> QED BY <1>1, <2>1
<1> HIDE DEF left
<1>3. posted - left \in Nat
  BY <1>2, RepostedFits
<1> HIDE DEF posted
<1>4. localCredit[p][r] + Gained(m, posted - left) \in Nat
  BY <1>1, <1>3 DEF Gained
<1> QED BY <1>4 DEF left, posted

\* post_send keeps the bytes: the header tells of credits that fit.
LEMMA PostSendBytes ==
    ASSUME IInv, AccountsInv, BytesInv, NEW p \in Ends, NEW r \in Rails, post_send(p, r)
    PROVE  BytesInv'
<1> DEFINE h == Header(issued[p] + 1, localCredit[p][r], remoteCredit[p][r])
<1>1. h \in SmallPacket
  <2>1. issued[p] + 1 \in Nat /\ localCredit[p][r] \in Nat
    BY DEF IInv, Shape, NumbersShape, CountersShape, PerRail
  <2> QED BY <2>1, CountersFit, SmallHeader
<1>2. UNCHANGED <<remoteCc, early, idle, blocked>>
      /\ (wire' = [wire EXCEPT ![p][r] = Append(@, h)] \/ wire' = wire)
  BY DEF post_send
<1> HIDE DEF h
<1>3. wire' \in PerRail(Seq(SmallPacket))
  <2>1. wire \in PerRail(Seq(SmallPacket))
    BY DEF BytesInv
  <2>2. [wire EXCEPT ![p][r] = Append(@, h)] \in PerRail(Seq(SmallPacket))
    BY <1>1, <2>1 DEF PerRail
  <2> QED BY <1>2, <2>1, <2>2
<1> QED BY <1>2, <1>3 DEF BytesInv

\* An early message is handled.
LEMMA WaitingMsgBytes ==
    ASSUME IInv, AccountsInv, BytesInv, NEW p \in Ends, NEW r \in Rails, Waiting_msg(p, r)
    PROVE  BytesInv'
<1> DEFINE m == Head(early[p][r])
<1>1. /\ early[p][r] # << >>
      /\ early' = [early EXCEPT ![p][r] = Tail(@)]
      /\ Parse_header(p, r, m, localCredit[p][r], wire)
      /\ idle' = [idle EXCEPT ![p] = TRUE] /\ blocked' = [blocked EXCEPT ![p] = FALSE]
  BY DEF Waiting_msg, Handle, Ready
<1>2. /\ early[p][r] \in Seq(Packet) /\ early[p][r] \in Seq(SmallPacket)
      /\ localCredit[p][r] \in Nat /\ remoteCredit[p][r] \in Nat /\ Shape
  BY DEF IInv, Shape, CountersShape, QueuesShape, BytesInv, PerRail
<1>3. m \in SmallPacket /\ Tail(early[p][r]) \in Seq(SmallPacket)
  BY <1>1, <1>2, HeadTailProperties
<1>4. remoteCredit[p][r] + m.vbufCredit \in Byte
  <2>1. /\ CreditIn(early[p][r]) = m.vbufCredit + CreditIn(Tail(early[p][r]))
        /\ CreditIn(Tail(early[p][r])) \in Nat
    BY <1>1, <1>2, CreditLess, CreditsOfPackets
  <2>2. m.vbufCredit \in Nat
    BY <1>3 DEF SmallPacket
  <2>3. remoteCredit[p][r] + CreditIn(early[p][r]) \in Byte
    BY CountersFit
  <2> QED BY <1>2, <2>1, <2>2, <2>3, PartIsByte
<1> HIDE DEF m
<1>5. remoteCc' \in PerRail(Byte) /\ wire' \in PerRail(Seq(SmallPacket))
  BY <1>1, <1>2, <1>3, <1>4, ParseHeaderBytes DEF BytesInv
<1>6. early' \in PerRail(Seq(SmallPacket))
  BY <1>1, <1>3 DEF BytesInv, PerRail
<1>7. idle' \in [Ends -> BOOLEAN] /\ blocked' \in [Ends -> BOOLEAN]
  BY <1>1 DEF BytesInv
<1> QED BY <1>5, <1>6, <1>7 DEF BytesInv

\* A packet is polled; what the NOOP and the messages released tell of fits.
LEMMA CqPollBytes ==
    ASSUME IInv, AccountsInv, BytesInv, NEW p \in Ends, NEW r \in Rails, Cq_poll(p, r)
    PROVE  BytesInv'
<1> DEFINE q == Peer(p)
           m == Head(wire[q][r])
           left == preposts[p][r] - 1
           posted == IF IsNoop(m) THEN left + 1 ELSE Reposted(left)
           lc == localCredit[p][r] + Gained(m, posted - left)
           taken == [wire EXCEPT ![q][r] = Tail(@)]
           tell == NoopNeeded(p, r, lc)
           rest == IF tell THEN 0 ELSE lc
           h == Header(0, lc, remoteCredit[p][r])
           v == IF tell THEN [taken EXCEPT ![p][r] = Append(@, h)] ELSE taken
<1>0. q \in Ends
  BY TwoEnds
<1>1. /\ wire[q][r] # << >> /\ preposts[p][r] > 0
      /\ \/ /\ idle' = [idle EXCEPT ![p] = TRUE] /\ Parse_header(p, r, m, rest, v)
            /\ blocked' = [blocked EXCEPT ![p] = FALSE] /\ early' = early
         \/ Queue(p, r, m, rest, v)
  BY DEF Cq_poll, Handle
<1>2. /\ wire[q][r] \in Seq(Packet) /\ wire[q][r] \in Seq(SmallPacket)
      /\ remoteCredit[p][r] \in Nat /\ Shape /\ wire \in PerRail(Seq(SmallPacket))
  BY <1>0 DEF IInv, Shape, CountersShape, QueuesShape, BytesInv, PerRail
<1>3. m \in SmallPacket /\ Tail(wire[q][r]) \in Seq(SmallPacket)
  BY <1>1, <1>2, HeadTailProperties
<1>4. remoteCredit[p][r] + m.vbufCredit \in Byte
  <2>1. /\ CreditIn(wire[q][r]) = m.vbufCredit + CreditIn(Tail(wire[q][r]))
        /\ CreditIn(Tail(wire[q][r])) \in Nat
    BY <1>1, <1>2, CreditLess, CreditsOfPackets
  <2>2. m.vbufCredit \in Nat
    BY <1>3 DEF SmallPacket
  <2>3. remoteCredit[p][r] + CreditIn(wire[q][r]) \in Byte
    BY CountersFit DEF q
  <2> QED BY <1>2, <2>1, <2>2, <2>3, PartIsByte
<1> HIDE DEF q, m
<1>5. lc \in Nat
  BY <1>1, CreditsToTell
<1> HIDE DEF lc
<1>6. h \in SmallPacket /\ rest \in Nat
  <2>1. h \in SmallPacket
    BY <1>5, CountersFit, SmallHeader
  <2> QED BY <1>5, <2>1
<1> HIDE DEF h, rest, tell
<1>7. taken \in PerRail(Seq(SmallPacket))
  BY <1>0, <1>2, <1>3 DEF PerRail
<1> HIDE DEF taken
<1>8. [taken EXCEPT ![p][r] = Append(@, h)] \in PerRail(Seq(SmallPacket))
  BY <1>6, <1>7 DEF PerRail
<1>9. v \in PerRail(Seq(SmallPacket))
  BY <1>7, <1>8
<1> HIDE DEF v
<1>10. CASE /\ idle' = [idle EXCEPT ![p] = TRUE] /\ Parse_header(p, r, m, rest, v)
            /\ blocked' = [blocked EXCEPT ![p] = FALSE] /\ early' = early
  <2>1. remoteCc' \in PerRail(Byte) /\ wire' \in PerRail(Seq(SmallPacket))
    BY <1>2, <1>3, <1>4, <1>6, <1>9, <1>10, ParseHeaderBytes DEF BytesInv
  <2>2. idle' \in [Ends -> BOOLEAN] /\ blocked' \in [Ends -> BOOLEAN]
    BY <1>10 DEF BytesInv
  <2> QED BY <1>10, <2>1, <2>2 DEF BytesInv
<1>11. CASE Queue(p, r, m, rest, v)
  <2>1. /\ early' = [early EXCEPT ![p][r] = Append(@, m)] /\ wire' = v
        /\ UNCHANGED <<remoteCc, idle>> /\ blocked' = [blocked EXCEPT ![p] = TRUE]
    BY <1>11 DEF Queue
  <2>2. early' \in PerRail(Seq(SmallPacket))
    BY <1>3, <2>1 DEF BytesInv, PerRail
  <2>3. blocked' \in [Ends -> BOOLEAN]
    BY <2>1 DEF BytesInv
  <2> QED BY <1>9, <2>1, <2>2, <2>3 DEF BytesInv
<1> QED BY <1>1, <1>10, <1>11

\* Every step keeps the bytes.
LEMMA NextKeepsBytes == IInv /\ AccountsInv /\ BytesInv /\ [Next]_vars => BytesInv'
<1> SUFFICES ASSUME IInv, AccountsInv, BytesInv, [Next]_vars PROVE BytesInv'
  OBVIOUS
<1>1. ASSUME NEW p \in Ends, NEW r \in Rails, post_send(p, r) PROVE BytesInv'
  BY <1>1, PostSendBytes
<1>2. ASSUME NEW p \in Ends, NEW r \in Rails, Cq_poll(p, r) PROVE BytesInv'
  BY <1>2, CqPollBytes
<1>3. ASSUME NEW p \in Ends, NEW r \in Rails, Waiting_msg(p, r) PROVE BytesInv'
  BY <1>3, WaitingMsgBytes
<1>4. CASE UNCHANGED vars
  BY <1>4 DEF vars, creditVars, BytesInv
<1> QED BY <1>1, <1>2, <1>3, <1>4 DEF Next

\* The counters are kept in bytes (uint8_t remote_credit, remote_cc, local_credit) and the
\* headers tell of them in bytes: none of them ever exceeds one, whatever the rails,
\* depths and messages, because the accounts of a rail are those of its receive queue.
THEOREM CountersAreBytes == Spec => []TypeOK
<1>1. Init => BytesInv
  <2> SUFFICES ASSUME Init PROVE BytesInv
    OBVIOUS
  <2>1. InitialCredits \in Byte
    BY DepthsFit, DepthAssumption DEF InitialCredits, Byte
  <2>2. PICK z \in Seq(SmallPacket) : z = << >>
    <3>1. << >> \in Seq(SmallPacket)
      OBVIOUS
    <3> QED BY <3>1
  <2>3. wire = OnAll(z) /\ early = OnAll(z) /\ remoteCc = OnAll(InitialCredits)
    BY <2>2 DEF Init
  <2>4. /\ wire \in PerRail(Seq(SmallPacket)) /\ early \in PerRail(Seq(SmallPacket))
        /\ remoteCc \in PerRail(Byte)
    BY <2>1, <2>2, <2>3 DEF OnAll, PerRail
  <2>5. idle \in [Ends -> BOOLEAN] /\ blocked \in [Ends -> BOOLEAN]
    BY DEF Init
  <2> QED BY <2>4, <2>5 DEF BytesInv
<1>2. IInv /\ AccountsInv /\ BytesInv /\ [Next]_vars => BytesInv'
  BY NextKeepsBytes
<1>3. IInv /\ AccountsInv /\ BytesInv => TypeOK
  <2> SUFFICES ASSUME IInv, AccountsInv, BytesInv PROVE TypeOK
    OBVIOUS
  <2>1. /\ NumbersShape /\ QueuesShape
        /\ remoteCredit \in PerRail(Nat) /\ localCredit \in PerRail(Nat)
        /\ preposts \in PerRail(Nat)
    BY DEF IInv, Shape, CountersShape
  <2>2. \A p \in Ends, r \in Rails : /\ preposts[p][r] \in Byte /\ remoteCredit[p][r] \in Byte
                                     /\ localCredit[p][r] \in Byte
    BY CountersFit
  <2>3. \A f \in PerRail(Nat) :
           (\A p \in Ends, r \in Rails : f[p][r] \in Byte) => f \in PerRail(Byte)
    BY DEF PerRail
  <2>4. /\ remoteCredit \in PerRail(Byte) /\ localCredit \in PerRail(Byte)
        /\ preposts \in PerRail(Byte)
    BY <2>1, <2>2, <2>3
  <2>5. Byte = 0..255
    BY DEF Byte
  <2> QED BY <2>1, <2>4, <2>5 DEF TypeOK, NumbersShape, QueuesShape, BytesInv
<1> QED BY <1>1, <1>2, <1>3, AlwaysAccounts, PTL DEF Spec
=============================================================================
