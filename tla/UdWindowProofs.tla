--------------------------- MODULE UdWindowProofs ---------------------------
(***************************************************************************)
(* Proofs about UdWindow, for all sizes of the windows, loads and numbers  *)
(* that satisfy its assumptions: only the first message can be taken for   *)
(* acknowledged before it is handled, no message waits for nothing, and    *)
(* the transport is a pair of FIFO channels.                               *)
(***************************************************************************)
EXTENDS UdWindow, FiniteSetTheorems, SequenceTheorems, TLAPS

\* The sequence number of the message after the first k.
Seqno(k) == k % SeqMod
\* The number d steps after r on the circle of sequence numbers.
Ahead(r, d) == IF r + d < SeqMod THEN r + d ELSE r + d - SeqMod
-----------------------------------------------------------------------------
(* Arithmetic of sequence numbers. *)

\* What an integer divided by M leaves, and the quotient, which the provers have to
\* be told of.
LEMMA Quotient ==
    ASSUME NEW M \in Nat \ {0}, NEW a \in Nat
    PROVE  a % M \in 0..(M - 1) /\ a \div M \in Int /\ a = (M * (a \div M)) + (a % M)
OBVIOUS

\* A number has only one rest.
LEMMA OneRest ==
    ASSUME NEW M \in Nat \ {0}, NEW q \in Int, NEW k \in Int,
           NEW r \in 0..(M - 1), NEW s \in 0..(M - 1), (M * q) + r = (M * k) + s
    PROVE  r = s
OBVIOUS

\* The next multiple of M is M further.
LEMMA NextMultiple ==
    ASSUME NEW M \in Nat \ {0}, NEW k \in Int
    PROVE  M * k \in Int /\ k + 1 \in Int /\ M * (k + 1) = (M * k) + M
OBVIOUS

\* The rest of a number below twice the divisor takes one subtraction at most.
LEMMA SmallRest ==
    ASSUME NEW M \in Nat \ {0}, NEW x \in Nat
    PROVE  /\ x < M => x % M = x
           /\ M <= x /\ x < 2 * M => x % M = x - M
OBVIOUS

\* The constants are numbers of which 2^16 is larger than a life time and a receive
\* window together.
LEMMA Sizes ==
    /\ SeqMod \in Nat \ {0} /\ SendWin \in Nat \ {0} /\ RecvWin \in Nat \ {0}
    /\ Lifetime \in Nat /\ SendWin < Lifetime /\ Lifetime + RecvWin + 1 < SeqMod
    /\ MaxAckPending \in Nat
BY WindowAssumption

\* A sequence number fits the field of the header.
LEMMA SeqnoType == \A a \in Nat : Seqno(a) \in Seqs
BY Sizes, Quotient DEF Seqno, Seqs

\* The sequence number of the message d after another is d further on the circle.
LEMMA SeqnoAhead ==
    ASSUME NEW a \in Nat, NEW d \in Nat, d < SeqMod
    PROVE  Seqno(a + d) = Ahead(Seqno(a), d)
<1> DEFINE M == SeqMod
           r == a % M
           k == a \div M
           s == (a + d) % M
           q == (a + d) \div M
           t == r + d - M
<1>0. M \in Nat \ {0} /\ d < M
  BY Sizes
<1> HIDE DEF M
<1>1. r \in 0..(M - 1) /\ k \in Int /\ a = (M * k) + r
  BY <1>0, Quotient
<1>2. s \in 0..(M - 1) /\ q \in Int /\ a + d = (M * q) + s
  <2>1. a + d \in Nat
    OBVIOUS
  <2> QED BY <1>0, <2>1, Quotient
<1> HIDE DEF r, k, s, q
<1>3. CASE r + d < M
  <2>1. (M * q) + s = (M * k) + (r + d)
    BY <1>0, <1>1, <1>2, NextMultiple
  <2>2. r + d \in 0..(M - 1)
    BY <1>0, <1>1, <1>3
  <2>3. s = r + d
    BY <1>0, <1>1, <1>2, <2>1, <2>2, OneRest
  <2> QED BY <2>3, <1>3 DEF r, s, M, Seqno, Ahead
<1>4. CASE ~(r + d < M)
  <2>1. (M * q) + s = (M * (k + 1)) + t
    BY <1>0, <1>1, <1>2, NextMultiple
  <2>2. t \in 0..(M - 1) /\ k + 1 \in Int
    BY <1>0, <1>1, <1>4
  <2> HIDE DEF t
  <2>3. s = t
    BY <1>0, <1>1, <1>2, <2>1, <2>2, OneRest
  <2> QED BY <2>3, <1>4 DEF r, s, t, M, Seqno, Ahead
<1> QED BY <1>3, <1>4

\* Before the numbers wrap a message's sequence number is its own.
LEMMA SmallSeqno == ASSUME NEW k \in Nat, k < SeqMod PROVE Seqno(k) = k
BY Sizes, SmallRest DEF Seqno

\* Incrementing a sequence number (seqnum_next_tosend++) yields that of the next
\* message.
LEMMA NextSeqno ==
    ASSUME NEW a \in Nat, NEW k \in Nat
    PROVE  (Seqno(a) + k) % SeqMod = Seqno(a + k)
<1> DEFINE M == SeqMod
           r == a % M
           q == a \div M
           s == (a + k) % M
           u == (a + k) \div M
           v == (r + k) % M
           w == (r + k) \div M
<1>0. M \in Nat \ {0}
  BY Sizes
<1> HIDE DEF M
<1>1. r \in 0..(M - 1) /\ q \in Int /\ a = (M * q) + r
  BY <1>0, Quotient
<1>2. s \in 0..(M - 1) /\ u \in Int /\ a + k = (M * u) + s
  <2>1. a + k \in Nat
    OBVIOUS
  <2> QED BY <1>0, <2>1, Quotient
<1>3. v \in 0..(M - 1) /\ w \in Int /\ r + k = (M * w) + v
  <2>1. r + k \in Nat
    BY <1>0, <1>1
  <2> HIDE DEF r
  <2> QED BY <1>0, <2>1, Quotient
<1> HIDE DEF r, q, s, u, v, w
<1>4. (M * u) + s = (M * (q + w)) + v
  <2>1. M * (q + w) = (M * q) + (M * w)
    BY <1>0, <1>1, <1>3
  <2>2. M * q \in Int /\ M * w \in Int /\ M * u \in Int
    BY <1>0, <1>1, <1>2, <1>3
  <2> QED BY <1>0, <1>1, <1>2, <1>3, <2>1, <2>2
<1>5. q + w \in Int
  BY <1>1, <1>3
<1>6. s = v
  BY <1>0, <1>2, <1>3, <1>4, <1>5, OneRest
<1> QED BY <1>6 DEF s, v, r, M, Seqno

\* Two messages less than 2^16 apart have different sequence numbers.
LEMMA SeqnoApart ==
    ASSUME NEW a \in Nat, NEW b \in Nat, Seqno(a) = Seqno(b), a < b + SeqMod, b < a + SeqMod
    PROVE  a = b
<1>1. Seqno(a) \in Seqs /\ Seqno(b) \in Seqs
  BY SeqnoType
<1>2. ASSUME NEW x \in Nat, NEW d \in Nat \ {0}, d < SeqMod
      PROVE  Seqno(x + d) # Seqno(x)
  <2>1. Seqno(x) \in 0..(SeqMod - 1)
    BY SeqnoType DEF Seqs
  <2>2. Seqno(x + d) = Ahead(Seqno(x), d)
    BY <1>2, SeqnoAhead
  <2> QED BY <2>1, <2>2, <1>2, Sizes DEF Ahead
<1>3. CASE a < b
  <2>1. (b - a) \in Nat \ {0} /\ b - a < SeqMod /\ b = a + (b - a)
    BY <1>3, Sizes
  <2> QED BY <2>1, <1>2
<1>4. CASE b < a
  <2>1. (a - b) \in Nat \ {0} /\ a - b < SeqMod /\ a = b + (a - b)
    BY <1>4, Sizes
  <2> QED BY <2>1, <1>2
<1> QED BY <1>3, <1>4
-----------------------------------------------------------------------------
(* The ranges on the circle, and sets that are prefixes. *)

\* INCL_BETWEEN does not count a number among those that come d to e steps after it:
\* an ack of message r releases none of the messages after r.
LEMMA NotBetween ==
    ASSUME NEW r \in Seqs, NEW d \in Nat \ {0}, NEW e \in Nat, d < e, e < SeqMod
    PROVE  ~InclBetween(r, Ahead(r, d), Ahead(r, e))
BY Sizes DEF Seqs, Ahead, InclBetween

\* The receive window, with its end taken modulo 2^16 - 1, contains no number that
\* the receiver passed less than a life time ago.
LEMMA OldNotInWindow ==
    ASSUME NEW b \in Seqs, NEW k \in Nat \ {0}, k <= Lifetime
    PROVE  ~InclBetween(b, Ahead(b, k), (Ahead(b, k) + RecvWin) % (SeqMod - 1))
<1> DEFINE r == Ahead(b, k)
           x == r + RecvWin
           e == x % (SeqMod - 1)
<1>1. r \in Seqs /\ (r = b + k \/ r = b + k - SeqMod)
  BY Sizes DEF Ahead, Seqs
<1>2. x \in Nat /\ SeqMod - 1 \in Nat \ {0} /\ x < 2 * (SeqMod - 1)
  BY <1>1, Sizes DEF Seqs
<1> HIDE DEF x
<1>3. \/ x < SeqMod - 1 /\ e = x
      \/ SeqMod - 1 <= x /\ e = x - (SeqMod - 1)
  BY <1>2, SmallRest
<1> HIDE DEF e, r
<1>4. ~InclBetween(b, r, e)
  BY <1>1, <1>2, <1>3, Sizes DEF x, InclBetween, Seqs
<1> QED BY <1>4 DEF r, e, x

\* Among numbers ahead of the next expected one recv_window_add walks past exactly
\* the smaller ones, on whichever side of the wrap they lie.
LEMMA WalksPastOlder ==
    ASSUME NEW r \in Seqs, NEW c \in Nat \ {0}, NEW h \in Nat \ {0}, NEW d \in Nat \ {0},
           h <= c, c < SeqMod, d < SeqMod
    PROVE  WalksPast(Ahead(r, c), Ahead(r, d), Ahead(r, h), r) <=> c < d
BY Sizes DEF Seqs, Ahead, WalksPast

\* A set of indices that contains all indices below each of its own is the range from
\* 1 to its cardinality.
LEMMA Prefix ==
    ASSUME NEW L \in Nat, NEW S \in SUBSET (1..L), \A k \in S : 1..k \subseteq S
    PROVE  Cardinality(S) \in 0..L /\ S = 1..Cardinality(S)
<1>1. IsFiniteSet(1..L) /\ Cardinality(1..L) = L
  BY FS_Interval
<1>2. IsFiniteSet(S) /\ Cardinality(S) <= L
  BY <1>1, FS_Subset
<1>3. Cardinality(S) \in Nat
  BY <1>2, FS_CardinalityType
<1> DEFINE K == Cardinality(S)
<1>4. S \subseteq 1..K
  <2> SUFFICES ASSUME NEW k \in S PROVE k \in 1..K
    OBVIOUS
  <2>1. 1..k \in SUBSET S /\ k \in Nat \ {0}
    OBVIOUS
  <2>2. Cardinality(1..k) <= K
    BY <2>1, <1>2, FS_Subset
  <2>3. Cardinality(1..k) = k
    BY <2>1, FS_Interval
  <2> HIDE DEF K
  <2> QED BY <2>1, <2>2, <2>3
<1>5. IsFiniteSet(1..K) /\ Cardinality(1..K) = K
  BY <1>3, FS_Interval
<1>6. 1..K = S
  BY <1>4, <1>5, FS_Subset
<1> QED BY <1>2, <1>3, <1>6
-----------------------------------------------------------------------------
(* The inductive invariant. *)

\* How many messages the ack of an end that has received k covers: k, but the
\* ack it carries before the first receipt is the number of the first message.
Covered(k) == IF k = 0 THEN 1 ELSE k

\* ack is what seqnum_next_toack holds after k messages.
Acknowledges(ack, k) == ack = Seqno(Covered(k) - 1)

\* The windows of p's sending half hold the messages from the first unacknowledged
\* one on, and the send window is full while others wait.
SenderOK(p) ==
    /\ Len(extWin[p]) <= issued[p]
    /\ Acked(p) >= 0
    /\ Len(sendWin[p]) <= SendWin + 1
    /\ nextSend[p] = Seqno(Posted(p))
    /\ \A i \in 1..Len(sendWin[p]) :
          sendWin[p][i] = [seq |-> Seqno(Acked(p) + i - 1), n |-> Acked(p) + i]
    /\ \A i \in 1..Len(extWin[p]) : extWin[p][i] = Posted(p) + i
    /\ extWin[p] # << >> => Len(sendWin[p]) >= SendWin

\* p counts what it has received, between what its acks cover and what the peer
\* has posted, and keeps in order what came early.
ReceiverOK(p) ==
    /\ Acked(Peer(p)) <= Covered(received[p]) /\ received[p] <= Posted(Peer(p))
    /\ nextRecv[p] = Seqno(received[p])
    /\ Acknowledges(nextAck[p], received[p])
    /\ \A i \in 1..Len(recvWin[p]) :
          /\ received[p] < recvWin[p][i].n /\ recvWin[p][i].n <= Posted(Peer(p))
          /\ recvWin[p][i].seq = Seqno(recvWin[p][i].n - 1)
          /\ \A j \in 1..(i - 1) : recvWin[p][j].n < recvWin[p][i].n

\* A datagram tells the truth, and is not older than it can be.
DatagramOK(m) ==
    /\ m.got <= received[Peer(m.dst)]
    /\ Posted(m.dst) <= Covered(m.got) + Lifetime
    /\ Acknowledges(m.ack, m.got)
    /\ m.n > 0 =>
          /\ m.n <= Posted(Peer(m.dst)) /\ Posted(Peer(m.dst)) < m.n + Lifetime
          /\ m.seq = Seqno(m.n - 1)

\* The inductive invariant.
IInv ==
    /\ TypeOK
    /\ \A p \in Ends : SenderOK(p) /\ ReceiverOK(p)
    /\ \A m \in net : DatagramOK(m)
-----------------------------------------------------------------------------
(* What the invariant says of the windows and of what arrives. *)

\* A connection has two ends.
LEMMA Two ==
    \A p \in Ends : Peer(p) \in Ends /\ Peer(p) # p /\ Peer(Peer(p)) = p /\ Ends = {p, Peer(p)}
BY DEF Ends, Peer

\* What the type invariant says of one end.
LEMMA EndTypes ==
    ASSUME TypeOK, NEW p \in Ends
    PROVE  /\ issued[p] \in Nat /\ received[p] \in Nat /\ ackPending[p] \in Nat
           /\ nextSend[p] \in Seqs /\ nextRecv[p] \in Seqs /\ nextAck[p] \in Seqs
           /\ sendWin[p] \in Seq(Vbuf) /\ Len(sendWin[p]) \in Nat
           /\ extWin[p] \in Seq(Nat) /\ Len(extWin[p]) \in Nat
           /\ recvWin[p] \in Seq(Vbuf) /\ Len(recvWin[p]) \in Nat
           /\ Posted(p) \in Int /\ Acked(p) \in Int
           /\ Posted(p) = issued[p] - Len(extWin[p])
           /\ Acked(p) = Posted(p) - Len(sendWin[p])
<1>1. /\ issued[p] \in Nat /\ received[p] \in Nat /\ ackPending[p] \in Nat
      /\ nextSend[p] \in Seqs /\ nextRecv[p] \in Seqs /\ nextAck[p] \in Seqs
      /\ sendWin[p] \in Seq(Vbuf) /\ extWin[p] \in Seq(Nat) /\ recvWin[p] \in Seq(Vbuf)
  BY DEF TypeOK
<1>2. Len(sendWin[p]) \in Nat /\ Len(extWin[p]) \in Nat /\ Len(recvWin[p]) \in Nat
  BY <1>1
<1> QED BY <1>1, <1>2 DEF Posted, Acked

\* What the type invariant says of one datagram.
LEMMA DatagramTypes ==
    ASSUME TypeOK, NEW m \in net
    PROVE  /\ m \in Datagram /\ m.dst \in Ends /\ m.seq \in Seqs /\ m.ack \in Seqs
           /\ m.n \in Nat /\ m.got \in Nat
BY DEF TypeOK, Datagram

\* What an ack covers grows with what its sender has received.
LEMMA CoveredGrows ==
    ASSUME NEW k \in Nat
    PROVE  /\ Covered(k) \in Nat \ {0} /\ k <= Covered(k) /\ Covered(k) <= k + 1
           /\ k # 0 => Covered(k) = k
           /\ \A j \in Nat : j <= k => Covered(j) <= Covered(k)
BY DEF Covered

\* An ack from a peer that had received got messages covers none of the messages
\* after those but the first: the core of the safety of process_ack.
LEMMA Covers ==
    ASSUME NEW A \in Nat, NEW L \in Nat, NEW i \in 1..L, NEW got \in Nat, NEW ack,
           Acknowledges(ack, got), got <= A + L, A + L <= Covered(got) + Lifetime,
           InclBetween(ack, Seqno(A + i - 1), Seqno(A + L))
    PROVE  i <= Covered(got) - A
<1> DEFINE c == Covered(got)
           g == c - 1
           d == A + i - c
           e == A + L - c + 1
<1>1. c \in Nat \ {0} /\ c <= A + L /\ A + L <= c + Lifetime /\ ack = Seqno(g)
  BY DEF Covered, Acknowledges
<1> HIDE DEF c
<1> SUFFICES ASSUME c < A + i
             PROVE  FALSE
  BY <1>1 DEF c
<1>2. g \in Nat /\ d \in Nat \ {0} /\ e \in Nat /\ d < e /\ e < SeqMod
      /\ A + i - 1 = g + d /\ A + L = g + e
  BY <1>1, Sizes
<1> HIDE DEF g, d, e
<1>3. d < SeqMod
  BY <1>2, Sizes
<1>4. Seqno(g + d) = Ahead(Seqno(g), d) /\ Seqno(g + e) = Ahead(Seqno(g), e)
  BY <1>2, <1>3, SeqnoAhead
<1>5. Seqno(g) \in Seqs
  BY <1>2, SeqnoType
<1>6. ~InclBetween(Seqno(g), Ahead(Seqno(g), d), Ahead(Seqno(g), e))
  BY <1>2, <1>5, NotBetween
<1> QED BY <1>1, <1>2, <1>4, <1>6

\* process_ack releases at most the messages the ack covers.
LEMMA ReleasesHandled ==
    ASSUME TypeOK, NEW p \in Ends, SenderOK(p), ReceiverOK(Peer(p)),
           NEW m \in net, m.dst = p, DatagramOK(m)
    PROVE  /\ Released(p, m.ack) \in 0..Len(sendWin[p])
           /\ Acked(p) + Released(p, m.ack) <= Covered(received[Peer(p)])
<1> DEFINE L == Len(sendWin[p])
           S == {k \in 1..L : \A i \in 1..k :
                    InclBetween(m.ack, sendWin[p][i].seq, nextSend[p])}
           R == Cardinality(S)
<1>1. L \in Nat /\ Acked(p) \in Nat /\ received[Peer(p)] \in Nat /\ Posted(p) = Acked(p) + L
      /\ Acked(p) <= Covered(received[Peer(p)]) /\ received[Peer(p)] <= Posted(p)
      /\ Covered(received[Peer(p)]) \in Nat
  <2>1. L \in Nat /\ Acked(p) \in Nat /\ received[Peer(p)] \in Nat /\ Posted(p) = Acked(p) + L
    BY EndTypes, Two DEF SenderOK
  <2>2. Acked(p) <= Covered(received[Peer(p)]) /\ received[Peer(p)] <= Posted(p)
    BY Two DEF ReceiverOK
  <2> QED BY <2>1, <2>2, CoveredGrows
<1>2. Released(p, m.ack) = R
  BY DEF Released
<1>3. R \in 0..L /\ S = 1..R
  <2>1. \A k \in S : 1..k \subseteq S
    BY <1>1
  <2>2. S \in SUBSET (1..L)
    OBVIOUS
  <2> HIDE DEF S, L
  <2> QED BY <1>1, <2>1, <2>2, Prefix
<1>4. CASE R = 0
  BY <1>1, <1>2, <1>3, <1>4
<1>5. CASE R # 0
  <2>1. R \in 1..L /\ R \in S
    BY <1>1, <1>3, <1>5
  <2>2. InclBetween(m.ack, sendWin[p][R].seq, nextSend[p])
    <3> HIDE DEF R, L
    <3> QED BY <2>1, <1>1
  <2>3. sendWin[p][R].seq = Seqno(Acked(p) + R - 1) /\ nextSend[p] = Seqno(Acked(p) + L)
    <3> HIDE DEF R, S
    <3>1. sendWin[p][R] = [seq |-> Seqno(Acked(p) + R - 1), n |-> Acked(p) + R]
      BY <2>1 DEF SenderOK
    <3>2. nextSend[p] = Seqno(Posted(p))
      BY DEF SenderOK
    <3> QED BY <3>1, <3>2, <1>1
  <2>4. m.got \in Nat /\ m.got <= received[Peer(p)] /\ Acknowledges(m.ack, m.got)
        /\ Posted(p) <= Covered(m.got) + Lifetime
    BY DatagramTypes DEF DatagramOK
  <2>5. R <= Covered(m.got) - Acked(p)
    <3> HIDE DEF R, L
    <3>1. m.got <= Acked(p) + L /\ Acked(p) + L <= Covered(m.got) + Lifetime
      BY <1>1, <2>4, Sizes
    <3> QED BY <1>1, <2>1, <2>2, <2>3, <2>4, <3>1, Covers
  <2>6. Covered(m.got) \in Nat /\ Covered(m.got) <= Covered(received[Peer(p)])
    BY <1>1, <2>4, CoveredGrows
  <2> HIDE DEF R, S
  <2> QED BY <1>1, <1>2, <1>3, <2>5, <2>6
<1> QED BY <1>4, <1>5

\* The messages between what is acknowledged and what is posted are no more than the
\* send window and the one of MustQueue's test with >.
LEMMA Window ==
    ASSUME TypeOK, NEW p \in Ends, SenderOK(p), ReceiverOK(Peer(p))
    PROVE  /\ Acked(p) \in Nat /\ Posted(p) \in Nat
           /\ Acked(p) <= Covered(received[Peer(p)]) /\ received[Peer(p)] <= Posted(p)
           /\ Posted(p) <= Acked(p) + SendWin + 1
           /\ Posted(p) <= Covered(received[Peer(p)]) + Lifetime
           /\ Posted(p) <= received[Peer(p)] + Lifetime + 1
           /\ Posted(p) <= issued[p]
<1>1. /\ Acked(p) \in Int /\ Posted(p) \in Int /\ Acked(p) = Posted(p) - Len(sendWin[p])
      /\ Len(sendWin[p]) \in Nat /\ Len(extWin[p]) \in Nat /\ issued[p] \in Nat
      /\ received[Peer(p)] \in Nat /\ Posted(p) = issued[p] - Len(extWin[p])
  BY EndTypes, Two
<1>2. Acked(p) >= 0 /\ Len(sendWin[p]) <= SendWin + 1
  BY DEF SenderOK
<1>3. Acked(p) <= Covered(received[Peer(p)]) /\ received[Peer(p)] <= Posted(p)
  BY Two DEF ReceiverOK
<1>4. Covered(received[Peer(p)]) \in Nat /\ Covered(received[Peer(p)]) <= received[Peer(p)] + 1
  BY <1>1, CoveredGrows
<1> DEFINE c == Covered(received[Peer(p)])
<1> HIDE DEF c
<1>5. /\ Acked(p) \in Nat /\ Posted(p) \in Nat /\ Posted(p) <= Acked(p) + SendWin + 1
      /\ Posted(p) <= c + Lifetime /\ Posted(p) <= received[Peer(p)] + Lifetime + 1
      /\ Posted(p) <= issued[p]
  <2> DEFINE A == Acked(p)
             P == Posted(p)
             L == Len(sendWin[p])
             E == Len(extWin[p])
             k == received[Peer(p)]
  <2>1. c \in Nat /\ c <= k + 1 /\ A <= c
    BY <1>3, <1>4 DEF c
  <2>2. /\ A \in Int /\ P \in Int /\ A = P - L /\ L \in Nat /\ E \in Nat /\ issued[p] \in Nat
        /\ k \in Nat /\ P = issued[p] - E /\ A >= 0 /\ L <= SendWin + 1
    BY <1>1, <1>2
  <2> HIDE DEF A, P, L, E, k
  <2>3. /\ A \in Nat /\ P \in Nat /\ P <= A + SendWin + 1
        /\ P <= c + Lifetime /\ P <= k + Lifetime + 1 /\ P <= issued[p]
    BY ONLY <2>1, <2>2, Sizes
  <2> QED BY <2>3 DEF A, P, k
<1> QED BY <1>3, <1>5 DEF c

\* An entry of the receive window is at most a life time ahead of what has been
\* received.
LEMMA WaitingEntries ==
    ASSUME TypeOK, NEW p \in Ends, SenderOK(Peer(p)), ReceiverOK(p), NEW i \in 1..Len(recvWin[p])
    PROVE  /\ recvWin[p][i].n \in Nat /\ received[p] < recvWin[p][i].n
           /\ recvWin[p][i].n <= Posted(Peer(p))
           /\ recvWin[p][i].n - 1 - received[p] < SeqMod
           /\ recvWin[p][i].seq = Seqno(recvWin[p][i].n - 1)
           /\ recvWin[p][i].seq = nextRecv[p] <=> recvWin[p][i].n = received[p] + 1
           /\ \A j \in 1..(i - 1) : recvWin[p][j].n < recvWin[p][i].n
<1>1. recvWin[p][i].n \in Nat /\ received[p] \in Nat
  <2>1. recvWin[p][i] \in Vbuf
    BY EndTypes
  <2> QED BY <2>1, EndTypes DEF Vbuf
<1>2. /\ received[p] < recvWin[p][i].n /\ recvWin[p][i].n <= Posted(Peer(p))
      /\ recvWin[p][i].seq = Seqno(recvWin[p][i].n - 1)
      /\ \A j \in 1..(i - 1) : recvWin[p][j].n < recvWin[p][i].n
      /\ nextRecv[p] = Seqno(received[p])
  BY DEF ReceiverOK
<1>3. Posted(Peer(p)) <= received[p] + Lifetime + 1 /\ Posted(Peer(p)) \in Nat
  BY Window, Two
<1> DEFINE k == recvWin[p][i].n - 1
<1>4. k \in Nat /\ k < received[p] + SeqMod /\ received[p] < k + SeqMod
  BY <1>1, <1>2, <1>3, Sizes
<1>5. Seqno(k) = Seqno(received[p]) => k = received[p]
  <2> HIDE DEF k
  <2> QED BY <1>1, <1>4, SeqnoApart
<1> QED BY <1>1, <1>2, <1>4, <1>5, Sizes

\* A datagram that is in the receive window is of a message that has not been
\* received.
LEMMA ArrivesAhead ==
    ASSUME TypeOK, NEW p \in Ends, SenderOK(Peer(p)), ReceiverOK(p),
           NEW m \in net, m.dst = p, DatagramOK(m), ~IsControl(m)
    PROVE  /\ m.n \in Nat \ {0} /\ m.n <= Posted(Peer(p)) /\ m.seq = Seqno(m.n - 1)
           /\ m.seq = nextRecv[p] => m.n = received[p] + 1
           /\ m.seq # nextRecv[p] /\ InRecvWindow(p, m.seq) => m.n > received[p] + 1
<1>1. /\ m.n \in Nat \ {0} /\ m.n <= Posted(Peer(p)) /\ m.seq = Seqno(m.n - 1)
      /\ Posted(Peer(p)) < m.n + Lifetime
  BY DatagramTypes DEF DatagramOK, IsControl
<1>2. /\ Posted(Peer(p)) <= received[p] + Lifetime + 1 /\ Posted(Peer(p)) \in Nat
      /\ received[p] \in Nat /\ received[p] <= Posted(Peer(p))
  BY Window, Two, EndTypes
<1>3. nextRecv[p] = Seqno(received[p])
  BY DEF ReceiverOK
<1> DEFINE k == m.n - 1
<1>4. k \in Nat /\ k < received[p] + SeqMod /\ received[p] < k + SeqMod /\ m.n = k + 1
  BY <1>1, <1>2, Sizes
<1>5. m.seq = Seqno(k)
  BY <1>1
<1> HIDE DEF k
<1>6. m.seq = nextRecv[p] <=> k = received[p]
  BY <1>2, <1>3, <1>4, <1>5, SeqnoApart
<1>7. ASSUME k < received[p]
      PROVE  ~InRecvWindow(p, m.seq)
  <2> DEFINE d == received[p] - k
  <2>1. d \in Nat \ {0} /\ d <= Lifetime /\ received[p] = k + d /\ d < SeqMod
    BY <1>1, <1>2, <1>4, <1>7, Sizes
  <2> HIDE DEF d
  <2>2. nextRecv[p] = Ahead(Seqno(k), d) /\ Seqno(k) \in Seqs
    BY <1>3, <1>4, <2>1, SeqnoAhead, SeqnoType
  <2> QED BY <1>5, <2>1, <2>2, OldNotInWindow DEF InRecvWindow
<1> QED BY <1>1, <1>2, <1>4, <1>6, <1>7

\* recv_window_add finds the place between the entries of older and of newer
\* messages.
LEMMA PlacedBetween ==
    ASSUME TypeOK, NEW p \in Ends, SenderOK(Peer(p)), ReceiverOK(p), ~Draining(p),
           NEW m \in net, m.dst = p, DatagramOK(m), ~IsControl(m), m.n > received[p] + 1
    PROVE  /\ Place(p, m.seq) \in 0..Len(recvWin[p])
           /\ \A i \in 1..Place(p, m.seq) : recvWin[p][i].n < m.n
           /\ \A i \in (Place(p, m.seq) + 1)..Len(recvWin[p]) : m.n <= recvWin[p][i].n
<1> DEFINE w == recvWin[p]
           L == Len(recvWin[p])
           r == nextRecv[p]
           off(i) == w[i].n - 1 - received[p]
           e == m.n - 1 - received[p]
           S == {k \in 1..L : \A i \in 1..k : WalksPast(w[i].seq, m.seq, w[1].seq, r)}
           K == Cardinality(S)
<1>0. L \in Nat /\ received[p] \in Nat /\ r \in Seqs /\ r = Seqno(received[p])
  BY EndTypes DEF ReceiverOK
<1>1. m.n \in Nat /\ m.n <= received[p] + Lifetime + 1 /\ m.seq = Seqno(m.n - 1)
  BY <1>0, ArrivesAhead, Window, Two, Sizes, EndTypes
<1>2. e \in Nat \ {0} /\ e < SeqMod /\ m.seq = Ahead(r, e)
  <2>1. e \in Nat \ {0} /\ e < SeqMod /\ m.n - 1 = received[p] + e
    BY <1>0, <1>1, Sizes
  <2> HIDE DEF e
  <2>2. Seqno(received[p] + e) = Ahead(Seqno(received[p]), e)
    BY <1>0, <2>1, SeqnoAhead
  <2> QED BY <1>0, <1>1, <2>1, <2>2
<1>3. \A i \in 1..L : /\ w[i].n \in Nat
                      /\ off(i) \in Nat \ {0} /\ off(i) < SeqMod /\ w[i].seq = Ahead(r, off(i))
                      /\ \A j \in 1..(i - 1) : w[j].n < w[i].n
  <2> SUFFICES ASSUME NEW i \in 1..L
               PROVE  /\ w[i].n \in Nat
                      /\ off(i) \in Nat \ {0} /\ off(i) < SeqMod /\ w[i].seq = Ahead(r, off(i))
                      /\ \A j \in 1..(i - 1) : w[j].n < w[i].n
    OBVIOUS
  <2>1. /\ w[i].n \in Nat /\ received[p] < w[i].n /\ off(i) < SeqMod
        /\ w[i].seq = Seqno(w[i].n - 1)
        /\ \A j \in 1..(i - 1) : w[j].n < w[i].n
    BY WaitingEntries
  <2>2. w[i].n # received[p] + 1
    <3>1. w # << >> /\ Head(w) = w[1] /\ 1 \in 1..L
      BY <1>0, EndTypes
    <3>2. w[1].seq # r
      BY <3>1 DEF Draining
    <3>3. w[1].n \in Nat /\ received[p] < w[1].n /\ w[1].n # received[p] + 1
      BY <3>1, <3>2, WaitingEntries
    <3>4. i = 1 \/ w[1].n < w[i].n
      BY <1>0, <2>1
    <3> QED BY <3>3, <3>4, <2>1, <1>0
  <2>3. off(i) \in Nat \ {0} /\ w[i].n - 1 = received[p] + off(i)
    BY <1>0, <2>1, <2>2
  <2>4. Seqno(received[p] + off(i)) = Ahead(Seqno(received[p]), off(i))
    <3> HIDE DEF off
    <3> QED BY <1>0, <2>1, <2>3, SeqnoAhead
  <2> QED BY <1>0, <2>1, <2>3, <2>4
<1>4. \A i \in 1..L : WalksPast(w[i].seq, m.seq, w[1].seq, r) <=> w[i].n < m.n
  <2> SUFFICES ASSUME NEW i \in 1..L
               PROVE  WalksPast(w[i].seq, m.seq, w[1].seq, r) <=> w[i].n < m.n
    OBVIOUS
  <2>1. 1 \in 1..L /\ (i = 1 \/ 1 \in 1..(i - 1))
    BY <1>0
  <2>2. w[1].n <= w[i].n /\ w[1].n \in Nat /\ w[i].n \in Nat
    BY <1>3, <2>1
  <2>3. off(1) <= off(i) /\ (off(i) < e <=> w[i].n < m.n)
    <3> HIDE DEF w, L, S, K, r
    <3> QED BY <1>0, <1>1, <2>2
  <2>4. /\ off(1) \in Nat \ {0} /\ w[1].seq = Ahead(r, off(1))
        /\ off(i) \in Nat \ {0} /\ w[i].seq = Ahead(r, off(i)) /\ off(i) < SeqMod
    BY <1>3, <2>1
  <2> HIDE DEF off, e, w, r
  <2> QED BY <1>0, <1>2, <2>3, <2>4, WalksPastOlder
<1>5. K \in 0..L /\ S = 1..K
  <2>1. \A k \in S : 1..k \subseteq S
    BY <1>0
  <2>2. S \in SUBSET (1..L)
    OBVIOUS
  <2> HIDE DEF S, L
  <2> QED BY <1>0, <2>1, <2>2, Prefix
<1>6. Place(p, m.seq) = K
  BY DEF Place
<1>7. \A k \in 1..L : k \in S <=> \A i \in 1..k : w[i].n < m.n
  <2> SUFFICES ASSUME NEW k \in 1..L
               PROVE  k \in S <=> \A i \in 1..k : w[i].n < m.n
    OBVIOUS
  <2>1. \A i \in 1..k : i \in 1..L
    BY <1>0
  <2> QED BY <1>4, <2>1
<1> HIDE DEF S, K, w, L
<1>8. \A i \in 1..K : w[i].n < m.n
  BY <1>0, <1>5, <1>7
<1>9. \A i \in (K + 1)..L : m.n <= w[i].n
  <2> SUFFICES ASSUME NEW i \in (K + 1)..L
               PROVE  m.n <= w[i].n
    OBVIOUS
  <2>1. K + 1 \in 1..L /\ K + 1 \notin S /\ i \in 1..L
    BY <1>0, <1>5
  <2>2. PICK j \in 1..(K + 1) : ~(w[j].n < m.n)
    BY <1>7, <2>1
  <2>3. j \in 1..L /\ (j = i \/ j \in 1..(i - 1))
    BY <1>0, <1>5, <2>1
  <2>4. w[j].n \in Nat /\ w[i].n \in Nat /\ (j = i \/ w[j].n < w[i].n)
    BY <1>3, <2>1, <2>3
  <2> QED BY <1>1, <2>2, <2>4
<1> QED BY <1>5, <1>6, <1>8, <1>9 DEF w, L

\* The sequence w with x after its first k entries.
Insert(w, k, x) == SubSeq(w, 1, k) \o <<x>> \o SubSeq(w, k + 1, Len(w))

\* v has the entries of w with x after the first k.
HasInserted(v, w, k, x) ==
    /\ Len(v) = Len(w) + 1
    /\ \A i \in 1..Len(v) : v[i] = IF i <= k THEN w[i] ELSE IF i = k + 1 THEN x ELSE w[i - 1]

\* The entries of a sequence after an insertion.
LEMMA Inserted ==
    ASSUME NEW T, NEW w \in Seq(T), NEW k \in 0..Len(w), NEW x \in T
    PROVE  Insert(w, k, x) \in Seq(T) /\ HasInserted(Insert(w, k, x), w, k, x)
<1> DEFINE a == SubSeq(w, 1, k)
           b == SubSeq(w, k + 1, Len(w))
           c == <<x>>
           ac == a \o c
           v == ac \o b
<1>0. Len(w) \in Nat /\ k \in Nat /\ k <= Len(w)
  OBVIOUS
<1>1. a \in Seq(T) /\ Len(a) = k /\ \A i \in 1..k : a[i] = w[i]
  OBVIOUS
<1>2. b \in Seq(T) /\ Len(b) = Len(w) - k /\ \A i \in 1..(Len(w) - k) : b[i] = w[k + i]
  OBVIOUS
<1>3. c \in Seq(T) /\ Len(c) = 1 /\ c[1] = x
  OBVIOUS
<1>4. v = Insert(w, k, x)
  BY DEF Insert
<1> HIDE DEF a, b, c
<1>5. /\ ac \in Seq(T) /\ Len(ac) = Len(a) + Len(c)
      /\ \A i \in 1..(Len(a) + Len(c)) : ac[i] = IF i <= Len(a) THEN a[i] ELSE c[i - Len(a)]
  BY <1>1, <1>3, ConcatProperties
<1> HIDE DEF ac
<1>6. /\ v \in Seq(T) /\ Len(v) = Len(ac) + Len(b)
      /\ \A i \in 1..(Len(ac) + Len(b)) : v[i] = IF i <= Len(ac) THEN ac[i] ELSE b[i - Len(ac)]
  <2>1. ac \in Seq(T) /\ b \in Seq(T)
    BY <1>2, <1>5
  <2> QED BY ONLY <2>1, ConcatProperties
<1> HIDE DEF v
<1>7. ASSUME NEW i \in 1..Len(v)
      PROVE  v[i] = IF i <= k THEN w[i] ELSE IF i = k + 1 THEN x ELSE w[i - 1]
  <2>1. CASE i <= k
    BY <1>0, <1>1, <1>2, <1>3, <1>5, <1>6, <2>1
  <2>2. CASE i = k + 1
    BY <1>0, <1>1, <1>2, <1>3, <1>5, <1>6, <2>2
  <2>3. CASE i > k + 1
    <3>1. /\ v[i] = b[i - (k + 1)] /\ i - (k + 1) \in 1..(Len(w) - k)
          /\ k + (i - (k + 1)) = i - 1
      BY <1>0, <1>1, <1>2, <1>3, <1>5, <1>6, <2>3
    <3> QED BY <1>0, <1>2, <2>3, <3>1
  <2> QED BY <1>0, <1>6, <2>1, <2>2, <2>3
<1>8. Len(v) = Len(w) + 1
  BY <1>0, <1>1, <1>2, <1>3, <1>5, <1>6
<1> QED BY <1>4, <1>6, <1>7, <1>8 DEF HasInserted

\* recv_window_add keeps the receive window sorted by message, none twice, and adds
\* no other message than the datagram's.
LEMMA AddKeepsOrder ==
    ASSUME TypeOK, NEW p \in Ends, SenderOK(Peer(p)), ReceiverOK(p), ~Draining(p),
           NEW m \in net, m.dst = p, DatagramOK(m), ~IsControl(m), m.n > received[p] + 1
    PROVE  LET v == recv_window_add(p, m)
           IN  /\ v \in Seq(Vbuf)
               /\ \A i \in 1..Len(v) :
                     /\ received[p] < v[i].n /\ v[i].n <= Posted(Peer(p))
                     /\ v[i].seq = Seqno(v[i].n - 1)
                     /\ \A j \in 1..(i - 1) : v[j].n < v[i].n
<1> DEFINE w == recvWin[p]
           k == Place(p, m.seq)
           x == [seq |-> m.seq, n |-> m.n]
           v == Insert(w, k, x)
<1>1. /\ w \in Seq(Vbuf) /\ Len(w) \in Nat /\ received[p] \in Nat
  BY EndTypes
<1>2. \A i \in 1..Len(w) : /\ w[i].n \in Nat /\ received[p] < w[i].n
                           /\ w[i].n <= Posted(Peer(p)) /\ w[i].seq = Seqno(w[i].n - 1)
                           /\ \A j \in 1..(i - 1) : w[j].n < w[i].n
  BY WaitingEntries
<1>3. /\ k \in 0..Len(w)
      /\ \A i \in 1..k : w[i].n < m.n
      /\ \A i \in (k + 1)..Len(w) : m.n <= w[i].n
  BY PlacedBetween
<1>4. /\ m.n \in Nat \ {0} /\ m.n <= Posted(Peer(p)) /\ m.seq = Seqno(m.n - 1)
      /\ m.n <= received[p] + Lifetime + 1 /\ Posted(Peer(p)) \in Nat
  BY ArrivesAhead, Window, Two, EndTypes, Sizes
<1>5. x \in Vbuf /\ x.n = m.n /\ x.seq = m.seq
  BY DatagramTypes DEF Vbuf
<1>6. CASE k < Len(w) /\ w[k + 1].seq = m.seq
  <2>1. recv_window_add(p, m) = w
    BY <1>6 DEF recv_window_add
  <2> HIDE DEF w
  <2> QED BY <1>1, <1>2, <2>1
<1>7. CASE ~(k < Len(w) /\ w[k + 1].seq = m.seq)
  <2>1. recv_window_add(p, m) = v
    BY <1>7 DEF recv_window_add, Insert
  <2>2. \A i \in (k + 1)..Len(w) : m.n < w[i].n
    <3> SUFFICES ASSUME NEW i \in (k + 1)..Len(w) PROVE m.n < w[i].n
      OBVIOUS
    <3> HIDE DEF w, k
    <3>1. k + 1 \in 1..Len(w) /\ (i = k + 1 \/ k + 1 \in 1..(i - 1)) /\ i \in 1..Len(w)
      BY <1>1, <1>3
    <3>2. w[k + 1].seq # m.seq
      BY <1>1, <1>3, <1>7, <3>1
    <3>3. w[k + 1].n # m.n
      BY <1>2, <1>4, <3>1, <3>2
    <3>4. m.n < w[k + 1].n
      BY <1>1, <1>2, <1>3, <1>4, <3>1, <3>3
    <3>5. i = k + 1 \/ w[k + 1].n < w[i].n
      BY <1>2, <3>1
    <3> QED BY <1>2, <1>4, <3>1, <3>4, <3>5
  <2> HIDE DEF w, k, x
  <2>3. /\ v \in Seq(Vbuf) /\ Len(v) = Len(w) + 1
        /\ \A i \in 1..Len(v) :
              v[i] = IF i <= k THEN w[i] ELSE IF i = k + 1 THEN x ELSE w[i - 1]
    <3>1. w \in Seq(Vbuf) /\ k \in 0..Len(w) /\ x \in Vbuf
      BY <1>1, <1>3, <1>5
    <3>2. v \in Seq(Vbuf) /\ HasInserted(v, w, k, x)
      BY ONLY <3>1, Inserted
    <3> HIDE DEF v
    <3> QED BY <3>2 DEF HasInserted
  <2> HIDE DEF v
  <2>4. ASSUME NEW i \in 1..Len(v)
        PROVE  /\ v[i].n \in Nat /\ received[p] < v[i].n /\ v[i].n <= Posted(Peer(p))
               /\ v[i].seq = Seqno(v[i].n - 1)
    <3>1. CASE i <= k
      <4>1. i \in 1..Len(w) /\ v[i] = w[i]
        BY <1>1, <1>3, <2>3, <3>1
      <4> QED BY <4>1, <1>2
    <3>2. CASE i = k + 1
      <4>1. v[i] = x
        BY <1>3, <2>3, <3>2
      <4> QED BY <4>1, <1>1, <1>4, <1>5
    <3>3. CASE i > k + 1
      <4>1. i - 1 \in 1..Len(w) /\ v[i] = w[i - 1]
        BY <1>1, <1>3, <2>3, <3>3
      <4> QED BY <4>1, <1>2
    <3> QED BY <1>3, <3>1, <3>2, <3>3
  <2>5. ASSUME NEW i \in 1..Len(v), NEW j \in 1..(i - 1)
        PROVE  v[j].n < v[i].n
    <3>0. j \in 1..Len(v) /\ j < i
      BY <1>1, <2>3
    <3>1. CASE i <= k
      <4>1. i \in 1..Len(w) /\ j \in 1..(i - 1) /\ v[i] = w[i] /\ v[j] = w[j]
        BY <1>1, <1>3, <2>3, <3>0, <3>1
      <4> QED BY <4>1, <1>2
    <3>2. CASE i = k + 1
      <4>1. v[i] = x /\ j \in 1..k /\ v[j] = w[j]
        BY <1>1, <1>3, <2>3, <3>0, <3>2
      <4> QED BY <4>1, <1>3, <1>5
    <3>3. CASE i > k + 1
      <4>1. i - 1 \in (k + 1)..Len(w) /\ i - 1 \in 1..Len(w) /\ v[i] = w[i - 1]
        BY <1>1, <1>3, <2>3, <3>3
      <4>2. CASE j <= k
        <5>1. j \in 1..((i - 1) - 1) /\ v[j] = w[j]
          BY <1>3, <2>3, <3>0, <3>3, <4>2
        <5> QED BY <4>1, <5>1, <1>2
      <4>3. CASE j = k + 1
        <5>1. v[j] = x
          BY <1>3, <2>3, <3>0, <4>3
        <5> QED BY <4>1, <5>1, <1>5, <2>2
      <4>4. CASE j > k + 1
        <5>1. j - 1 \in 1..((i - 1) - 1) /\ v[j] = w[j - 1]
          BY <1>3, <2>3, <3>0, <3>3, <4>4
        <5> QED BY <4>1, <5>1, <1>2
      <4> QED BY <1>3, <4>2, <4>3, <4>4
    <3> QED BY <1>3, <3>1, <3>2, <3>3
  <2> QED BY <2>1, <2>3, <2>4, <2>5
<1> QED BY <1>6, <1>7
-----------------------------------------------------------------------------
(* What does not change, and what is posted. *)

\* An end whose sending half does not change keeps its part of the invariant.
LEMMA SenderFrame ==
    ASSUME NEW p \in Ends, SenderOK(p),
           issued'[p] = issued[p], extWin'[p] = extWin[p], sendWin'[p] = sendWin[p],
           nextSend'[p] = nextSend[p]
    PROVE  SenderOK(p)' /\ Posted(p)' = Posted(p) /\ Acked(p)' = Acked(p)
BY DEF SenderOK, Posted, Acked

\* An end whose receiving half does not change keeps its part of the invariant when
\* its peer posts or releases messages within bounds.
LEMMA ReceiverFrame ==
    ASSUME TypeOK, NEW p \in Ends, ReceiverOK(p),
           received'[p] = received[p], nextRecv'[p] = nextRecv[p], nextAck'[p] = nextAck[p],
           recvWin'[p] = recvWin[p], Acked(Peer(p))' <= Covered(received[p]),
           Posted(Peer(p))' \in Nat, Posted(Peer(p)) <= Posted(Peer(p))'
    PROVE  ReceiverOK(p)'
<1>1. Posted(Peer(p)) \in Int /\ received[p] \in Nat
  BY EndTypes, Two
<1>2. \A i \in 1..Len(recvWin[p]) : recvWin[p][i].n \in Nat
  <2> SUFFICES ASSUME NEW i \in 1..Len(recvWin[p]) PROVE recvWin[p][i].n \in Nat
    OBVIOUS
  <2>1. recvWin[p][i] \in Vbuf
    BY EndTypes
  <2> QED BY <2>1 DEF Vbuf
<1> DEFINE P == Posted(Peer(p))
           Q == Posted(Peer(p))'
<1>3. received[p] <= Q /\ \A i \in 1..Len(recvWin[p]) : recvWin[p][i].n <= Q
  <2>1. received[p] <= P /\ \A i \in 1..Len(recvWin[p]) : recvWin[p][i].n <= P
    BY DEF ReceiverOK
  <2> HIDE DEF P, Q
  <2>2. P <= Q /\ Q \in Nat /\ P \in Int
    BY <1>1 DEF P, Q
  <2> QED BY <1>1, <1>2, <2>1, <2>2
<1>4. Acknowledges(nextAck[p], received[p]) /\ nextRecv[p] = Seqno(received[p])
      /\ \A i \in 1..Len(recvWin[p]) :
            /\ received[p] < recvWin[p][i].n /\ recvWin[p][i].seq = Seqno(recvWin[p][i].n - 1)
            /\ \A j \in 1..(i - 1) : recvWin[p][j].n < recvWin[p][i].n
  BY DEF ReceiverOK
<1> QED BY <1>3, <1>4 DEF ReceiverOK, Acknowledges, Covered, Seqno

\* A datagram stays within the invariant while it can live.
LEMMA OldDatagram ==
    ASSUME TypeOK, NEW m \in net, DatagramOK(m),
           \A p \in Ends : /\ received[p] <= received'[p] /\ received'[p] \in Nat
                           /\ Posted(p) <= Posted(p)' /\ Posted(p)' \in Int,
           Posted(m.dst)' <= Covered(m.got) + Lifetime,
           IsControl(m) \/ Posted(Peer(m.dst))' < m.n + Lifetime
    PROVE  DatagramOK(m)'
<1> DEFINE d == m.dst
           s == Peer(m.dst)
<1>1. d \in Ends /\ s \in Ends /\ m.got \in Nat /\ m.n \in Nat
  BY DatagramTypes, Two
<1>2. received[s] \in Nat /\ Posted(s) \in Int
  BY <1>1, EndTypes
<1>3. /\ m.got <= received[s] /\ Acknowledges(m.ack, m.got)
      /\ m.n > 0 => m.n <= Posted(s) /\ m.seq = Seqno(m.n - 1)
  BY DEF DatagramOK
<1>4. m.got <= received'[s]
  <2>1. received[s] <= received'[s] /\ received'[s] \in Nat
    BY <1>1
  <2> HIDE DEF s
  <2> QED BY <1>1, <1>2, <1>3, <2>1
<1>5. m.n > 0 => m.n <= Posted(s)' /\ Posted(s)' < m.n + Lifetime
  <2> DEFINE P == Posted(s)
             Q == Posted(s)'
  <2>1. P <= Q /\ Q \in Int /\ P \in Int /\ (m.n > 0 => m.n <= P)
    BY <1>1, <1>2, <1>3
  <2>2. m.n = 0 \/ Q < m.n + Lifetime
    BY DEF IsControl
  <2> HIDE DEF P, Q
  <2>3. m.n > 0 => m.n <= Q /\ Q < m.n + Lifetime
    BY <1>1, <2>1, <2>2
  <2> QED BY <2>3 DEF P, Q
<1> QED BY <1>3, <1>4, <1>5 DEF DatagramOK, Acknowledges, Covered, Seqno

\* A datagram that is posted satisfies the invariant: its ack is current, its message
\* in the send window.
LEMMA FreshDatagram ==
    ASSUME TypeOK, NEW p \in Ends, ReceiverOK(p), SenderOK(Peer(p)),
           received[p] <= received'[p], received'[p] \in Nat,
           Posted(Peer(p))' = Posted(Peer(p)),
           Acked(p)' \in Nat, Posted(p)' \in Nat, Posted(p)' <= Acked(p)' + SendWin + 1,
           NEW m \in Datagram,
           m.dst = Peer(p), m.got = received[p], m.ack = nextAck[p],
           \/ IsControl(m)
           \/ m.n \in (Acked(p)' + 1)..Posted(p)' /\ m.seq = Seqno(m.n - 1)
    PROVE  DatagramOK(m)'
<1>1. Peer(m.dst) = p /\ m.dst \in Ends /\ m.n \in Nat /\ m.got \in Nat
  BY Two DEF Datagram
<1>2. m.got <= received'[p]
  OBVIOUS
<1>3. Posted(m.dst)' <= Covered(m.got) + Lifetime
  <2>1. Posted(Peer(p)) <= Covered(received[p]) + Lifetime
    BY Two, Window
  <2> QED BY <2>1
<1>4. Acknowledges(m.ack, m.got)
  BY DEF ReceiverOK
<1>5. m.n > 0 => /\ m.n <= Posted(p)' /\ Posted(p)' < m.n + Lifetime
                 /\ m.seq = Seqno(m.n - 1)
  <2> DEFINE P == Posted(p)'
             A == Acked(p)'
  <2>1. A \in Nat /\ P \in Nat /\ P <= A + SendWin + 1
    OBVIOUS
  <2>2. m.n = 0 \/ (m.n \in (A + 1)..P /\ m.seq = Seqno(m.n - 1))
    BY DEF IsControl
  <2> HIDE DEF P, A
  <2>3. m.n > 0 => m.n <= P /\ P < m.n + Lifetime /\ m.seq = Seqno(m.n - 1)
    BY <1>1, <2>1, <2>2, Sizes
  <2> QED BY <2>3 DEF P
<1> QED BY <1>1, <1>2, <1>3, <1>4, <1>5 DEF DatagramOK, Acknowledges, Covered, Seqno

\* flush_ext_window numbers the messages it posts consecutively.
LEMMA Posting ==
    ASSUME TypeOK, NEW p \in Ends, SenderOK(p), NEW f \in 0..Len(extWin[p])
    PROVE  LET new == Numbered(p, SubSeq(extWin[p], 1, f))
           IN  /\ new \in Seq(Vbuf) /\ Len(new) = f
               /\ \A i \in 1..f : new[i] = [seq |-> Seqno(Posted(p) + i - 1), n |-> Posted(p) + i]
<1> DEFINE ns == SubSeq(extWin[p], 1, f)
           new == Numbered(p, ns)
<1>1. extWin[p] \in Seq(Nat) /\ Len(extWin[p]) \in Nat /\ Posted(p) \in Nat
  BY EndTypes DEF SenderOK
<1>2. Len(ns) = f /\ \A i \in 1..f : ns[i] = extWin[p][i]
  BY <1>1
<1> HIDE DEF ns
<1>3. \A i \in 1..f : ns[i] = Posted(p) + i
  <2>1. \A i \in 1..Len(extWin[p]) : extWin[p][i] = Posted(p) + i
    BY DEF SenderOK
  <2>2. \A i \in 1..f : i \in 1..Len(extWin[p])
    BY <1>1
  <2> QED BY <1>2, <2>1, <2>2
<1>4. nextSend[p] = Seqno(Posted(p)) /\ Seqno(Posted(p)) \in Nat
  BY <1>1, SeqnoType DEF SenderOK, Seqs
<1>5. ASSUME NEW i \in 1..f
      PROVE  (nextSend[p] + i - 1) % SeqMod = Seqno(Posted(p) + i - 1)
  <2>1. i - 1 \in Nat /\ nextSend[p] + i - 1 = Seqno(Posted(p)) + (i - 1)
        /\ Posted(p) + i - 1 = Posted(p) + (i - 1)
    BY <1>1, <1>4
  <2> QED BY <1>1, <2>1, NextSeqno
<1>6. new = [i \in 1..f |-> [seq |-> Seqno(Posted(p) + i - 1), n |-> Posted(p) + i]]
  BY <1>2, <1>3, <1>5 DEF Numbered
<1>7. \A i \in 1..f : [seq |-> Seqno(Posted(p) + i - 1), n |-> Posted(p) + i] \in Vbuf
  <2> SUFFICES ASSUME NEW i \in 1..f
               PROVE  [seq |-> Seqno(Posted(p) + i - 1), n |-> Posted(p) + i] \in Vbuf
    OBVIOUS
  <2>1. Posted(p) + i - 1 \in Nat /\ Posted(p) + i \in Nat
    BY <1>1
  <2>2. Seqno(Posted(p) + i - 1) \in Seqs
    BY <2>1, SeqnoType
  <2> QED BY <2>1, <2>2 DEF Vbuf
<1> HIDE DEF new
<1>8. new \in Seq(Vbuf) /\ Len(new) = f
  BY <1>6, <1>7
<1> QED BY <1>6, <1>8 DEF new, ns

\* The datagrams of flush_ext_window are of as many different messages, in the
\* numbers that follow.
LEMMA PostedDatagrams ==
    ASSUME TypeOK, NEW p \in Ends, SenderOK(p), NEW f \in 0..Len(extWin[p]), NEW out,
           out = {Data(p, Numbered(p, SubSeq(extWin[p], 1, f))[i]) : i \in 1..f}
    PROVE  /\ Cardinality(out) = f
           /\ \A m \in out : /\ m \in Datagram /\ m.dst = Peer(p)
                             /\ m.got = received[p] /\ m.ack = nextAck[p]
                             /\ m.n \in (Posted(p) + 1)..(Posted(p) + f)
                             /\ m.seq = Seqno(m.n - 1)
<1> DEFINE new == Numbered(p, SubSeq(extWin[p], 1, f))
           dg(i) == Data(p, new[i])
<1>1. Posted(p) \in Nat /\ f \in Nat /\ received[p] \in Nat /\ nextAck[p] \in Seqs
  BY EndTypes DEF SenderOK
<1>2. \A i \in 1..f : new[i] = [seq |-> Seqno(Posted(p) + i - 1), n |-> Posted(p) + i]
  BY Posting
<1> HIDE DEF new
<1>3. \A i \in 1..f : dg(i) = [dst |-> Peer(p), seq |-> Seqno(Posted(p) + i - 1),
                               ack |-> nextAck[p], n |-> Posted(p) + i, got |-> received[p]]
  <2> SUFFICES ASSUME NEW i \in 1..f
               PROVE  dg(i) = [dst |-> Peer(p), seq |-> Seqno(Posted(p) + i - 1),
                               ack |-> nextAck[p], n |-> Posted(p) + i, got |-> received[p]]
    OBVIOUS
  <2> DEFINE v == new[i]
  <2>1. v = [seq |-> Seqno(Posted(p) + i - 1), n |-> Posted(p) + i]
    BY <1>2
  <2> HIDE DEF v
  <2>2. v.seq = Seqno(Posted(p) + i - 1) /\ v.n = Posted(p) + i
    BY <2>1
  <2> QED BY <2>2 DEF Data, v
<1>4. out = {dg(i) : i \in 1..f}
  BY DEF new
<1> HIDE DEF dg
<1>5. Cardinality(out) = f
  <2> DEFINE g == [i \in 1..f |-> dg(i)]
  <2>1. g \in Bijection(1..f, out)
    <3>1. g \in [1..f -> out]
      BY <1>4
    <3>2. \A a, b \in 1..f : g[a] = g[b] => a = b
      <4> SUFFICES ASSUME NEW a \in 1..f, NEW b \in 1..f, g[a] = g[b] PROVE a = b
        OBVIOUS
      <4>1. dg(a).n = dg(b).n
        OBVIOUS
      <4>2. dg(a).n = Posted(p) + a /\ dg(b).n = Posted(p) + b
        BY <1>3
      <4> QED BY <1>1, <4>1, <4>2
    <3>3. \A m \in out : \E a \in 1..f : g[a] = m
      BY <1>4
    <3> QED BY <3>1, <3>2, <3>3 DEF Bijection, Injection, Surjection, IsInjective
  <2>2. IsFiniteSet(1..f) /\ Cardinality(1..f) = f
    BY <1>1, FS_Interval
  <2> QED BY <2>1, <2>2, FS_Bijection DEF ExistsBijection
<1>6. ASSUME NEW i \in 1..f
      PROVE  /\ dg(i) \in Datagram /\ dg(i).dst = Peer(p)
             /\ dg(i).got = received[p] /\ dg(i).ack = nextAck[p]
             /\ dg(i).n \in (Posted(p) + 1)..(Posted(p) + f)
             /\ dg(i).seq = Seqno(dg(i).n - 1)
  <2>1. Posted(p) + i - 1 \in Nat /\ Posted(p) + i \in (Posted(p) + 1)..(Posted(p) + f)
        /\ Posted(p) + i \in Nat
    BY <1>1
  <2>2. Seqno(Posted(p) + i - 1) \in Seqs /\ Peer(p) \in Ends
    BY <2>1, SeqnoType, Two
  <2> QED BY <1>1, <1>3, <2>1, <2>2 DEF Datagram
<1> QED BY <1>4, <1>5, <1>6

\* flush_ext_window posts what fits into the send window, and leaves something
\* waiting only when that is full.
LEMMA FlushFits ==
    ASSUME NEW p \in Ends, Len(extWin[p]) \in Nat, NEW len \in Nat
    PROVE  /\ Flushed(p, len) \in 0..Len(extWin[p])
           /\ len < SendWin => Flushed(p, len) <= SendWin - len
           /\ ~(len < SendWin) => Flushed(p, len) = 0
           /\ Flushed(p, len) < Len(extWin[p]) => len + Flushed(p, len) >= SendWin
<1> DEFINE E == Len(extWin[p])
           room == IF len < SendWin THEN SendWin - len ELSE 0
           f == IF E < room THEN E ELSE room
<1>1. Flushed(p, len) = f
  BY DEF Flushed
<1>2. E \in Nat /\ room \in Nat /\ (room = IF len < SendWin THEN SendWin - len ELSE 0)
  BY Sizes
<1> HIDE DEF E, room
<1>3. /\ f \in 0..E
      /\ len < SendWin => f <= SendWin - len
      /\ ~(len < SendWin) => f = 0
      /\ f < E => len + f >= SendWin
  BY <1>2, Sizes
<1> QED BY <1>1, <1>3 DEF E

\* What is left of a sequence without its first entries.
LEMMA LaterEntries ==
    ASSUME NEW T, NEW s \in Seq(T), NEW r \in 0..Len(s)
    PROVE  /\ Len(SubSeq(s, r + 1, Len(s))) = Len(s) - r
           /\ SubSeq(s, r + 1, Len(s)) \in Seq(T)
           /\ \A i \in 1..(Len(s) - r) : SubSeq(s, r + 1, Len(s))[i] = s[r + i]
OBVIOUS

\* mv2_ud_process_ack keeps the sender's half of the invariant, and what it posts.
LEMMA AckStep ==
    ASSUME TypeOK, NEW p \in Ends, SenderOK(p), ReceiverOK(Peer(p)),
           NEW m \in net, m.dst = p, DatagramOK(m),
           mv2_ud_process_ack(p, m.ack),
           NEW out, out = FlushedOut(p, m.ack)
    PROVE  /\ sendWin' \in [Ends -> Seq(Vbuf)] /\ extWin' \in [Ends -> Seq(Nat)]
           /\ nextSend' \in [Ends -> Seqs] /\ issued' = issued
           /\ SenderOK(p)'
           /\ Posted(p)' \in Nat /\ Posted(p)' = Posted(p) + Cardinality(out)
           /\ Cardinality(out) \in Nat
           /\ Acked(p)' \in Nat /\ Acked(p) <= Acked(p)' /\ Acked(p)' <= Covered(received[Peer(p)])
           /\ Posted(p)' <= Acked(p)' + SendWin + 1
           /\ \A e \in Ends \ {p} : /\ sendWin'[e] = sendWin[e] /\ extWin'[e] = extWin[e]
                                    /\ nextSend'[e] = nextSend[e]
           /\ \A d \in out : /\ d \in Datagram /\ d.dst = Peer(p)
                             /\ d.got = received[p] /\ d.ack = nextAck[p]
                             /\ d.n \in (Acked(p)' + 1)..Posted(p)'
                             /\ d.seq = Seqno(d.n - 1)
<1> DEFINE R == Released(p, m.ack)
           L == Len(sendWin[p])
           E == Len(extWin[p])
           win == SubSeq(sendWin[p], R + 1, L)
           f == Flushed(p, L - R)
           new == Numbered(p, SubSeq(extWin[p], 1, f))
           ext == SubSeq(extWin[p], f + 1, E)
           sw == win \o new
           A == Acked(p)
           P == Posted(p)
           rcv == Covered(received[Peer(p)])
<1>1. /\ sendWin[p] \in Seq(Vbuf) /\ extWin[p] \in Seq(Nat) /\ L \in Nat /\ E \in Nat
      /\ issued[p] \in Nat /\ A \in Nat /\ P \in Nat /\ P = A + L /\ P = issued[p] - E
      /\ rcv \in Nat /\ L <= SendWin + 1
  <2>1. received[Peer(p)] \in Nat
    BY EndTypes, Two
  <2>2. rcv \in Nat
    BY <2>1, CoveredGrows
  <2> HIDE DEF rcv
  <2> QED BY <2>2, EndTypes DEF SenderOK
<1>2. R \in 0..L /\ A + R <= rcv
  BY ReleasesHandled
<1>3. \A i \in 1..L : sendWin[p][i] = [seq |-> Seqno(A + i - 1), n |-> A + i]
  BY DEF SenderOK
<1>4. \A i \in 1..E : extWin[p][i] = P + i
  BY DEF SenderOK
<1>5. /\ f \in 0..E
      /\ L - R < SendWin => f <= SendWin - (L - R)
      /\ ~(L - R < SendWin) => f = 0
      /\ f < E => L - R + f >= SendWin
  <2> HIDE DEF R
  <2>1. L - R \in Nat
    BY <1>1, <1>2
  <2> QED BY <1>1, <2>1, FlushFits
<1>6. Len(win) = L - R /\ win \in Seq(Vbuf) /\ \A i \in 1..(L - R) : win[i] = sendWin[p][R + i]
  <2> HIDE DEF R
  <2>1. sendWin[p] \in Seq(Vbuf) /\ R \in 0..Len(sendWin[p])
    BY <1>1, <1>2
  <2> QED BY ONLY <2>1, LaterEntries
<1>7. Len(ext) = E - f /\ ext \in Seq(Nat) /\ \A i \in 1..(E - f) : ext[i] = extWin[p][f + i]
  <2> HIDE DEF f
  <2>1. extWin[p] \in Seq(Nat) /\ f \in 0..Len(extWin[p])
    BY <1>1, <1>5
  <2> QED BY ONLY <2>1, LaterEntries
<1>8. /\ sendWin' = [sendWin EXCEPT ![p] = sw]
      /\ extWin' = [extWin EXCEPT ![p] = ext]
      /\ nextSend' = [nextSend EXCEPT ![p] = (@ + f) % SeqMod]
      /\ issued' = issued
  BY <1>6 DEF mv2_ud_process_ack
<1>9. /\ new \in Seq(Vbuf) /\ Len(new) = f
      /\ \A i \in 1..f : new[i] = [seq |-> Seqno(P + i - 1), n |-> P + i]
  <2> HIDE DEF f
  <2> QED BY <1>5, Posting
<1>10. out = {Data(p, new[i]) : i \in 1..f}
  BY DEF FlushedOut
<1>11. /\ Cardinality(out) = f
       /\ \A d \in out : /\ d \in Datagram /\ d.dst = Peer(p)
                         /\ d.got = received[p] /\ d.ack = nextAck[p]
                         /\ d.n \in (P + 1)..(P + f)
                         /\ d.seq = Seqno(d.n - 1)
  <2>1. out = {Data(p, Numbered(p, SubSeq(extWin[p], 1, f))[i]) : i \in 1..f}
    BY <1>10
  <2> HIDE DEF f, new, P
  <2> QED BY <1>5, <2>1, PostedDatagrams DEF P
<1> HIDE DEF R, win, f, new, ext
<1>12. /\ sw \in Seq(Vbuf) /\ Len(sw) = (L - R) + f
       /\ \A i \in 1..((L - R) + f) :
             sw[i] = IF i <= L - R THEN win[i] ELSE new[i - (L - R)]
  <2>1. win \in Seq(Vbuf) /\ new \in Seq(Vbuf) /\ Len(win) = L - R /\ Len(new) = f
    BY <1>6, <1>9
  <2>2. /\ sw \in Seq(Vbuf) /\ Len(sw) = Len(win) + Len(new)
        /\ \A i \in 1..(Len(win) + Len(new)) :
              sw[i] = IF i <= Len(win) THEN win[i] ELSE new[i - Len(win)]
    BY ONLY <2>1, ConcatProperties
  <2> HIDE DEF sw
  <2> QED BY <2>1, <2>2
<1> HIDE DEF sw
<1>13. sendWin'[p] = sw /\ extWin'[p] = ext /\ nextSend'[p] = (nextSend[p] + f) % SeqMod
       /\ \A e \in Ends \ {p} : /\ sendWin'[e] = sendWin[e] /\ extWin'[e] = extWin[e]
                                /\ nextSend'[e] = nextSend[e]
  BY <1>8 DEF TypeOK
<1>14. nextSend'[p] = Seqno(P + f)
  <2>1. nextSend[p] = Seqno(P) /\ f \in Nat
    BY <1>5 DEF SenderOK
  <2>2. (Seqno(P) + f) % SeqMod = Seqno(P + f)
    BY <1>1, <2>1, NextSeqno
  <2> QED BY <1>13, <2>1, <2>2
<1>15. Posted(p)' = P + f /\ Acked(p)' = A + R
  <2>1. Posted(p)' = issued[p] - (E - f)
    BY <1>7, <1>8, <1>13 DEF Posted
  <2>2. Acked(p)' = Posted(p)' - ((L - R) + f)
    BY <1>12, <1>13 DEF Acked
  <2> DEFINE P2 == Posted(p)'
             A2 == Acked(p)'
  <2>3. P2 = issued[p] - (E - f) /\ A2 = P2 - ((L - R) + f)
    BY <2>1, <2>2
  <2>4. /\ f \in Int /\ R \in Int /\ issued[p] \in Int /\ E \in Int /\ L \in Int /\ A \in Int
        /\ P = A + L /\ P = issued[p] - E
    BY <1>1, <1>2, <1>5
  <2> DEFINE I == issued[p]
  <2> HIDE DEF A, P, L, E, P2, A2, I
  <2>5. P2 = P + f /\ A2 = A + R
    BY ONLY <2>3, <2>4 DEF I
  <2> QED BY <2>5 DEF P2, A2
<1>16. \A i \in 1..((L - R) + f) : sw[i] = [seq |-> Seqno(A + R + i - 1), n |-> A + R + i]
  <2> SUFFICES ASSUME NEW i \in 1..((L - R) + f)
               PROVE  sw[i] = [seq |-> Seqno(A + R + i - 1), n |-> A + R + i]
    OBVIOUS
  <2> HIDE DEF A, P, L, E, rcv
  <2>1. CASE i <= L - R
    <3>1. i \in 1..(L - R) /\ R + i \in 1..L /\ A + R + i = A + (R + i)
          /\ A + R + i - 1 = A + (R + i) - 1
      BY <1>1, <1>2, <1>5, <2>1
    <3>2. sw[i] = sendWin[p][R + i]
      BY <1>6, <1>12, <2>1, <3>1
    <3> QED BY <1>3, <3>1, <3>2 DEF L, A
  <2>2. CASE ~(i <= L - R)
    <3> DEFINE j == i - (L - R)
    <3>1. j \in 1..f /\ P + j = A + R + i /\ P + j - 1 = A + R + i - 1
      BY <1>1, <1>2, <1>5, <2>2
    <3>2. sw[i] = new[j]
      BY <1>12, <2>2
    <3> HIDE DEF j
    <3> QED BY <1>9, <3>1, <3>2
  <2> QED BY <2>1, <2>2
<1>17. \A i \in 1..(E - f) : ext[i] = P + f + i
  <2> SUFFICES ASSUME NEW i \in 1..(E - f)
               PROVE  ext[i] = P + f + i
    OBVIOUS
  <2> HIDE DEF P, E
  <2>1. f + i \in 1..E /\ P + f + i = P + (f + i)
    BY <1>1, <1>5
  <2> QED BY <1>4, <1>7, <2>1
<1>18. (L - R) + f <= SendWin + 1 /\ E - f <= issued[p]
       /\ (ext # << >> => (L - R) + f >= SendWin)
  <2> DEFINE I == issued[p]
  <2>1. /\ L \in Nat /\ E \in Nat /\ I \in Nat /\ P \in Nat /\ P = I - E /\ L <= SendWin + 1
        /\ R \in 0..L /\ f \in 0..E /\ SendWin \in Nat
        /\ (L - R < SendWin => f <= SendWin - (L - R))
        /\ (~(L - R < SendWin) => f = 0)
        /\ (f < E => L - R + f >= SendWin)
    BY <1>1, <1>2, <1>5, Sizes
  <2>2. ext # << >> => f < E
    <3>1. Len(ext) = E - f /\ ext \in Seq(Nat)
      BY <1>7
    <3> HIDE DEF E
    <3> QED BY ONLY <2>1, <3>1
  <2> HIDE DEF P, E, L, I
  <2>3. (L - R) + f <= SendWin + 1 /\ E - f <= I /\ (f < E => (L - R) + f >= SendWin)
    BY ONLY <2>1
  <2> QED BY <2>2, <2>3 DEF I
<1>19. SenderOK(p)'
  <2>1. Len(sendWin'[p]) = (L - R) + f /\ Len(extWin'[p]) = E - f /\ issued'[p] = issued[p]
    BY <1>7, <1>8, <1>12, <1>13
  <2>2. Acked(p)' >= 0
    BY <1>1, <1>2, <1>15
  <2>3. \A i \in 1..Len(sendWin'[p]) :
           sendWin'[p][i] = [seq |-> Seqno(Acked(p)' + i - 1), n |-> Acked(p)' + i]
    BY <1>13, <1>15, <1>16, <2>1
  <2>4. \A i \in 1..Len(extWin'[p]) : extWin'[p][i] = Posted(p)' + i
    BY <1>13, <1>15, <1>17, <2>1
  <2>5. nextSend'[p] = Seqno(Posted(p)')
    BY <1>14, <1>15
  <2>6. (extWin'[p] # << >> => Len(sendWin'[p]) >= SendWin) /\ Len(sendWin'[p]) <= SendWin + 1
        /\ Len(extWin'[p]) <= issued'[p]
    BY <1>13, <1>18, <2>1
  <2> QED BY <2>2, <2>3, <2>4, <2>5, <2>6 DEF SenderOK, Seqno
<1>20. /\ sendWin' \in [Ends -> Seq(Vbuf)] /\ extWin' \in [Ends -> Seq(Nat)]
       /\ nextSend' \in [Ends -> Seqs]
  <2>1. (nextSend[p] + f) % SeqMod \in Seqs
    BY <1>1, <1>5, <1>13, <1>14, SeqnoType
  <2> QED BY <1>7, <1>8, <1>12, <2>1 DEF TypeOK
<1>21. /\ Posted(p)' \in Nat /\ Posted(p)' = P + Cardinality(out) /\ Cardinality(out) \in Nat
       /\ Acked(p)' \in Nat /\ A <= Acked(p)' /\ Acked(p)' <= rcv
       /\ Posted(p)' <= Acked(p)' + SendWin + 1
       /\ \A d \in out : d.n \in (P + 1)..(P + f) => d.n \in (Acked(p)' + 1)..Posted(p)'
  <2> DEFINE P2 == Posted(p)'
             A2 == Acked(p)'
             C == Cardinality(out)
  <2>1. P2 = P + f /\ A2 = A + R /\ C = f
    BY <1>11, <1>15
  <2> HIDE DEF P, E, A, L, rcv, P2, A2, C
  <2>2. /\ P2 \in Nat /\ P2 = P + C /\ C \in Nat
        /\ A2 \in Nat /\ A <= A2 /\ A2 <= rcv
        /\ P2 <= A2 + SendWin + 1
        /\ \A n \in (P + 1)..(P + f) : n \in (A2 + 1)..P2
    BY <1>1, <1>2, <1>5, <1>18, <2>1, Sizes
  <2> QED BY <2>2 DEF P2, A2, C
<1> QED BY <1>8, <1>11, <1>13, <1>19, <1>20, <1>21
-----------------------------------------------------------------------------
(* One lemma per action. *)

\* Datagrams keep the invariant when nothing is posted.
LEMMA QuietNet ==
    ASSUME IInv,
           \A e \in Ends : /\ received[e] <= received'[e] /\ received'[e] \in Nat
                           /\ Posted(e)' = Posted(e),
           NEW m \in net
    PROVE  DatagramOK(m)'
<1>1. TypeOK /\ DatagramOK(m)
  BY DEF IInv
<1>2. m.dst \in Ends /\ Peer(m.dst) \in Ends /\ m.n \in Nat
  BY <1>1, DatagramTypes, Two
<1>3. \A e \in Ends : Posted(e) <= Posted(e)' /\ Posted(e)' \in Int
  <2> SUFFICES ASSUME NEW e \in Ends PROVE Posted(e) <= Posted(e)' /\ Posted(e)' \in Int
    OBVIOUS
  <2>1. Posted(e) \in Int /\ Posted(e)' = Posted(e)
    BY <1>1, EndTypes
  <2> QED BY <2>1
<1>4. Posted(m.dst)' <= Covered(m.got) + Lifetime
  <2>1. Posted(m.dst)' = Posted(m.dst)
    BY <1>2
  <2> QED BY <1>1, <2>1 DEF DatagramOK
<1>5. IsControl(m) \/ Posted(Peer(m.dst))' < m.n + Lifetime
  <2>1. Posted(Peer(m.dst))' = Posted(Peer(m.dst))
    BY <1>2
  <2>2. m.n = 0 \/ m.n > 0
    BY <1>2
  <2> QED BY <1>1, <2>1, <2>2 DEF DatagramOK, IsControl
<1> QED BY <1>1, <1>3, <1>4, <1>5, OldDatagram

\* Datagrams that survive a posting keep the invariant.
LEMMA SurvivingNet ==
    ASSUME IInv, NEW p \in Ends,
           \A e \in Ends : received[e] <= received'[e] /\ received'[e] \in Nat,
           Posted(p)' \in Nat, Posted(p) <= Posted(p)', Posted(Peer(p))' = Posted(Peer(p)),
           NEW m \in Surviving(p, Posted(p)')
    PROVE  DatagramOK(m)'
<1>1. TypeOK /\ m \in net /\ DatagramOK(m)
  BY DEF IInv, Surviving
<1>2. m.dst \in Ends /\ m.n \in Nat /\ (m.dst = p \/ (m.dst = Peer(p) /\ m.dst # p))
      /\ Peer(Peer(p)) = p
  BY <1>1, DatagramTypes, Two
<1>3. \A e \in Ends : Posted(e) <= Posted(e)' /\ Posted(e)' \in Int
  <2> SUFFICES ASSUME NEW e \in Ends PROVE Posted(e) <= Posted(e)' /\ Posted(e)' \in Int
    OBVIOUS
  <2>1. Posted(e) \in Int
    BY <1>1, EndTypes
  <2>2. e = p \/ e = Peer(p)
    BY Two
  <2>3. CASE e = p
    BY <2>3
  <2>4. CASE e = Peer(p)
    <3>1. Posted(e)' = Posted(e)
      BY <2>4
    <3> QED BY <2>1, <3>1
  <2> QED BY <2>2, <2>3, <2>4
<1>4. CASE m.dst = p
  <2>1. Posted(p)' <= Covered(m.got) + Lifetime
    <3> DEFINE k == Posted(p)'
    <3>1. m.got + Lifetime >= k /\ k \in Nat /\ m.got \in Nat
      BY <1>1, <1>4, DatagramTypes DEF Surviving
    <3> HIDE DEF k
    <3>2. k <= Covered(m.got) + Lifetime
      BY <3>1, Sizes, CoveredGrows
    <3> QED BY <3>2 DEF k
  <2>2. m.n = 0 \/ Posted(Peer(p))' < m.n + Lifetime
    <3>1. m.n = 0 \/ m.n > 0
      BY <1>2
    <3> QED BY <1>1, <1>4, <3>1 DEF DatagramOK
  <2> QED BY <1>1, <1>3, <1>4, <2>1, <2>2, OldDatagram DEF IsControl
<1>5. CASE m.dst = Peer(p) /\ m.dst # p
  <2>1. Posted(Peer(p))' <= Covered(m.got) + Lifetime
    BY <1>1, <1>5 DEF DatagramOK
  <2>2. IsControl(m) \/ Posted(p)' < m.n + Lifetime
    <3> DEFINE k == Posted(p)'
    <3>1. IsControl(m) \/ m.n + Lifetime > k
      BY <1>5 DEF Surviving
    <3>2. k \in Nat
      OBVIOUS
    <3> HIDE DEF k
    <3>3. IsControl(m) \/ k < m.n + Lifetime
      BY <1>2, <3>1, <3>2, Sizes
    <3> QED BY <3>3 DEF k
  <2> QED BY <1>1, <1>2, <1>3, <1>5, <2>1, <2>2, OldDatagram
<1> QED BY <1>2, <1>4, <1>5

\* post_ud_send keeps the invariant when the message has to wait.
LEMMA PostQueued ==
    ASSUME IInv, NEW p \in Ends, MustQueue(p),
           issued' = [issued EXCEPT ![p] = issued[p] + 1],
           extWin' = [extWin EXCEPT ![p] = Append(@, issued[p] + 1)],
           UNCHANGED <<load, nextSend, sendWin, ackVars, net, recvVars>>
    PROVE  IInv'
<1> USE DEF ackVars, recvVars
<1>0. TypeOK /\ \A e \in Ends : SenderOK(e) /\ ReceiverOK(e)
  BY DEF IInv
<1>1. /\ issued[p] \in Nat /\ extWin[p] \in Seq(Nat) /\ Len(extWin[p]) \in Nat
      /\ Posted(p) \in Nat /\ Posted(p) = issued[p] - Len(extWin[p])
      /\ Len(sendWin[p]) \in Nat
  BY <1>0, EndTypes DEF SenderOK
<1>2. TypeOK'
  BY <1>0, <1>1 DEF TypeOK
<1>3. issued'[p] = issued[p] + 1 /\ extWin'[p] = Append(extWin[p], issued[p] + 1)
      /\ Len(extWin'[p]) = Len(extWin[p]) + 1
  BY <1>0, <1>1 DEF TypeOK
<1>4. Posted(p)' = Posted(p) /\ Acked(p)' = Acked(p)
  <2>1. Posted(p)' = issued'[p] - Len(extWin'[p])
    BY DEF Posted
  <2>2. Posted(p)' = Posted(p)
    BY <1>1, <1>3, <2>1
  <2> QED BY <2>2 DEF Acked
<1>5. SenderOK(p)'
  <2>1. \A i \in 1..Len(extWin'[p]) : extWin'[p][i] = Posted(p) + i
    <3> SUFFICES ASSUME NEW i \in 1..(Len(extWin[p]) + 1)
                 PROVE  Append(extWin[p], issued[p] + 1)[i] = Posted(p) + i
      BY <1>3
    <3>1. CASE i \in 1..Len(extWin[p])
      <4>1. extWin[p][i] = Posted(p) + i
        BY <1>0, <3>1 DEF SenderOK
      <4> QED BY <1>1, <3>1, <4>1
    <3>2. CASE i = Len(extWin[p]) + 1
      BY <1>1, <3>2
    <3> QED BY <1>1, <3>1, <3>2
  <2>2. Len(sendWin[p]) >= SendWin
    BY <1>0, <1>1, Sizes DEF MustQueue, SenderOK
  <2>3. Len(extWin'[p]) <= issued'[p]
    BY <1>0, <1>1, <1>3 DEF SenderOK
  <2> QED BY <1>0, <1>4, <2>1, <2>2, <2>3 DEF SenderOK, Seqno
<1>6. \A e \in Ends : Posted(e)' = Posted(e) /\ Acked(e)' = Acked(e) /\ SenderOK(e)'
  <2> SUFFICES ASSUME NEW e \in Ends, e # p
               PROVE  Posted(e)' = Posted(e) /\ Acked(e)' = Acked(e) /\ SenderOK(e)'
    BY <1>4, <1>5
  <2>1. issued'[e] = issued[e] /\ extWin'[e] = extWin[e]
    BY <1>0 DEF TypeOK
  <2> QED BY <1>0, <2>1, SenderFrame
<1>7. \A e \in Ends : ReceiverOK(e)'
  <2> SUFFICES ASSUME NEW e \in Ends PROVE ReceiverOK(e)'
    OBVIOUS
  <2> DEFINE q == Peer(e)
  <2>1. Posted(q)' = Posted(q) /\ Acked(q)' = Acked(q) /\ Posted(q) \in Nat
    BY <1>0, <1>6, Two, Window
  <2>2. Acked(q) <= Covered(received[e])
    BY <1>0 DEF ReceiverOK
  <2> QED BY <1>0, <2>1, <2>2, ReceiverFrame
<1>8. \A m \in net : DatagramOK(m)'
  <2>1. \A e \in Ends : received[e] <= received'[e] /\ received'[e] \in Nat
    BY <1>0 DEF TypeOK
  <2> QED BY <1>6, <2>1, QuietNet
<1> QED BY <1>2, <1>6, <1>7, <1>8 DEF IInv

\* post_ud_send keeps the invariant when the message goes out.
LEMMA PostDirect ==
    ASSUME IInv, NEW p \in Ends, ~MustQueue(p), NEW n, n = issued[p] + 1,
           NEW v, v = [seq |-> nextSend[p], n |-> n],
           issued' = [issued EXCEPT ![p] = n],
           nextSend' = [nextSend EXCEPT ![p] = (@ + 1) % SeqMod],
           sendWin' = [sendWin EXCEPT ![p] = Append(@, v)],
           net' = Surviving(p, n) \cup {Data(p, v)},
           ackDue' = [ackDue EXCEPT ![p] = FALSE],
           ackPending' = [ackPending EXCEPT ![p] = 0],
           UNCHANGED <<load, extWin, recvVars>>
    PROVE  IInv'
<1> USE DEF recvVars
<1> DEFINE L == Len(sendWin[p])
<1>0. TypeOK /\ \A e \in Ends : SenderOK(e) /\ ReceiverOK(e)
  BY DEF IInv
<1>1. /\ issued[p] \in Nat /\ sendWin[p] \in Seq(Vbuf) /\ L \in Nat
      /\ Posted(p) \in Nat /\ Acked(p) \in Nat /\ Posted(p) = Acked(p) + L
      /\ nextSend[p] = Seqno(Posted(p)) /\ nextSend[p] \in Seqs
  BY <1>0, EndTypes DEF SenderOK
<1>2. extWin[p] = << >> /\ L <= SendWin
  BY <1>1, Sizes DEF MustQueue
<1>3. Posted(p) = issued[p] /\ n = Posted(p) + 1 /\ n \in Nat
  <2>1. Posted(p) = issued[p] - 0
    BY <1>2 DEF Posted
  <2> QED BY <1>1, <2>1
<1>4. (nextSend[p] + 1) % SeqMod = Seqno(n) /\ Seqno(n) \in Seqs
  BY <1>1, <1>3, NextSeqno, SeqnoType
<1>5. v \in Vbuf /\ v.n = n /\ v.seq = Seqno(Posted(p))
  BY <1>1, <1>3 DEF Vbuf
<1>6. /\ issued'[p] = n /\ nextSend'[p] = Seqno(n) /\ sendWin'[p] = Append(sendWin[p], v)
      /\ Len(sendWin'[p]) = L + 1 /\ extWin'[p] = << >>
      /\ \A e \in Ends \ {p} : /\ issued'[e] = issued[e] /\ nextSend'[e] = nextSend[e]
                               /\ sendWin'[e] = sendWin[e]
  BY <1>0, <1>1, <1>2, <1>4 DEF TypeOK
<1>7. Posted(p)' = n /\ Acked(p)' = Acked(p)
  <2>1. Posted(p)' = n - 0
    BY <1>6 DEF Posted
  <2>2. Posted(p)' = n
    BY <1>3, <2>1
  <2>3. Acked(p)' = n - (L + 1)
    BY <1>6, <2>2 DEF Acked
  <2>4. n - (L + 1) = Acked(p)
    BY <1>1, <1>3
  <2> QED BY <2>2, <2>3, <2>4
<1>8. SenderOK(p)'
  <2>1. \A i \in 1..Len(sendWin'[p]) :
           sendWin'[p][i] = [seq |-> Seqno(Acked(p) + i - 1), n |-> Acked(p) + i]
    <3> SUFFICES ASSUME NEW i \in 1..(L + 1)
                 PROVE  Append(sendWin[p], v)[i] = [seq |-> Seqno(Acked(p) + i - 1), n |-> Acked(p) + i]
      BY <1>6
    <3>1. CASE i \in 1..L
      <4>1. sendWin[p][i] = [seq |-> Seqno(Acked(p) + i - 1), n |-> Acked(p) + i]
        BY <1>0, <3>1 DEF SenderOK
      <4>2. Append(sendWin[p], v)[i] = sendWin[p][i]
        BY <1>1, <3>1
      <4> QED BY <4>1, <4>2
    <3>2. CASE i = L + 1
      <4>1. Append(sendWin[p], v)[i] = v
        BY <1>1, <3>2
      <4>2. Acked(p) + i - 1 = Posted(p) /\ Acked(p) + i = n
        BY <1>1, <1>3, <3>2
      <4> QED BY <1>1, <4>1, <4>2
    <3> QED BY <1>1, <3>1, <3>2
  <2>2. Len(sendWin'[p]) <= SendWin + 1 /\ Len(extWin'[p]) <= issued'[p] /\ Acked(p)' >= 0
    BY <1>1, <1>2, <1>3, <1>6, <1>7, Sizes
  <2>3. nextSend'[p] = Seqno(Posted(p)')
    BY <1>6, <1>7
  <2>4. \A i \in 1..Len(extWin'[p]) : extWin'[p][i] = Posted(p)' + i
    BY <1>6
  <2> QED BY <1>6, <1>7, <2>1, <2>2, <2>3, <2>4 DEF SenderOK, Seqno
<1>9. \A e \in Ends \ {p} : Posted(e)' = Posted(e) /\ Acked(e)' = Acked(e) /\ SenderOK(e)'
  <2> SUFFICES ASSUME NEW e \in Ends, e # p
               PROVE  Posted(e)' = Posted(e) /\ Acked(e)' = Acked(e) /\ SenderOK(e)'
    OBVIOUS
  <2> QED BY <1>0, <1>6, SenderFrame
<1>10. \A e \in Ends : ReceiverOK(e)'
  <2> SUFFICES ASSUME NEW e \in Ends PROVE ReceiverOK(e)'
    OBVIOUS
  <2> DEFINE q == Peer(e)
  <2>1. Acked(q)' = Acked(q) /\ Posted(q)' \in Nat /\ Posted(q) <= Posted(q)'
    <3>1. CASE q = p
      <4>1. n \in Nat /\ Posted(p) <= n
        BY <1>1, <1>3
      <4> QED BY <1>7, <3>1, <4>1
    <3>2. CASE q # p
      <4>1. Posted(q)' = Posted(q) /\ Posted(q) \in Nat /\ Acked(q)' = Acked(q)
        BY <1>0, <1>9, <3>2, Two, Window
      <4> QED BY <4>1
    <3> QED BY <3>1, <3>2
  <2>2. Acked(q) <= Covered(received[e])
    BY <1>0 DEF ReceiverOK
  <2> QED BY <1>0, <2>1, <2>2, ReceiverFrame
<1>11. \A e \in Ends : received[e] <= received'[e] /\ received'[e] \in Nat
  BY <1>0 DEF TypeOK
<1>12. Posted(p)' \in Nat /\ Posted(p) <= Posted(p)' /\ Posted(Peer(p))' = Posted(Peer(p))
  <2>1. n \in Nat /\ Posted(p) <= n
    BY <1>1, <1>3
  <2> QED BY <1>7, <1>9, <2>1, Two
<1>13. \A m \in Surviving(p, n) : DatagramOK(m)'
  <2>1. Surviving(p, n) = Surviving(p, Posted(p)')
    BY <1>7
  <2> QED BY <1>11, <1>12, <2>1, SurvivingNet
<1>14. ASSUME NEW m, m = Data(p, v)
       PROVE  m \in Datagram /\ DatagramOK(m)'
  <2>1. m = [dst |-> Peer(p), seq |-> v.seq, ack |-> nextAck[p], n |-> v.n, got |-> received[p]]
    BY <1>14 DEF Data
  <2>2. Peer(p) \in Ends /\ nextAck[p] \in Seqs /\ received[p] \in Nat
    BY <1>0, Two, EndTypes
  <2>3. m \in Datagram /\ m.dst = Peer(p) /\ m.got = received[p] /\ m.ack = nextAck[p]
        /\ m.n = n /\ m.seq = Seqno(Posted(p))
    BY <1>5, <2>1, <2>2 DEF Vbuf, Datagram
  <2>4. m.n \in (Acked(p)' + 1)..Posted(p)' /\ m.seq = Seqno(m.n - 1)
    <3>1. n \in (Acked(p) + 1)..n /\ n - 1 = Posted(p)
      BY <1>1, <1>3
    <3> QED BY <1>7, <2>3, <3>1
  <2>5. Acked(p)' \in Nat /\ Posted(p)' \in Nat /\ Posted(p)' <= Acked(p)' + SendWin + 1
    <3>1. Acked(p) \in Nat /\ n \in Nat /\ n <= Acked(p) + SendWin + 1
      BY <1>1, <1>2, <1>3, Sizes
    <3> QED BY <1>7, <3>1
  <2>6. DatagramOK(m)'
    BY <1>0, <1>11, <1>12, <2>3, <2>4, <2>5, Two, FreshDatagram
  <2> QED BY <2>3, <2>6
<1>15. TypeOK'
  <2>1. net' \subseteq Datagram
    BY <1>0, <1>14 DEF TypeOK, Surviving
  <2>2. Append(sendWin[p], v) \in Seq(Vbuf)
    BY <1>1, <1>5
  <2>3. sendWin' \in [Ends -> Seq(Vbuf)] /\ nextSend' \in [Ends -> Seqs] /\ issued' \in [Ends -> Nat]
    BY <1>0, <1>3, <1>4, <2>2 DEF TypeOK
  <2> QED BY <1>0, <2>1, <2>3 DEF TypeOK
<1>16. \A m \in net' : DatagramOK(m)'
  BY <1>13, <1>14
<1> QED BY <1>8, <1>9, <1>10, <1>15, <1>16 DEF IInv

\* post_ud_send keeps the invariant.
LEMMA PostStep ==
    ASSUME IInv, NEW p \in Ends, UNCHANGED load, post_ud_send(p)
    PROVE  IInv'
<1>1. CASE MustQueue(p)
  BY <1>1, PostQueued DEF post_ud_send, ackVars, recvVars
<1>2. CASE ~MustQueue(p)
  BY <1>2, PostDirect DEF post_ud_send, ackVars, recvVars
<1> QED BY <1>1, <1>2

\* When the loop of place_recvwin has come to its end, the next message is not in the
\* receive window.
LEMMA GapAhead ==
    ASSUME TypeOK, NEW p \in Ends, SenderOK(Peer(p)), ReceiverOK(p), ~Draining(p),
           NEW i \in 1..Len(recvWin[p])
    PROVE  received[p] + 1 < recvWin[p][i].n
<1> DEFINE w == recvWin[p]
<1>1. w \in Seq(Vbuf) /\ Len(w) \in Nat /\ received[p] \in Nat
  BY EndTypes
<1>2. w # << >> /\ Head(w) = w[1] /\ 1 \in 1..Len(w)
  BY <1>1
<1>3. w[1].seq # nextRecv[p]
  BY <1>2 DEF Draining
<1>4. w[1].n \in Nat /\ received[p] < w[1].n /\ w[1].n # received[p] + 1
  BY <1>2, <1>3, WaitingEntries
<1>5. w[i].n \in Nat /\ (i = 1 \/ w[1].n < w[i].n)
  <2>1. i = 1 \/ 1 \in 1..(i - 1)
    BY <1>1
  <2> QED BY <2>1, WaitingEntries
<1> QED BY <1>1, <1>4, <1>5

\* place_recvwin keeps the receiver's half of the invariant.
LEMMA PlaceStep ==
    ASSUME IInv, NEW p \in Ends, NEW m \in net, m.dst = p, ~IsControl(m), ~Draining(p),
           mv2_ud_place_recvwin(p, m),
           Posted(Peer(p))' = Posted(Peer(p)), Acked(Peer(p))' = Acked(Peer(p))
    PROVE  /\ ReceiverOK(p)'
           /\ received' \in [Ends -> Nat] /\ nextRecv' \in [Ends -> Seqs]
           /\ nextAck' \in [Ends -> Seqs] /\ recvWin' \in [Ends -> Seq(Vbuf)]
           /\ received[p] <= received'[p]
           /\ \A e \in Ends \ {p} :
                 /\ received'[e] = received[e] /\ nextRecv'[e] = nextRecv[e]
                 /\ nextAck'[e] = nextAck[e] /\ recvWin'[e] = recvWin[e]
<1> DEFINE q == Peer(p)
<1>0. TypeOK /\ SenderOK(q) /\ ReceiverOK(p) /\ DatagramOK(m)
  BY Two DEF IInv
<1>1. /\ received[p] \in Nat /\ nextRecv[p] \in Seqs /\ nextRecv[p] = Seqno(received[p])
      /\ recvWin[p] \in Seq(Vbuf) /\ Len(recvWin[p]) \in Nat
      /\ Posted(q) \in Nat /\ Acked(q) \in Nat /\ Acked(q) <= Covered(received[p])
  BY <1>0, Two, Window, EndTypes DEF ReceiverOK
<1>2. /\ m.n \in Nat \ {0} /\ m.n <= Posted(q) /\ m.seq = Seqno(m.n - 1)
      /\ m.seq = nextRecv[p] => m.n = received[p] + 1
      /\ m.seq # nextRecv[p] /\ InRecvWindow(p, m.seq) => m.n > received[p] + 1
  BY <1>0, ArrivesAhead
<1>3. CASE /\ m.seq = nextRecv[p]
           /\ received' = [received EXCEPT ![p] = m.n]
           /\ nextAck' = [nextAck EXCEPT ![p] = nextRecv[p]]
           /\ nextRecv' = [nextRecv EXCEPT ![p] = (@ + 1) % SeqMod]
           /\ UNCHANGED recvWin
  <2>1. m.n = received[p] + 1
    BY <1>2, <1>3
  <2>2. (nextRecv[p] + 1) % SeqMod = Seqno(m.n) /\ Seqno(m.n) \in Seqs
    <3>1. (Seqno(received[p]) + 1) % SeqMod = Seqno(received[p] + 1)
      BY <1>1, NextSeqno
    <3> QED BY <1>1, <1>2, <2>1, <3>1, SeqnoType
  <2>3. /\ received'[p] = m.n /\ nextAck'[p] = Seqno(received[p]) /\ nextRecv'[p] = Seqno(m.n)
        /\ recvWin' = recvWin
    BY <1>0, <1>1, <1>3, <2>2 DEF TypeOK
  <2>4. Acknowledges(nextAck'[p], received'[p])
    <3>1. m.n # 0 /\ m.n - 1 = received[p]
      BY <1>1, <2>1
    <3> QED BY <2>3, <3>1 DEF Acknowledges, Covered
  <2>5. ASSUME NEW i \in 1..Len(recvWin[p])
        PROVE  /\ m.n < recvWin[p][i].n /\ recvWin[p][i].n <= Posted(q)
               /\ recvWin[p][i].seq = Seqno(recvWin[p][i].n - 1)
               /\ \A j \in 1..(i - 1) : recvWin[p][j].n < recvWin[p][i].n
    BY <1>0, <2>1, GapAhead DEF ReceiverOK
  <2>6. Acked(q) <= Covered(m.n)
    <3>1. Covered(received[p]) \in Nat /\ Covered(received[p]) <= Covered(m.n) /\ Covered(m.n) \in Nat
      BY <1>1, <2>1 DEF Covered
    <3> HIDE DEF q
    <3> QED BY <1>1, <3>1
  <2>7. ReceiverOK(p)'
    <3>1. Acked(q)' <= Covered(received'[p]) /\ received'[p] <= Posted(q)'
      BY <1>2, <2>3, <2>6
    <3>2. \A i \in 1..Len(recvWin'[p]) :
             /\ received'[p] < recvWin'[p][i].n /\ recvWin'[p][i].n <= Posted(q)'
             /\ recvWin'[p][i].seq = Seqno(recvWin'[p][i].n - 1)
             /\ \A j \in 1..(i - 1) : recvWin'[p][j].n < recvWin'[p][i].n
      BY <2>3, <2>5
    <3> QED BY <2>3, <2>4, <3>1, <3>2 DEF ReceiverOK, Acknowledges, Covered, Seqno
  <2>8. received[p] <= m.n
    BY <1>1, <2>1
  <2>9. /\ received' \in [Ends -> Nat] /\ nextRecv' \in [Ends -> Seqs]
        /\ nextAck' \in [Ends -> Seqs] /\ recvWin' \in [Ends -> Seq(Vbuf)]
    BY <1>0, <1>1, <1>2, <1>3, <2>2 DEF TypeOK
  <2>10. \A e \in Ends \ {p} :
                 /\ received'[e] = received[e] /\ nextRecv'[e] = nextRecv[e]
                 /\ nextAck'[e] = nextAck[e] /\ recvWin'[e] = recvWin[e]
    BY <1>0, <1>3 DEF TypeOK
  <2> QED BY <2>3, <2>7, <2>8, <2>9, <2>10
<1>4. CASE /\ m.seq # nextRecv[p] /\ InRecvWindow(p, m.seq)
           /\ recvWin' = [recvWin EXCEPT ![p] = recv_window_add(p, m)]
           /\ UNCHANGED <<received, nextAck, nextRecv>>
  <2> DEFINE v == recv_window_add(p, m)
  <2>1. m.n > received[p] + 1
    BY <1>2, <1>4
  <2>2. /\ v \in Seq(Vbuf)
        /\ \A i \in 1..Len(v) :
              /\ received[p] < v[i].n /\ v[i].n <= Posted(q)
              /\ v[i].seq = Seqno(v[i].n - 1)
              /\ \A j \in 1..(i - 1) : v[j].n < v[i].n
    BY <1>0, <2>1, AddKeepsOrder
  <2> HIDE DEF v
  <2>3. recvWin'[p] = v /\ recvWin' \in [Ends -> Seq(Vbuf)]
        /\ \A e \in Ends \ {p} : recvWin'[e] = recvWin[e]
    BY <1>0, <1>4, <2>2 DEF TypeOK, v
  <2>4. ReceiverOK(p)'
    <3>1. Acked(q)' <= Covered(received'[p]) /\ received'[p] <= Posted(q)'
          /\ nextRecv'[p] = Seqno(received'[p]) /\ Acknowledges(nextAck'[p], received'[p])
      BY <1>0, <1>4 DEF ReceiverOK
    <3>2. \A i \in 1..Len(recvWin'[p]) :
             /\ received'[p] < recvWin'[p][i].n /\ recvWin'[p][i].n <= Posted(q)'
             /\ recvWin'[p][i].seq = Seqno(recvWin'[p][i].n - 1)
             /\ \A j \in 1..(i - 1) : recvWin'[p][j].n < recvWin'[p][i].n
      BY <1>4, <2>2, <2>3
    <3> QED BY <3>1, <3>2 DEF ReceiverOK, Acknowledges, Covered, Seqno
  <2> QED BY <1>0, <1>1, <1>4, <2>3, <2>4 DEF TypeOK
<1>5. CASE UNCHANGED recvVars
  <2>1. UNCHANGED <<nextRecv, nextAck, recvWin, received>>
    BY <1>5 DEF recvVars
  <2>2. ReceiverOK(p)'
    <3>1. Acked(q)' <= Covered(received[p]) /\ Posted(q)' \in Nat /\ Posted(q) <= Posted(q)'
      BY <1>1
    <3> QED BY <1>0, <2>1, <3>1, ReceiverFrame
  <2> QED BY <1>0, <1>1, <2>1, <2>2 DEF TypeOK
<1> QED BY <1>3, <1>4, <1>5 DEF mv2_ud_place_recvwin

\* MRAILI_Process_recv keeps the invariant.
LEMMA ReceiveStep ==
    ASSUME IInv, NEW p \in Ends, NEW m \in net, UNCHANGED load,
           MRAILI_Process_recv(p, m)
    PROVE  IInv'
<1> DEFINE q == Peer(p)
           out == FlushedOut(p, m.ack)
           k == Posted(p) + Cardinality(out)
<1>0. /\ TypeOK /\ SenderOK(p) /\ ReceiverOK(p) /\ SenderOK(q) /\ ReceiverOK(q)
      /\ DatagramOK(m) /\ m.dst = p /\ ~Draining(p) /\ q \in Ends /\ q # p
      /\ mv2_ud_process_ack(p, m.ack)
  BY Two DEF IInv, MRAILI_Process_recv, Process_recv_data, Process_recv_control
<1>1. /\ sendWin' \in [Ends -> Seq(Vbuf)] /\ extWin' \in [Ends -> Seq(Nat)]
      /\ nextSend' \in [Ends -> Seqs] /\ issued' = issued
      /\ SenderOK(p)'
      /\ Posted(p)' \in Nat /\ Posted(p)' = k /\ Cardinality(out) \in Nat
      /\ Acked(p)' \in Nat /\ Acked(p) <= Acked(p)' /\ Acked(p)' <= Covered(received[q])
      /\ Posted(p)' <= Acked(p)' + SendWin + 1
      /\ \A e \in Ends \ {p} : /\ sendWin'[e] = sendWin[e] /\ extWin'[e] = extWin[e]
                               /\ nextSend'[e] = nextSend[e]
      /\ \A d \in out : /\ d \in Datagram /\ d.dst = Peer(p)
                        /\ d.got = received[p] /\ d.ack = nextAck[p]
                        /\ d.n \in (Acked(p)' + 1)..Posted(p)'
                        /\ d.seq = Seqno(d.n - 1)
  BY <1>0, AckStep
<1>2. Posted(q)' = Posted(q) /\ Acked(q)' = Acked(q) /\ SenderOK(q)'
  BY <1>0, <1>1, SenderFrame
<1>3. PICK acks \in {{}, {ExplicitAck(p)}} : Exchange(p, m, out, acks)
  BY DEF MRAILI_Process_recv, Process_recv_data, Process_recv_control
<1>4. /\ ReceiverOK(p)'
      /\ received' \in [Ends -> Nat] /\ nextRecv' \in [Ends -> Seqs]
      /\ nextAck' \in [Ends -> Seqs] /\ recvWin' \in [Ends -> Seq(Vbuf)]
      /\ received[p] <= received'[p]
      /\ \A e \in Ends \ {p} :
            /\ received'[e] = received[e] /\ nextRecv'[e] = nextRecv[e]
            /\ nextAck'[e] = nextAck[e] /\ recvWin'[e] = recvWin[e]
  <2>1. CASE Process_recv_data(p, m)
    <3>1. ~IsControl(m) /\ mv2_ud_place_recvwin(p, m)
      BY <2>1 DEF Process_recv_data
    <3> QED BY <1>0, <1>2, <3>1, PlaceStep
  <2>2. CASE Process_recv_control(p, m)
    <3>1. UNCHANGED <<nextRecv, nextAck, recvWin, received>>
      BY <2>2 DEF Process_recv_control, recvVars
    <3>2. Acked(q)' <= Covered(received[p]) /\ Posted(q)' \in Nat /\ Posted(q) <= Posted(q)'
      <4>1. Acked(q) <= Covered(received[p]) /\ Posted(q) \in Nat
        BY <1>0, Two, Window
      <4> QED BY <1>2, <4>1
    <3>3. ReceiverOK(p)'
      BY <1>0, <3>1, <3>2, ReceiverFrame
    <3>4. received[p] <= received'[p]
      BY <1>0, <3>1, EndTypes
    <3> QED BY <1>0, <3>1, <3>3, <3>4 DEF TypeOK
  <2> QED BY <2>1, <2>2 DEF MRAILI_Process_recv
<1>5. Posted(p) <= Posted(p)'
  <2>1. Posted(p) \in Nat
    BY <1>0, Window
  <2>2. Posted(p) <= k
    BY <1>1, <2>1
  <2> QED BY <1>1, <2>2
<1>6. ReceiverOK(q)'
  <2>1. received'[q] = received[q] /\ nextRecv'[q] = nextRecv[q] /\ nextAck'[q] = nextAck[q]
        /\ recvWin'[q] = recvWin[q] /\ Peer(q) = p
    BY <1>0, <1>4, Two
  <2> QED BY <1>0, <1>1, <1>5, <2>1, ReceiverFrame
<1>7. \A e \in Ends : received[e] <= received'[e] /\ received'[e] \in Nat
  <2> SUFFICES ASSUME NEW e \in Ends PROVE received[e] <= received'[e] /\ received'[e] \in Nat
    OBVIOUS
  <2>1. received[e] \in Nat /\ received'[e] \in Nat
    BY <1>0, <1>4, EndTypes
  <2>2. CASE e = p
    BY <1>4, <2>1, <2>2
  <2>3. CASE e # p
    <3>1. received'[e] = received[e]
      BY <1>4, <2>3
    <3> QED BY <2>1, <3>1
  <2> QED BY <2>2, <2>3
<1>8. net' \subseteq Surviving(p, k) \cup out \cup acks
  BY <1>3 DEF Exchange
<1>9. \A d \in Surviving(p, k) : DatagramOK(d)' /\ d \in Datagram
  <2>1. Surviving(p, k) = Surviving(p, Posted(p)')
    BY <1>1
  <2>2. \A d \in Surviving(p, k) : DatagramOK(d)'
    BY <1>1, <1>2, <1>5, <1>7, <2>1, SurvivingNet
  <2> QED BY <1>0, <2>2 DEF TypeOK, Surviving
<1>10. ASSUME NEW d \in Datagram, d.dst = q, d.got = received[p], d.ack = nextAck[p],
              IsControl(d) \/ (d.n \in (Acked(p)' + 1)..Posted(p)' /\ d.seq = Seqno(d.n - 1))
       PROVE  DatagramOK(d)'
  BY <1>0, <1>1, <1>2, <1>7, <1>10, FreshDatagram
<1>11. \A d \in out : DatagramOK(d)' /\ d \in Datagram
  BY <1>1, <1>10
<1>12. \A d \in acks : DatagramOK(d)' /\ d \in Datagram
  <2> SUFFICES ASSUME NEW d, d = ExplicitAck(p)
               PROVE  DatagramOK(d)' /\ d \in Datagram
    OBVIOUS
  <2>1. d \in Datagram /\ d.dst = q /\ d.got = received[p] /\ d.ack = nextAck[p] /\ IsControl(d)
    BY <1>0, EndTypes, Sizes DEF ExplicitAck, Datagram, IsControl, Seqs
  <2> QED BY <1>10, <2>1
<1>13. net' \subseteq Datagram /\ \A d \in net' : DatagramOK(d)'
  <2> HIDE DEF k, out
  <2> QED BY <1>8, <1>9, <1>11, <1>12
<1>14. ackDue' \in [Ends -> BOOLEAN] /\ ackPending' \in [Ends -> Nat]
  <2>1. ackPending[p] \in Nat
    BY <1>0, EndTypes
  <2>2. CASE Process_recv_data(p, m)
    <3>1. PICK b \in Nat : ackPending' = [ackPending EXCEPT ![p] = b]
      <4> DEFINE b1 == (IF out = {} THEN ackPending[p] ELSE 0) + 1
                 b == IF b1 > MaxAckPending THEN 0 ELSE b1
      <4>1. b1 \in Nat
        BY <2>1
      <4>2. b \in Nat
        BY <4>1
      <4>3. ackPending' = [ackPending EXCEPT ![p] = b]
        BY <2>2 DEF Process_recv_data
      <4> QED BY <4>2, <4>3
    <3> QED BY <1>0, <2>2, <3>1 DEF Process_recv_data, mv2_ud_place_recvwin, TypeOK
  <2>3. CASE Process_recv_control(p, m)
    BY <1>0, <2>1, <2>3 DEF Process_recv_control, TypeOK
  <2> QED BY <2>2, <2>3 DEF MRAILI_Process_recv
<1>15. TypeOK'
  BY <1>0, <1>1, <1>4, <1>13, <1>14 DEF TypeOK
<1>16. \A e \in Ends : SenderOK(e)' /\ ReceiverOK(e)'
  <2>1. \A e \in Ends : e = p \/ e = q
    BY Two
  <2> HIDE DEF q
  <2> QED BY <1>1, <1>2, <1>4, <1>6, <2>1
<1> QED BY <1>13, <1>15, <1>16 DEF IInv

\* A turn of the loop of place_recvwin keeps the invariant and handles the next
\* message.
LEMMA DrainStep ==
    ASSUME IInv, NEW p \in Ends, UNCHANGED load, DrainRecvWindow(p)
    PROVE  /\ IInv'
           /\ Head(recvWin[p]).n = received[p] + 1 /\ received[p] + 1 <= Posted(Peer(p))
<1> USE DEF sendVars, ackVars
<1> DEFINE q == Peer(p)
           w == recvWin[p]
           n == received[p] + 1
<1>0. TypeOK /\ SenderOK(q) /\ ReceiverOK(p) /\ \A e \in Ends : SenderOK(e) /\ ReceiverOK(e)
  BY Two DEF IInv
<1>1. /\ received[p] \in Nat /\ nextRecv[p] \in Seqs /\ nextRecv[p] = Seqno(received[p])
      /\ w \in Seq(Vbuf) /\ Len(w) \in Nat
      /\ Posted(q) \in Nat /\ Acked(q) \in Nat /\ Acked(q) <= Covered(received[p])
  BY <1>0, Two, Window, EndTypes DEF ReceiverOK
<1>2. w # << >> /\ Head(w).seq = nextRecv[p]
  BY DEF DrainRecvWindow, Draining
<1>3. Head(w) = w[1] /\ 1 \in 1..Len(w) /\ Tail(w) \in Seq(Vbuf) /\ Len(Tail(w)) = Len(w) - 1
      /\ \A i \in 1..(Len(w) - 1) : Tail(w)[i] = w[i + 1]
  BY <1>1, <1>2
<1>4. w[1].n = n /\ w[1].n <= Posted(q)
  BY <1>0, <1>2, <1>3, WaitingEntries
<1>5. n \in Nat /\ n # 0 /\ n - 1 = received[p] /\ Acked(q) <= Covered(n) /\ received[p] <= n
      /\ Covered(n) = n
  <2>1. Covered(received[p]) \in Nat /\ Covered(received[p]) <= Covered(n) /\ Covered(n) = n
    BY <1>1 DEF Covered
  <2>2. n \in Nat /\ n # 0 /\ n - 1 = received[p] /\ received[p] <= n
    BY <1>1
  <2> HIDE DEF q, n
  <2> QED BY <1>1, <2>1, <2>2
<1>6. (nextRecv[p] + 1) % SeqMod = Seqno(n) /\ Seqno(n) \in Seqs
  <2>1. (Seqno(received[p]) + 1) % SeqMod = Seqno(n)
    BY <1>1, NextSeqno
  <2> QED BY <1>1, <1>5, <2>1, SeqnoType
<1>7. /\ received' = [received EXCEPT ![p] = n]
      /\ recvWin' = [recvWin EXCEPT ![p] = Tail(w)]
      /\ nextAck' = [nextAck EXCEPT ![p] = nextRecv[p]]
      /\ nextRecv' = [nextRecv EXCEPT ![p] = Seqno(n)]
      /\ UNCHANGED <<issued, nextSend, sendWin, extWin, ackDue, ackPending, net, load>>
  BY <1>3, <1>4, <1>6 DEF DrainRecvWindow
<1> HIDE DEF n, w
<1>8. /\ received'[p] = n /\ recvWin'[p] = Tail(w) /\ nextAck'[p] = nextRecv[p]
      /\ nextRecv'[p] = Seqno(n)
      /\ \A e \in Ends \ {p} :
            /\ received'[e] = received[e] /\ nextRecv'[e] = nextRecv[e]
            /\ nextAck'[e] = nextAck[e] /\ recvWin'[e] = recvWin[e]
  BY <1>0, <1>7 DEF TypeOK
<1>9. TypeOK'
  BY <1>0, <1>1, <1>3, <1>5, <1>6, <1>7 DEF TypeOK
<1>10. \A e \in Ends : Posted(e)' = Posted(e) /\ Acked(e)' = Acked(e) /\ SenderOK(e)'
  BY <1>0, <1>7, SenderFrame
<1>11. ReceiverOK(p)'
  <2>1. \A i \in 1..(Len(w) - 1) :
           /\ n < Tail(w)[i].n /\ Tail(w)[i].n <= Posted(q)
           /\ Tail(w)[i].seq = Seqno(Tail(w)[i].n - 1)
           /\ \A j \in 1..(i - 1) : Tail(w)[j].n < Tail(w)[i].n
    <3> SUFFICES ASSUME NEW i \in 1..(Len(w) - 1)
                 PROVE  /\ n < w[i + 1].n /\ w[i + 1].n <= Posted(q)
                        /\ w[i + 1].seq = Seqno(w[i + 1].n - 1)
                        /\ \A j \in 1..(i - 1) : w[j + 1].n < w[i + 1].n
      BY <1>1, <1>3
    <3>1. i + 1 \in 1..Len(w) /\ 1 \in 1..((i + 1) - 1)
          /\ \A j \in 1..(i - 1) : j + 1 \in 1..((i + 1) - 1)
      BY <1>1
    <3> QED BY <1>0, <1>4, <3>1, WaitingEntries DEF w
  <2>2. Acknowledges(nextAck'[p], n)
    BY <1>1, <1>5, <1>8 DEF Acknowledges, Covered
  <2>3. Acked(q)' <= Covered(received'[p]) /\ received'[p] <= Posted(q)'
    BY <1>4, <1>5, <1>8, <1>10, Two
  <2>4. \A i \in 1..Len(recvWin'[p]) :
           /\ received'[p] < recvWin'[p][i].n /\ recvWin'[p][i].n <= Posted(q)'
           /\ recvWin'[p][i].seq = Seqno(recvWin'[p][i].n - 1)
           /\ \A j \in 1..(i - 1) : recvWin'[p][j].n < recvWin'[p][i].n
    BY <1>3, <1>8, <1>10, <2>1, Two
  <2> QED BY <1>8, <2>2, <2>3, <2>4 DEF ReceiverOK, Acknowledges, Covered, Seqno
<1>12. ReceiverOK(q)'
  <2>1. received'[q] = received[q] /\ nextRecv'[q] = nextRecv[q] /\ nextAck'[q] = nextAck[q]
        /\ recvWin'[q] = recvWin[q] /\ Peer(q) = p /\ q \in Ends
    BY <1>8, Two
  <2>2. Acked(p)' <= Covered(received[q]) /\ Posted(p)' \in Nat /\ Posted(p) <= Posted(p)'
    <3>1. Acked(p) <= Covered(received[q]) /\ Posted(p) \in Nat
      BY <1>0, <2>1, Window
    <3> QED BY <1>10, <3>1
  <2> QED BY <1>0, <2>1, <2>2, ReceiverFrame
<1>13. \A e \in Ends : received[e] <= received'[e] /\ received'[e] \in Nat
  <2> SUFFICES ASSUME NEW e \in Ends PROVE received[e] <= received'[e] /\ received'[e] \in Nat
    OBVIOUS
  <2>1. received[e] \in Nat
    BY <1>0, EndTypes
  <2>2. CASE e = p
    BY <1>5, <1>8, <2>2
  <2>3. CASE e # p
    <3>1. received'[e] = received[e]
      BY <1>8, <2>3
    <3> QED BY <2>1, <3>1
  <2> QED BY <2>2, <2>3
<1>14. \A m \in net : DatagramOK(m)'
  BY <1>10, <1>13, QuietNet
<1>15. \A e \in Ends : SenderOK(e)' /\ ReceiverOK(e)'
  <2>1. \A e \in Ends : e = p \/ e = q
    BY Two
  <2> HIDE DEF q
  <2> QED BY <1>10, <1>11, <1>12, <2>1
<1>16. IInv'
  BY <1>7, <1>9, <1>14, <1>15 DEF IInv
<1> QED BY <1>3, <1>4, <1>16 DEF n, w

\* Resends and explicit acks keep the invariant.
LEMMA TimeoutStep ==
    ASSUME IInv, NEW p \in Ends, NEW expired \in SUBSET Unacked(p), UNCHANGED load,
           ProgressTimeout(p, expired)
    PROVE  IInv'
<1>0. TypeOK /\ \A e \in Ends : SenderOK(e) /\ ReceiverOK(e)
  BY DEF IInv
<1>1. UNCHANGED <<issued, nextSend, sendWin, extWin, nextRecv, nextAck, recvWin, received>>
  BY DEF ProgressTimeout, recvVars
<1>2. \A e \in Ends : Posted(e)' = Posted(e) /\ Acked(e)' = Acked(e) /\ SenderOK(e)'
  BY <1>0, <1>1, SenderFrame
<1>3. \A e \in Ends : Posted(e) \in Nat /\ Acked(e) \in Nat /\ Acked(e) <= Covered(received[Peer(e)])
                      /\ Posted(e) <= Acked(e) + SendWin + 1 /\ received[e] \in Nat
  BY <1>0, Two, Window, EndTypes
<1>4. \A e \in Ends : ReceiverOK(e)'
  <2> SUFFICES ASSUME NEW e \in Ends PROVE ReceiverOK(e)'
    OBVIOUS
  <2>1. Acked(Peer(e))' <= Covered(received[e]) /\ Posted(Peer(e))' \in Nat
        /\ Posted(Peer(e)) <= Posted(Peer(e))'
    <3>1. Acked(Peer(e)) <= Covered(received[e]) /\ Posted(Peer(e)) \in Nat
      BY <1>3, Two
    <3> QED BY <1>2, <3>1, Two
  <2> QED BY <1>0, <1>1, <2>1, ReceiverFrame
<1>5. \A e \in Ends : received[e] <= received'[e] /\ received'[e] \in Nat
  BY <1>1, <1>3
<1>6. \A m \in net : DatagramOK(m)' /\ m \in Datagram
  BY <1>0, <1>2, <1>5, QuietNet DEF TypeOK
<1>7. ASSUME NEW d \in Datagram, d.dst = Peer(p), d.got = received[p], d.ack = nextAck[p],
             IsControl(d) \/ (d.n \in (Acked(p) + 1)..Posted(p) /\ d.seq = Seqno(d.n - 1))
      PROVE  DatagramOK(d)'
  <2>1. Acked(p)' = Acked(p) /\ Posted(p)' = Posted(p) /\ Posted(Peer(p))' = Posted(Peer(p))
    BY <1>2, Two
  <2>2. Acked(p)' \in Nat /\ Posted(p)' \in Nat /\ Posted(p)' <= Acked(p)' + SendWin + 1
    BY <1>3, <2>1
  <2>3. IsControl(d) \/ (d.n \in (Acked(p)' + 1)..Posted(p)' /\ d.seq = Seqno(d.n - 1))
    BY <1>7, <2>1
  <2> QED BY <1>0, <1>5, <1>7, <2>1, <2>2, <2>3, Two, FreshDatagram
<1>8. ASSUME NEW v \in expired, NEW d, d = Data(p, v)
      PROVE  d \in Datagram /\ DatagramOK(d)'
  <2>1. PICK i \in 1..Len(sendWin[p]) : v = sendWin[p][i]
    BY DEF Unacked
  <2> DEFINE n == Acked(p) + i
  <2>2. v = [seq |-> Seqno(n - 1), n |-> n]
    <3>1. v = [seq |-> Seqno(Acked(p) + i - 1), n |-> Acked(p) + i]
      BY <1>0, <2>1 DEF SenderOK
    <3>2. Acked(p) + i - 1 = n - 1
      BY <1>3
    <3> QED BY <3>1, <3>2
  <2>3. n \in (Acked(p) + 1)..Posted(p) /\ n \in Nat /\ n - 1 \in Nat
    <3>1. Posted(p) = Acked(p) + Len(sendWin[p]) /\ Len(sendWin[p]) \in Nat
      BY <1>0, EndTypes
    <3> QED BY <1>3, <3>1
  <2> HIDE DEF n
  <2>4. v.seq = Seqno(n - 1) /\ v.n = n /\ Seqno(n - 1) \in Seqs
    BY <2>2, <2>3, SeqnoType
  <2>5. /\ d \in Datagram /\ d.dst = Peer(p) /\ d.got = received[p] /\ d.ack = nextAck[p]
        /\ d.n = n /\ d.seq = Seqno(n - 1)
    <3>1. nextAck[p] \in Seqs /\ Peer(p) \in Ends /\ received[p] \in Nat
      BY <1>0, EndTypes, Two
    <3> QED BY <1>8, <2>3, <2>4, <3>1 DEF Data, Datagram
  <2>6. d.n \in (Acked(p) + 1)..Posted(p) /\ d.seq = Seqno(d.n - 1)
    BY <2>3, <2>5
  <2> QED BY <1>7, <2>5, <2>6
<1>9. ASSUME NEW d, d = ExplicitAck(p)
      PROVE  d \in Datagram /\ DatagramOK(d)'
  <2>1. nextAck[p] \in Seqs /\ Peer(p) \in Ends /\ received[p] \in Nat
    BY <1>0, EndTypes, Two
  <2>2. d \in Datagram /\ d.dst = Peer(p) /\ d.got = received[p] /\ d.ack = nextAck[p] /\ IsControl(d)
    BY <1>9, <2>1, Sizes DEF ExplicitAck, Datagram, IsControl, Seqs
  <2> QED BY <1>7, <2>2
<1>10. \A d \in net' : d \in net \/ (\E v \in expired : d = Data(p, v)) \/ d = ExplicitAck(p)
  BY DEF ProgressTimeout, StillUnderWay, TimeoutAcks
<1>11. \A d \in net' : d \in Datagram /\ DatagramOK(d)'
  BY <1>6, <1>8, <1>9, <1>10
<1>12. ackDue' \in [Ends -> BOOLEAN] /\ ackPending' \in [Ends -> Nat]
  BY <1>0 DEF ProgressTimeout, TypeOK
<1>13. TypeOK'
  BY <1>0, <1>1, <1>11, <1>12 DEF TypeOK
<1> QED BY <1>2, <1>4, <1>11, <1>13 DEF IInv

\* The loss of a datagram keeps the invariant.
LEMMA LossStep ==
    ASSUME IInv, NEW m \in net, UNCHANGED load, LoseDatagram(m)
    PROVE  IInv'
<1> USE DEF sendVars, recvVars, ackVars
<1>0. TypeOK /\ \A e \in Ends : SenderOK(e) /\ ReceiverOK(e)
  BY DEF IInv
<1>1. net' \subseteq net /\ UNCHANGED <<load, sendVars, recvVars, ackVars>>
  BY DEF LoseDatagram
<1>2. TypeOK'
  BY <1>0, <1>1 DEF TypeOK
<1>3. \A e \in Ends : SenderOK(e)' /\ ReceiverOK(e)' /\ Posted(e)' = Posted(e)
  BY <1>0, <1>1 DEF SenderOK, ReceiverOK, Posted, Acked, Acknowledges, Covered, Seqno
<1>4. \A e \in Ends : received[e] <= received'[e] /\ received'[e] \in Nat
  BY <1>0, <1>1, EndTypes
<1>5. \A d \in net : DatagramOK(d)'
  BY <1>3, <1>4, QuietNet
<1> QED BY <1>1, <1>2, <1>3, <1>5 DEF IInv

\* The invariant holds at first.
LEMMA InvInit == Init => IInv
<1> SUFFICES ASSUME Init PROVE IInv
  OBVIOUS
<1>1. \A p \in Ends : /\ issued[p] = 0 /\ nextSend[p] = 0 /\ nextRecv[p] = 0 /\ received[p] = 0
                      /\ sendWin[p] = << >> /\ extWin[p] = << >> /\ recvWin[p] = << >>
                      /\ nextAck[p] = 0
  BY DEF Init
<1>2. \A p \in Ends : Posted(p) = 0 /\ Acked(p) = 0
  BY <1>1 DEF Posted, Acked
<1>3. Seqno(0) = 0 /\ 0 \in Seqs
  BY SmallSeqno, Sizes DEF Seqs
<1>4. TypeOK
  BY <1>3 DEF Init, TypeOK
<1>5. \A p \in Ends : SenderOK(p)
  BY <1>1, <1>2, <1>3, Sizes DEF SenderOK
<1>6. \A p \in Ends : ReceiverOK(p)
  BY <1>1, <1>2, <1>3, Two DEF ReceiverOK, Acknowledges, Covered
<1>7. net = {}
  BY DEF Init
<1> QED BY <1>4, <1>5, <1>6, <1>7 DEF IInv

\* Every step keeps the invariant.
LEMMA InvStep == IInv /\ [Next]_vars => IInv'
<1> SUFFICES ASSUME IInv, [Next]_vars PROVE IInv'
  OBVIOUS
<1>1. ASSUME NEW p \in Ends, UNCHANGED load, post_ud_send(p)
      PROVE  IInv'
  BY <1>1, PostStep
<1>2. ASSUME NEW p \in Ends, NEW m \in net, UNCHANGED load, MRAILI_Process_recv(p, m)
      PROVE  IInv'
  BY <1>2, ReceiveStep
<1>3. ASSUME NEW p \in Ends, UNCHANGED load, DrainRecvWindow(p)
      PROVE  IInv'
  BY <1>3, DrainStep
<1>4. ASSUME NEW p \in Ends, NEW expired \in SUBSET Unacked(p), UNCHANGED load,
             ProgressTimeout(p, expired)
      PROVE  IInv'
  BY <1>4, TimeoutStep
<1>5. ASSUME NEW m \in net, UNCHANGED load, LoseDatagram(m)
      PROVE  IInv'
  BY <1>5, LossStep
<1>6. CASE UNCHANGED vars
  BY <1>6 DEF vars, sendVars, recvVars, ackVars, IInv, TypeOK, SenderOK, ReceiverOK, DatagramOK,
              Posted, Acked, Acknowledges, Covered, Seqno
<1> QED BY <1>1, <1>2, <1>3, <1>4, <1>5, <1>6 DEF Next

\* The invariant holds for any window sizes, loads and life time that the assumptions
\* allow, whatever is lost, repeated or delayed.
THEOREM WindowInvariant == Spec => []IInv
<1>1. Init => IInv
  BY InvInit
<1>2. IInv /\ [Next]_vars => IInv'
  BY InvStep
<1> QED BY <1>1, <1>2, PTL DEF Spec

\* A message other than the first leaves the send window (mv2_ud_process_ack) only
\* when the peer has handled it, for every size of the windows and although numbers
\* wrap; the first one may, by the ack that is carried before the first receipt.
THEOREM NeverFalselyAcked == Spec => []OnlyFirstEarly
<1>1. IInv => OnlyFirstEarly
  <2> SUFFICES ASSUME IInv, NEW p \in Ends
               PROVE  Acked(p) <= received[Peer(p)] \/ Acked(p) = 1
    BY DEF OnlyFirstEarly
  <2>1. TypeOK /\ SenderOK(p) /\ ReceiverOK(Peer(p))
    BY Two DEF IInv
  <2>2. Acked(p) \in Nat /\ Acked(p) <= Covered(received[Peer(p)]) /\ received[Peer(p)] \in Nat
    BY <2>1, Window, EndTypes, Two
  <2> QED BY <2>2 DEF Covered
<1>2. Spec => []IInv
  BY WindowInvariant
<1> QED BY <1>1, <1>2, PTL

\* The two windows of the sender hold exactly the unacknowledged messages, in order,
\* under the numbers that the receiver counts (post_ud_send, process_ack,
\* flush_ext_window).
THEOREM WindowsAlwaysInStep == Spec => []WindowsInStep
<1>1. IInv => WindowsInStep
  <2> SUFFICES ASSUME IInv, NEW p \in Ends
               PROVE  /\ \A i \in 1..Len(sendWin[p]) :
                            /\ sendWin[p][i].n = Acked(p) + i
                            /\ sendWin[p][i].seq = (Acked(p) + i - 1) % SeqMod
                      /\ \A i \in 1..Len(extWin[p]) : extWin[p][i] = Posted(p) + i
    BY DEF WindowsInStep
  <2>1. SenderOK(p)
    BY DEF IInv
  <2>2. ASSUME NEW i \in 1..Len(sendWin[p])
        PROVE  /\ sendWin[p][i].n = Acked(p) + i
               /\ sendWin[p][i].seq = (Acked(p) + i - 1) % SeqMod
    <3> DEFINE v == sendWin[p][i]
               k == Seqno(Acked(p) + i - 1)
    <3>1. v = [seq |-> k, n |-> Acked(p) + i]
      BY <2>1 DEF SenderOK
    <3>2. k = (Acked(p) + i - 1) % SeqMod
      BY DEF Seqno
    <3> HIDE DEF v, k
    <3>3. v.n = Acked(p) + i /\ v.seq = k
      BY <3>1
    <3> QED BY <3>2, <3>3 DEF v
  <2> QED BY <2>1, <2>2 DEF SenderOK
<1>2. Spec => []IInv
  BY WindowInvariant
<1> QED BY <1>1, <1>2, PTL

\* A message waits in the extended window only while the send window is full, so that
\* an ack that posts it is still to come.
THEOREM NobodyStranded == Spec => []NoStrandedExt
<1>1. IInv => NoStrandedExt
  BY DEF IInv, SenderOK, NoStrandedExt
<1>2. Spec => []IInv
  BY WindowInvariant
<1> QED BY <1>1, <1>2, PTL
-----------------------------------------------------------------------------
(* The refinement of FifoChannels. *)

\* The messages after the first a up to b.
Consecutive(a, b) == [i \in 1..(b - a) |-> a + i]

\* Sending the next message appends it to the consecutive ones in between.
LEMMA ConsecutiveAppend ==
    ASSUME NEW a \in Nat, NEW b \in Nat, a <= b
    PROVE  Append(Consecutive(a, b), b + 1) = Consecutive(a, b + 1)
<1>1. /\ Consecutive(a, b) \in Seq(Nat) /\ Len(Consecutive(a, b)) = b - a
      /\ \A i \in 1..(b - a) : Consecutive(a, b)[i] = a + i
  BY DEF Consecutive
<1>2. /\ Consecutive(a, b + 1) \in Seq(Nat) /\ Len(Consecutive(a, b + 1)) = b + 1 - a
      /\ \A i \in 1..(b + 1 - a) : Consecutive(a, b + 1)[i] = a + i
  BY DEF Consecutive
<1> DEFINE s == Append(Consecutive(a, b), b + 1)
           t == Consecutive(a, b + 1)
<1>3. s \in Seq(Nat) /\ Len(s) = b - a + 1
  BY <1>1
<1>4. ASSUME NEW i \in 1..Len(s) PROVE s[i] = t[i]
  <2>1. CASE i = b - a + 1
    BY <1>1, <1>2, <1>3, <2>1
  <2>2. CASE i # b - a + 1
    <3>1. i \in 1..(b - a) /\ i \in 1..(b + 1 - a)
      BY <1>3, <2>2
    <3> QED BY <1>1, <1>2, <3>1
  <2> QED BY <2>1, <2>2
<1>5. Len(s) = Len(t) /\ t \in Seq(Nat)
  BY <1>2, <1>3
<1> HIDE DEF s, t
<1>6. s = t
  BY ONLY <1>3, <1>4, <1>5, SeqEqual
<1> QED BY <1>6 DEF s, t

\* Handling a message takes the first of the consecutive ones in between.
LEMMA ConsecutiveTail ==
    ASSUME NEW a \in Nat, NEW b \in Nat, a < b
    PROVE  /\ Consecutive(a, b) # << >> /\ Head(Consecutive(a, b)) = a + 1
           /\ Tail(Consecutive(a, b)) = Consecutive(a + 1, b)
<1> DEFINE u == Consecutive(a, b)
           s == Tail(u)
           t == Consecutive(a + 1, b)
<1>1. /\ u \in Seq(Nat) /\ Len(u) = b - a /\ \A i \in 1..(b - a) : u[i] = a + i
  BY DEF Consecutive
<1>2. /\ t \in Seq(Nat) /\ Len(t) = b - (a + 1)
      /\ \A i \in 1..(b - (a + 1)) : t[i] = a + 1 + i
  BY DEF Consecutive
<1> HIDE DEF u, t
<1>3. u # << >> /\ Head(u) = a + 1
  BY <1>1
<1>4. s \in Seq(Nat) /\ Len(s) = b - a - 1 /\ \A i \in 1..(b - a - 1) : s[i] = u[i + 1]
  BY <1>1, <1>3
<1> HIDE DEF s
<1>5. ASSUME NEW i \in 1..Len(s) PROVE s[i] = t[i]
  <2>1. i \in 1..(b - a - 1) /\ i + 1 \in 1..(b - a) /\ i \in 1..(b - (a + 1))
    BY <1>4
  <2> QED BY <1>1, <1>2, <1>4, <2>1
<1>6. Len(s) = Len(t)
  BY <1>2, <1>4
<1>7. s = t
  <2>1. s \in Seq(Nat) /\ t \in Seq(Nat)
    BY <1>2, <1>4
  <2> QED BY ONLY <2>1, <1>5, <1>6, SeqEqual
<1> QED BY <1>3, <1>7 DEF u, s, t

\* The three variables of FifoChannels as operators on the numbers sent and received,
\* so that facts on tables hold in any state.
IssuedOf(s) == [p \in Ends |-> [q \in Ends |-> IF q = Peer(p) THEN s[p] ELSE 0]]
HandledOf(r) == [p \in Ends |-> [q \in Ends |-> IF q = Peer(p) THEN r[q] ELSE 0]]
UnhandledOf(s, r) ==
    [p \in Ends |-> [q \in Ends |-> IF q = Peer(p) THEN Consecutive(r[q], s[p]) ELSE << >>]]

\* The variables of the refinement are tables of the numbers of messages issued and
\* received.
LEMMA TablesAre ==
    /\ Issued = IssuedOf(issued) /\ Handled = HandledOf(received)
    /\ Unhandled = UnhandledOf(issued, received)
<1>1. Issued = IssuedOf(issued) /\ Handled = HandledOf(received)
  BY DEF Issued, IssuedOf, Handled, HandledOf
<1>2. ASSUME NEW p \in Ends, NEW q \in Ends
      PROVE  [i \in 1..(Issued[p][q] - Handled[p][q]) |-> Handled[p][q] + i] =
                IF q = Peer(p) THEN Consecutive(received[q], issued[p]) ELSE << >>
  <2>1. CASE q = Peer(p)
    BY <2>1 DEF Issued, Handled, Consecutive
  <2>2. CASE q # Peer(p)
    <3>1. Issued[p][q] = 0 /\ Handled[p][q] = 0
      BY <2>2 DEF Issued, Handled
    <3>2. [i \in 1..(0 - 0) |-> 0 + i] = << >>
      OBVIOUS
    <3> QED BY <2>2, <3>1, <3>2
  <2> QED BY <2>1, <2>2
<1>3. Unhandled = UnhandledOf(issued, received)
  BY <1>2 DEF Unhandled, UnhandledOf
<1> QED BY <1>1, <1>3

\* So they are in the next state.
LEMMA TablesNext ==
    /\ Issued' = IssuedOf(issued') /\ Handled' = HandledOf(received')
    /\ Unhandled' = UnhandledOf(issued', received')
<1>1. (/\ Issued = IssuedOf(issued) /\ Handled = HandledOf(received)
       /\ Unhandled = UnhandledOf(issued, received))'
  BY TablesAre, PTL
<1> QED BY <1>1

\* The tables after end p has sent a message.
SendsOne(s, r, p) ==
    LET t == [s EXCEPT ![p] = s[p] + 1] IN
    /\ IssuedOf(t) = [IssuedOf(s) EXCEPT ![p][Peer(p)] = @ + 1]
    /\ UnhandledOf(t, r) = [UnhandledOf(s, r) EXCEPT ![p][Peer(p)] =
                               Append(@, IssuedOf(s)[p][Peer(p)] + 1)]

\* The tables after end p has handled a message.
HandlesOne(s, r, p) ==
    LET q == Peer(p)
        t == [r EXCEPT ![p] = r[p] + 1] IN
    /\ UnhandledOf(s, r)[q][p] # << >>
    /\ Head(UnhandledOf(s, r)[q][p]) = HandledOf(r)[q][p] + 1
    /\ HandledOf(t) = [HandledOf(r) EXCEPT ![q][p] = @ + 1]
    /\ UnhandledOf(s, t) = [UnhandledOf(s, r) EXCEPT ![q][p] = Tail(@)]

\* The tables change as a channel does when one message is sent.
LEMMA SentOne ==
    ASSUME NEW s \in [Ends -> Nat], NEW r \in [Ends -> Nat], NEW p \in Ends,
           r[Peer(p)] <= s[p]
    PROVE  SendsOne(s, r, p)
<1> DEFINE q == Peer(p)
           t == [s EXCEPT ![p] = s[p] + 1]
<1>1. q \in Ends /\ t[p] = s[p] + 1 /\ \A e \in Ends : e # p => t[e] = s[e]
  BY Two
<1>2. IssuedOf(s)[p][q] = s[p] /\ UnhandledOf(s, r)[p][q] = Consecutive(r[q], s[p])
  BY <1>1 DEF IssuedOf, UnhandledOf
<1>3. Append(Consecutive(r[q], s[p]), s[p] + 1) = Consecutive(r[q], s[p] + 1)
  BY <1>1, ConsecutiveAppend
<1>4. IssuedOf(t) = [IssuedOf(s) EXCEPT ![p][q] = s[p] + 1]
  BY <1>1 DEF IssuedOf
<1>5. UnhandledOf(t, r) = [UnhandledOf(s, r) EXCEPT ![p][q] = Consecutive(r[q], s[p] + 1)]
  BY <1>1 DEF UnhandledOf
<1> QED BY <1>1, <1>2, <1>3, <1>4, <1>5 DEF SendsOne

\* The tables change as a channel does when one message is handled.
LEMMA HandledOne ==
    ASSUME NEW s \in [Ends -> Nat], NEW r \in [Ends -> Nat], NEW p \in Ends,
           r[p] < s[Peer(p)]
    PROVE  HandlesOne(s, r, p)
<1> DEFINE q == Peer(p)
           t == [r EXCEPT ![p] = r[p] + 1]
<1>1. q \in Ends /\ Peer(q) = p /\ Peer(p) = q /\ q # p /\ t[p] = r[p] + 1 /\ \A e \in Ends : e # p => t[e] = r[e]
  BY Two
<1>2. HandledOf(r)[q][p] = r[p] /\ UnhandledOf(s, r)[q][p] = Consecutive(r[p], s[q])
  BY <1>1 DEF HandledOf, UnhandledOf
<1>3. /\ Consecutive(r[p], s[q]) # << >> /\ Head(Consecutive(r[p], s[q])) = r[p] + 1
      /\ Tail(Consecutive(r[p], s[q])) = Consecutive(r[p] + 1, s[q])
  BY <1>1, ConsecutiveTail
<1>4. \A e \in Ends : e = p \/ e = q
  BY Two
<1> HIDE DEF q, t
<1>5. HandledOf(t) = [HandledOf(r) EXCEPT ![q][p] = r[p] + 1]
  <2>1. \A a, b \in Ends : (IF b = Peer(a) THEN t[b] ELSE 0) =
           IF a = q /\ b = p THEN r[p] + 1 ELSE IF b = Peer(a) THEN r[b] ELSE 0
    BY <1>1, <1>4
  <2>2. HandledOf(t) = [a \in Ends |-> [b \in Ends |->
           IF a = q /\ b = p THEN r[p] + 1 ELSE IF b = Peer(a) THEN r[b] ELSE 0]]
    BY <2>1 DEF HandledOf
  <2> QED BY <1>1, <2>2 DEF HandledOf
<1>6. UnhandledOf(s, t) = [UnhandledOf(s, r) EXCEPT ![q][p] = Consecutive(r[p] + 1, s[q])]
  <2>1. ASSUME NEW a \in Ends, NEW b \in Ends
        PROVE  (IF b = Peer(a) THEN Consecutive(t[b], s[a]) ELSE << >>) =
               IF a = q /\ b = p THEN Consecutive(r[p] + 1, s[q])
               ELSE IF b = Peer(a) THEN Consecutive(r[b], s[a]) ELSE << >>
    <3>1. CASE a = q /\ b = p
      BY ONLY <1>1, <3>1
    <3>2. CASE a = q /\ b # p
      BY ONLY <1>1, <3>2
    <3>3. CASE a = p
      <4>1. ~(a = q /\ b = p)
        BY ONLY <1>1, <3>3
      <4>2. b = Peer(a) => t[b] = r[b]
        BY ONLY <1>1, <3>3
      <4> QED BY ONLY <4>1, <4>2
    <3> QED BY <1>4, <3>1, <3>2, <3>3
  <2> QED BY <1>1, <2>1 DEF UnhandledOf
<1> QED BY <1>1, <1>2, <1>3, <1>5, <1>6 DEF q, t, HandlesOne

\* post_ud_send sends a message over the channel.
LEMMA SendMaps ==
    ASSUME IInv, NEW p \in Ends, post_ud_send(p)
    PROVE  Fifo!Send(p, Peer(p))
<1>1. issued' = [issued EXCEPT ![p] = issued[p] + 1] /\ received' = received
  BY DEF post_ud_send, recvVars
<1>2. TypeOK /\ SenderOK(p) /\ ReceiverOK(Peer(p))
  BY Two DEF IInv
<1>3. received[Peer(p)] <= issued[p] /\ issued \in [Ends -> Nat] /\ received \in [Ends -> Nat]
  <2>1. received[Peer(p)] \in Nat /\ issued[p] \in Nat
    BY <1>2, EndTypes, Two
  <2> QED BY <1>2, <2>1, Window DEF TypeOK
<1>4. /\ Issued' = IssuedOf(issued') /\ Handled' = HandledOf(received')
      /\ Unhandled' = UnhandledOf(issued', received')
  BY TablesNext
<1>5. /\ IssuedOf(issued') = [IssuedOf(issued) EXCEPT ![p][Peer(p)] = @ + 1]
      /\ UnhandledOf(issued', received) =
            [UnhandledOf(issued, received) EXCEPT ![p][Peer(p)] =
                Append(@, IssuedOf(issued)[p][Peer(p)] + 1)]
  <2>1. SendsOne(issued, received, p)
    BY <1>3, SentOne
  <2> QED BY <1>1, <2>1 DEF SendsOne
<1> QED BY <1>1, <1>4, <1>5, TablesAre DEF Fifo!Send

\* Handling the next message takes it from the channel.
LEMMA ReceiveMaps ==
    ASSUME IInv, NEW p \in Ends, received' = [received EXCEPT ![p] = received[p] + 1],
           received[p] + 1 <= Posted(Peer(p)), issued' = issued
    PROVE  Fifo!Receive(Peer(p), p)
<1>1. TypeOK /\ SenderOK(Peer(p)) /\ ReceiverOK(p)
  BY Two DEF IInv
<1>2. received[p] < issued[Peer(p)] /\ issued \in [Ends -> Nat] /\ received \in [Ends -> Nat]
  <2>1. received[p] \in Nat /\ issued[Peer(p)] \in Nat
    BY <1>1, EndTypes, Two
  <2>2. Posted(Peer(p)) <= issued[Peer(p)] /\ Posted(Peer(p)) \in Nat
    BY <1>1, Window, Two
  <2> QED BY <1>1, <2>1, <2>2 DEF TypeOK
<1>3. /\ Issued' = IssuedOf(issued') /\ Handled' = HandledOf(received')
      /\ Unhandled' = UnhandledOf(issued', received')
  BY TablesNext
<1>4. LET q == Peer(p) IN
      /\ UnhandledOf(issued, received)[q][p] # << >>
      /\ Head(UnhandledOf(issued, received)[q][p]) = HandledOf(received)[q][p] + 1
      /\ HandledOf(received') = [HandledOf(received) EXCEPT ![q][p] = @ + 1]
      /\ UnhandledOf(issued, received') = [UnhandledOf(issued, received) EXCEPT ![q][p] = Tail(@)]
  <2>1. HandlesOne(issued, received, p)
    BY <1>2, HandledOne
  <2> QED BY <2>1 DEF HandlesOne
<1> QED BY <1>3, <1>4, TablesAre DEF Fifo!Receive

\* Other steps leave the channels alone.
LEMMA StutterMaps ==
    ASSUME UNCHANGED <<issued, received>>
    PROVE  UNCHANGED Fifo!vars
<1>1. UNCHANGED <<Issued, Handled>>
  BY DEF Issued, Handled
<1>2. UNCHANGED Unhandled
  BY <1>1 DEF Unhandled
<1> QED BY <1>1, <1>2 DEF Fifo!vars

\* Every step is a step of the channels or leaves them alone: a datagram handled in
\* place_recvwin or its loop is a receipt; retransmissions, duplicates, acks and
\* losses are none.
LEMMA MapsToFifo ==
    ASSUME IInv, [Next]_vars
    PROVE  [Fifo!Next]_(Fifo!vars)
<1>1. ASSUME NEW p \in Ends, post_ud_send(p)
      PROVE  Fifo!Next
  BY <1>1, SendMaps, Two DEF Fifo!Next
<1>2. ASSUME NEW p \in Ends, NEW m \in net, MRAILI_Process_recv(p, m)
      PROVE  Fifo!Next \/ UNCHANGED Fifo!vars
  <2>1. issued' = issued /\ m.dst = p
    BY <1>2 DEF MRAILI_Process_recv, Process_recv_data, Process_recv_control, mv2_ud_process_ack
  <2>2. CASE received' = received
    BY <2>1, <2>2, StutterMaps
  <2>3. CASE received' # received
    <3>1. /\ received' = [received EXCEPT ![p] = m.n] /\ m.seq = nextRecv[p] /\ ~IsControl(m)
      BY <1>2, <2>3 DEF MRAILI_Process_recv, Process_recv_data, Process_recv_control,
                        mv2_ud_place_recvwin, recvVars
    <3>2. TypeOK /\ SenderOK(Peer(p)) /\ ReceiverOK(p) /\ DatagramOK(m)
      BY Two DEF IInv
    <3>3. m.n = received[p] + 1 /\ m.n <= Posted(Peer(p))
      BY <2>1, <3>1, <3>2, ArrivesAhead
    <3>4. received' = [received EXCEPT ![p] = received[p] + 1]
      BY <3>1, <3>3
    <3>5. received[p] + 1 <= Posted(Peer(p))
      BY <3>3
    <3>6. Fifo!Receive(Peer(p), p)
      BY <2>1, <3>4, <3>5, ReceiveMaps
    <3> QED BY <3>6, Two DEF Fifo!Next
  <2> QED BY <2>2, <2>3
<1>3. ASSUME NEW p \in Ends, UNCHANGED load, DrainRecvWindow(p)
      PROVE  Fifo!Next
  <2>1. issued' = issued /\ received' = [received EXCEPT ![p] = Head(recvWin[p]).n]
    BY <1>3 DEF DrainRecvWindow, sendVars
  <2>2. Head(recvWin[p]).n = received[p] + 1 /\ received[p] + 1 <= Posted(Peer(p))
    BY <1>3, DrainStep
  <2> QED BY <2>1, <2>2, ReceiveMaps, Two DEF Fifo!Next
<1>4. ASSUME NEW p \in Ends, NEW expired \in SUBSET Unacked(p), ProgressTimeout(p, expired)
      PROVE  UNCHANGED Fifo!vars
  BY <1>4, StutterMaps DEF ProgressTimeout, recvVars
<1>5. ASSUME NEW m \in net, LoseDatagram(m)
      PROVE  UNCHANGED Fifo!vars
  BY <1>5, StutterMaps DEF LoseDatagram, sendVars, recvVars
<1>6. CASE UNCHANGED vars
  BY <1>6, StutterMaps DEF vars, sendVars, recvVars
<1> QED BY <1>1, <1>2, <1>3, <1>4, <1>5, <1>6 DEF Next

\* At first the channels are empty.
LEMMA FifoAtFirst == Init => Fifo!Init
<1> SUFFICES ASSUME Init PROVE Fifo!Init
  OBVIOUS
<1>1. issued = [p \in Ends |-> 0] /\ received = [p \in Ends |-> 0]
  BY DEF Init
<1>2. Consecutive(0, 0) = << >>
  BY DEF Consecutive
<1>3. /\ Issued = [p \in Ends |-> [q \in Ends |-> 0]]
      /\ Handled = [p \in Ends |-> [q \in Ends |-> 0]]
      /\ Unhandled = [p \in Ends |-> [q \in Ends |-> << >>]]
  BY <1>1, <1>2, TablesAre, Two DEF IssuedOf, HandledOf, UnhandledOf
<1> QED BY <1>3 DEF Fifo!Init

\* The datagram transport (post_ud_send to place_recvwin) implements a pair of
\* reliable FIFO channels: messages are handed up exactly once and in order.
THEOREM ExactlyOnceInOrder == Spec => InOrder
<1>1. Init => Fifo!Init
  BY FifoAtFirst
<1>2. IInv /\ [Next]_vars => [Fifo!Next]_(Fifo!vars)
  BY MapsToFifo
<1>3. Spec => []IInv
  BY WindowInvariant
<1> QED BY <1>1, <1>2, <1>3, PTL DEF Spec, InOrder, Fifo!Spec
=============================================================================
