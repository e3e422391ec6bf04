--------------------------- MODULE SendQueueProofs ---------------------------
(***************************************************************************)
(* Two results about SendQueue, for any number of rails, work requests and *)
(* messages.                                                               *)
(*                                                                         *)
(* The data of a rendezvous is written before its FINISH counts, with      *)
(* coalescing and without: All(q) is what rail q has to complete, in       *)
(* order, and whatever a step inserts, moves or completes there, the       *)
(* FINISH stays behind the data (Ahead).                                   *)
(*                                                                         *)
(* Without coalescing messages are handed up in order, and none is left    *)
(* behind: on each rail the numbers on their way rise, each number from    *)
(* the expected one on is on exactly one rail.                             *)
(***************************************************************************)
EXTENDS SendQueue, SequenceTheorems, TLAPS

\* Buffers and the queues of a rail, whatever their numbers.
Buffers == [kind : {"eager", "finish", "data"}, num : Int, msgs : Seq(Int) \ {<< >>}]
RailQueues == [ext : Seq(Buffers), posted : Seq(Buffers), wire : Seq(Buffers)]

\* A buffer hands up message m; or is the data of the rendezvous with first FINISH n.
Carries(v, m) == v.kind # "data" /\ \E k \in DOMAIN v.msgs : v.msgs[k] = m
IsData(v, n) == v.kind = "data" /\ v.msgs[1] = n

\* What a rail has to complete, in order, and how much of it has left the wire.
All(q) == q.posted \o q.ext
Gone(q) == Len(q.posted) - Len(q.wire)

\* No more is posted than there are work requests, and the wire holds the last of it.
Posts(q) ==
    /\ Len(q.wire) <= Len(q.posted) /\ Len(q.posted) <= MaxWqe
    /\ \A i \in 1 .. Len(q.wire) : q.wire[i] = q.posted[Gone(q) + i]

\* No buffer of b carries m; or one of N or more.
Clear(b, m) == \A j \in 1 .. Len(b) : ~Carries(b[j], m)
Below(b, N) == \A m \in Int : N <= m => Clear(b, m)

\* The data of n has not left the wire of the rail, and all that carries m is behind it.
Ahead(q, n, m) ==
    \E i \in 1 .. Len(All(q)) :
        /\ Gone(q) < i /\ IsData(All(q)[i], n)
        /\ \A j \in 1 .. i : ~Carries(All(q)[j], m)
-----------------------------------------------------------------------------
(* The queues of one rail. *)

\* What the queues of a rail have in order.
LEMMA AllProperties ==
    ASSUME NEW q \in RailQueues
    PROVE  /\ All(q) \in Seq(Buffers)
           /\ Len(All(q)) = Len(q.posted) + Len(q.ext)
           /\ \A i \in 1 .. Len(q.posted) : All(q)[i] = q.posted[i]
           /\ \A i \in 1 .. Len(q.ext) : All(q)[Len(q.posted) + i] = q.ext[i]
  <1> DEFINE p == q.posted  e == q.ext
  <1>1. p \in Seq(Buffers) /\ e \in Seq(Buffers)
    BY DEF RailQueues
  <1> HIDE DEF p, e
  <1>2. /\ p \o e \in Seq(Buffers)
        /\ Len(p \o e) = Len(p) + Len(e)
        /\ \A i \in 1 .. Len(p) + Len(e) : (p \o e)[i] = IF i <= Len(p) THEN p[i] ELSE e[i - Len(p)]
    BY ONLY <1>1, ConcatProperties
  <1>3. Len(p) \in Nat /\ Len(e) \in Nat
    BY <1>1
  <1>4. /\ \A i \in 1 .. Len(p) : (p \o e)[i] = p[i]
        /\ \A i \in 1 .. Len(e) : (p \o e)[Len(p) + i] = e[i]
    BY <1>2, <1>3
  <1> QED BY <1>2, <1>4 DEF All, p, e

LEMMA QueueSizes ==
    ASSUME NEW q \in RailQueues, Posts(q)
    PROVE  /\ Len(q.posted) \in Nat /\ Len(q.ext) \in Nat /\ Len(q.wire) \in Nat
           /\ Gone(q) \in Nat /\ Gone(q) <= Len(q.posted)
           /\ Len(All(q)) \in Nat /\ Len(q.posted) <= Len(All(q))
           /\ MaxWqe \in Nat /\ Len(q.posted) <= MaxWqe
  <1> DEFINE p == Len(q.posted)  e == Len(q.ext)  w == Len(q.wire)  a == Len(All(q))
  <1>1. p \in Nat /\ e \in Nat /\ w \in Nat
    BY DEF RailQueues
  <1>2. a = p + e /\ w <= p /\ p <= MaxWqe /\ Gone(q) = p - w
    BY AllProperties DEF Posts, Gone
  <1>3. MaxWqe \in Nat
    BY SizesAssumption
  <1> HIDE DEF p, e, w, a
  <1>4. p - w \in Nat /\ p - w <= p /\ a \in Nat /\ p <= a
    BY <1>1, <1>2
  <1> QED BY <1>1, <1>2, <1>3, <1>4 DEF p, e, w, a

\* ... is the same after the extended queue has been sent, as far as work requests allow.
LEMMA SendAll ==
    ASSUME NEW q \in RailQueues, Posts(q),
           NEW q2, q2 = MRAILI_Ext_sendq_send(q)
    PROVE  /\ q2 \in RailQueues /\ Posts(q2)
           /\ All(q2) = All(q) /\ Gone(q2) = Gone(q)
           /\ Len(q.posted) <= Len(q2.posted)
           /\ q2.ext # << >> => Len(q2.posted) = MaxWqe
           /\ Len(q.posted) = MaxWqe => Len(q2.posted) = MaxWqe
           /\ \E a, b \in Seq(Buffers) :
                 q.ext = a \o b /\ q2.wire = q.wire \o a /\ q2.ext = b
  <1> DEFINE p == q.posted  e == q.ext  w == q.wire
             n == IF MaxWqe - Len(p) < Len(e) THEN MaxWqe - Len(p) ELSE Len(e)
             a == SubSeq(e, 1, n)  b == SubSeq(e, n + 1, Len(e))
  <1>1. p \in Seq(Buffers) /\ e \in Seq(Buffers) /\ w \in Seq(Buffers)
    BY DEF RailQueues
  <1>2. q2 = [ext |-> b, posted |-> p \o a, wire |-> w \o a]
    BY DEF MRAILI_Ext_sendq_send, Wqes
  <1>3. /\ Len(w) <= Len(p) /\ Len(p) <= MaxWqe
        /\ \A i \in 1 .. Len(w) : w[i] = p[Len(p) - Len(w) + i]
    BY DEF Posts, Gone
  <1>4. MaxWqe \in Nat
    BY SizesAssumption
  <1>5. Len(p) \in Nat /\ Len(e) \in Nat /\ Len(w) \in Nat
    BY <1>1
  <1> HIDE DEF p, e, w
  <1>6. /\ n \in 0 .. Len(e) /\ (n < Len(e) => Len(p) + n = MaxWqe)
        /\ Len(p) + n <= MaxWqe
    BY <1>3, <1>4, <1>5
  <1> HIDE DEF n
  <1>7. \A i \in 1 .. Len(e) : e[i] \in Buffers
    BY <1>1
  <1>8. a \in Seq(Buffers) /\ Len(a) = n
    <2>1. \A i \in 1 .. n : e[i] \in Buffers
      BY <1>5, <1>6, <1>7
    <2>2. 1 \in Int /\ n \in Int /\ n \in Nat
      BY <1>5, <1>6
    <2>3. /\ a \in Seq(Buffers) /\ Len(a) = IF 1 <= n THEN n - 1 + 1 ELSE 0
      BY ONLY <2>1, <2>2, SubSeqProperties DEF a
    <2> QED BY <2>2, <2>3
  <1>9. b \in Seq(Buffers) /\ Len(b) = Len(e) - n
    <2>1. \A i \in n + 1 .. Len(e) : e[i] \in Buffers
      BY <1>5, <1>6, <1>7
    <2>2. n + 1 \in Int /\ Len(e) \in Int /\ n \in Nat /\ n <= Len(e)
      BY <1>5, <1>6
    <2>3. /\ b \in Seq(Buffers)
          /\ Len(b) = IF n + 1 <= Len(e) THEN Len(e) - (n + 1) + 1 ELSE 0
      BY ONLY <2>1, <2>2, SubSeqProperties DEF b
    <2> QED BY <2>2, <2>3, <1>5
  <1>10. a \o b = e
    <2>1. 1 \in 1 .. Len(e) + 1 /\ n \in 1 - 1 .. Len(e) /\ Len(e) \in n .. Len(e)
      BY <1>5, <1>6
    <2>2. SubSeq(e, 1, n) \o SubSeq(e, n + 1, Len(e)) = SubSeq(e, 1, Len(e))
      BY ONLY <1>1, <2>1, ConcatAdjacentSubSeq
    <2>3. SubSeq(e, 1, Len(e)) = e
      BY ONLY <1>1, SubSeqFull
    <2> QED BY <2>2, <2>3 DEF a, b
  <1> HIDE DEF a, b
  <1>11. (p \o a) \o b = p \o e
    <2>1. (p \o a) \o b = p \o (a \o b)
      <3>1. p \in Seq(Buffers) /\ a \in Seq(Buffers) /\ b \in Seq(Buffers)
        BY <1>1, <1>8, <1>9
      <3> HIDE DEF p, a, b
      <3> QED BY ONLY <3>1, ConcatAssociative, SMTT(20)
    <2> QED BY <2>1, <1>10
  <1>12. /\ p \o a \in Seq(Buffers) /\ Len(p \o a) = Len(p) + Len(a)
         /\ \A i \in 1 .. Len(p) + Len(a) :
               (p \o a)[i] = IF i <= Len(p) THEN p[i] ELSE a[i - Len(p)]
    BY ONLY <1>1, <1>8, ConcatProperties
  <1>13. /\ w \o a \in Seq(Buffers) /\ Len(w \o a) = Len(w) + Len(a)
         /\ \A i \in 1 .. Len(w) + Len(a) :
               (w \o a)[i] = IF i <= Len(w) THEN w[i] ELSE a[i - Len(w)]
    BY ONLY <1>1, <1>8, ConcatProperties
  <1>14. /\ q2.posted = p \o a /\ q2.wire = w \o a /\ q2.ext = b
    BY <1>2
  <1>15. q2 \in RailQueues
    BY <1>2, <1>9, <1>12, <1>13 DEF RailQueues
  <1>16. All(q2) = All(q)
    BY <1>11, <1>14 DEF All, p, e
  <1>17. Gone(q2) = Gone(q)
    <2>1. Gone(q2) = (Len(p) + Len(a)) - (Len(w) + Len(a))
      BY <1>12, <1>13, <1>14 DEF Gone
    <2>2. Len(a) \in Nat
      BY <1>6, <1>8
    <2>3. Gone(q2) = Len(p) - Len(w)
      BY <2>1, <2>2, <1>5
    <2> QED BY <2>3 DEF Gone, p, w
  <1>18. \A i \in 1 .. Len(w) + Len(a) : (w \o a)[i] = (p \o a)[Len(p) - Len(w) + i]
    <2>1. TAKE i \in 1 .. Len(w) + Len(a)
    <2>2. Len(p) - Len(w) + i \in 1 .. Len(p) + Len(a)
      BY <1>3, <1>5, <1>6, <1>8
    <2>3. CASE i <= Len(w)
      BY <2>2, <2>3, <1>3, <1>5, <1>12, <1>13
    <2>4. CASE Len(w) < i
      <3>1. (w \o a)[i] = a[i - Len(w)]
        BY <2>4, <1>13, <1>5
      <3>2. (p \o a)[Len(p) - Len(w) + i] = a[Len(p) - Len(w) + i - Len(p)]
        BY <2>2, <2>4, <1>12, <1>5
      <3>3. Len(p) - Len(w) + i - Len(p) = i - Len(w)
        BY <1>5
      <3> QED BY <3>1, <3>2, <3>3
    <2>5. i \in Nat
      BY <1>5, <1>6, <1>8
    <2>6. i <= Len(w) \/ Len(w) < i
      BY <2>5, <1>5
    <2> QED BY <2>3, <2>4, <2>6
  <1>19. Posts(q2)
    <2>1. Len(q2.wire) = Len(w) + Len(a) /\ Len(q2.posted) = Len(p) + Len(a)
      BY <1>12, <1>13, <1>14
    <2>2. Gone(q2) = Len(p) - Len(w)
      BY <1>17 DEF Gone, p, w
    <2>3. \A i \in 1 .. Len(q2.wire) : q2.wire[i] = q2.posted[Gone(q2) + i]
      BY <2>1, <2>2, <1>14, <1>18
    <2>4. Len(w) + Len(a) <= Len(p) + Len(a) /\ Len(p) + Len(a) <= MaxWqe
      BY <1>3, <1>5, <1>6, <1>8
    <2> QED BY <2>1, <2>3, <2>4 DEF Posts
  <1>20. q2.ext # << >> => Len(q2.posted) = MaxWqe
    BY <1>14, <1>12, <1>9, <1>8, <1>6, <1>5
  <1>21. Len(p) <= Len(q2.posted) /\ (Len(p) = MaxWqe => Len(q2.posted) = MaxWqe)
    BY <1>14, <1>12, <1>8, <1>6, <1>5, <1>4
  <1>22. /\ a \in Seq(Buffers) /\ b \in Seq(Buffers)
         /\ q.ext = a \o b /\ q2.wire = q.wire \o a /\ q2.ext = b
    BY <1>8, <1>9, <1>10, <1>14 DEF e, w
  <1> QED BY <1>15, <1>16, <1>17, <1>19, <1>20, <1>21, <1>22 DEF p

\* t is s with v at position at.
Inserted(s, t, at, v) ==
    /\ t \in Seq(Buffers) /\ at \in 1 .. Len(s) + 1
    /\ Len(t) = Len(s) + 1 /\ t[at] = v
    /\ \A j \in 1 .. at - 1 : t[j] = s[j]
    /\ \A j \in at .. Len(s) : t[j + 1] = s[j]

\* A buffer that waits in the extended queue comes last.
LEMMA EnqueueAll ==
    ASSUME NEW q \in RailQueues, Posts(q), NEW v \in Buffers,
           NEW q2, q2 = MRAILI_Ext_sendq_enqueue(q, v)
    PROVE  /\ q2 \in RailQueues /\ Posts(q2) /\ Gone(q2) = Gone(q)
           /\ q2.posted = q.posted /\ q2.ext # << >>
           /\ Inserted(All(q), All(q2), Len(All(q)) + 1, v)
  <1>1. /\ q.ext \in Seq(Buffers) /\ q.posted \in Seq(Buffers)
        /\ Len(q.ext) \in Nat /\ Len(q.posted) \in Nat
    BY DEF RailQueues
  <1>2. /\ q2 = [q EXCEPT !.ext = Append(q.ext, v)]
        /\ Append(q.ext, v) \in Seq(Buffers) /\ Len(Append(q.ext, v)) = Len(q.ext) + 1
        /\ \A i \in 1 .. Len(q.ext) : Append(q.ext, v)[i] = q.ext[i]
        /\ Append(q.ext, v)[Len(q.ext) + 1] = v
    BY <1>1, AppendProperties DEF MRAILI_Ext_sendq_enqueue
  <1>3. /\ q2 \in RailQueues /\ q2.posted = q.posted /\ q2.wire = q.wire
        /\ q2.ext = Append(q.ext, v)
    BY <1>2 DEF RailQueues
  <1>4. Posts(q2) /\ Gone(q2) = Gone(q)
    BY <1>3 DEF Posts, Gone
  <1>5. q2.ext # << >>
    BY <1>1, <1>2, <1>3
  <1> DEFINE s == All(q)  t == All(q2)  p == q.posted  e == q.ext  e2 == q2.ext
  <1>6. /\ s \in Seq(Buffers) /\ Len(s) = Len(p) + Len(e)
        /\ \A i \in 1 .. Len(p) : s[i] = p[i]
        /\ \A i \in 1 .. Len(e) : s[Len(p) + i] = e[i]
    BY AllProperties
  <1>7. /\ t \in Seq(Buffers) /\ Len(t) = Len(p) + Len(e2)
        /\ \A i \in 1 .. Len(p) : t[i] = p[i]
        /\ \A i \in 1 .. Len(e2) : t[Len(p) + i] = e2[i]
    BY <1>3, AllProperties
  <1>8. /\ Len(e2) = Len(e) + 1 /\ e2[Len(e) + 1] = v
        /\ \A i \in 1 .. Len(e) : e2[i] = e[i]
    BY <1>2, <1>3
  <1>9. Len(p) \in Nat /\ Len(e) \in Nat
    BY <1>1
  <1> HIDE DEF s, t, p, e, e2
  <1>10. \A j \in 1 .. Len(s) : t[j] = s[j]
    <2>1. TAKE j \in 1 .. Len(s)
    <2>2. CASE j <= Len(p)
      BY <2>2, <1>6, <1>7, <1>9
    <2>3. CASE Len(p) < j
      <3>1. j - Len(p) \in 1 .. Len(e) /\ Len(p) + (j - Len(p)) = j
        BY <2>3, <1>6, <1>9
      <3>2. j - Len(p) \in 1 .. Len(e2)
        BY <3>1, <1>8, <1>9
      <3>3. s[Len(p) + (j - Len(p))] = e[j - Len(p)]
        BY <3>1, <1>6
      <3>4. t[Len(p) + (j - Len(p))] = e2[j - Len(p)]
        BY <3>2, <1>7
      <3> QED BY <3>1, <3>3, <3>4, <1>8
    <2> QED BY <2>2, <2>3, <1>6, <1>9
  <1>11. t[Len(s) + 1] = v
    <2>1. Len(e) + 1 \in 1 .. Len(e2) /\ Len(p) + (Len(e) + 1) = Len(s) + 1
      BY <1>6, <1>8, <1>9
    <2>2. t[Len(p) + (Len(e) + 1)] = v
      BY <2>1, <1>7, <1>8
    <2> QED BY <2>1, <2>2
  <1>12. Inserted(s, t, Len(s) + 1, v)
    BY <1>6, <1>7, <1>8, <1>9, <1>10, <1>11 DEF Inserted
  <1> QED BY <1>3, <1>4, <1>5, <1>12 DEF s, t

\* A buffer that is posted comes behind what is posted.
LEMMA PostNowAll ==
    ASSUME NEW q \in RailQueues, Posts(q), NEW v \in Buffers, Len(q.posted) # MaxWqe,
           NEW q2, q2 = PostNow(q, v)
    PROVE  /\ q2 \in RailQueues /\ Posts(q2) /\ Gone(q2) = Gone(q)
           /\ q2.ext = q.ext /\ Len(q2.posted) = Len(q.posted) + 1
           /\ Inserted(All(q), All(q2), Len(q.posted) + 1, v)
  <1> DEFINE s == All(q)  t == All(q2)  p == q.posted  e == q.ext  w == q.wire
             p2 == Append(p, v)  w2 == Append(w, v)
  <1>1. /\ p \in Seq(Buffers) /\ e \in Seq(Buffers) /\ w \in Seq(Buffers)
        /\ Len(p) \in Nat /\ Len(e) \in Nat /\ Len(w) \in Nat
    BY DEF RailQueues
  <1>2. q2 = [q EXCEPT !.posted = p2, !.wire = w2]
    BY DEF PostNow
  <1>3. /\ Len(w) <= Len(p) /\ Len(p) <= MaxWqe
        /\ \A i \in 1 .. Len(w) : w[i] = p[Len(p) - Len(w) + i]
    BY DEF Posts, Gone
  <1>4. MaxWqe \in Nat /\ Len(p) # MaxWqe
    BY SizesAssumption
  <1>5. /\ s \in Seq(Buffers) /\ Len(s) = Len(p) + Len(e)
        /\ \A i \in 1 .. Len(p) : s[i] = p[i]
        /\ \A i \in 1 .. Len(e) : s[Len(p) + i] = e[i]
    BY AllProperties
  <1> HIDE DEF p, e, w
  <1>6. /\ p2 \in Seq(Buffers) /\ Len(p2) = Len(p) + 1 /\ p2[Len(p) + 1] = v
        /\ \A i \in 1 .. Len(p) : p2[i] = p[i]
    BY <1>1, AppendProperties
  <1>7. /\ w2 \in Seq(Buffers) /\ Len(w2) = Len(w) + 1 /\ w2[Len(w) + 1] = v
        /\ \A i \in 1 .. Len(w) : w2[i] = w[i]
    BY <1>1, AppendProperties
  <1> HIDE DEF p2, w2
  <1>8. /\ q2 \in RailQueues /\ q2.posted = p2 /\ q2.wire = w2 /\ q2.ext = e
    BY <1>2, <1>6, <1>7 DEF RailQueues, p, w, e
  <1>9. /\ t \in Seq(Buffers) /\ Len(t) = Len(p2) + Len(e)
        /\ \A i \in 1 .. Len(p2) : t[i] = p2[i]
        /\ \A i \in 1 .. Len(e) : t[Len(p2) + i] = e[i]
    BY <1>8, AllProperties
  <1> HIDE DEF s, t
  <1>10. Gone(q2) = Len(p) - Len(w)
    <2>1. Gone(q2) = (Len(p) + 1) - (Len(w) + 1)
      BY <1>6, <1>7, <1>8 DEF Gone
    <2> QED BY <2>1, <1>1
  <1>11. \A i \in 1 .. Len(w2) : w2[i] = p2[Len(p) - Len(w) + i]
    <2>1. TAKE i \in 1 .. Len(w2)
    <2>2. CASE i <= Len(w)
      <3>1. Len(p) - Len(w) + i \in 1 .. Len(p) /\ i \in 1 .. Len(w)
        BY <2>2, <1>1, <1>3, <1>7
      <3> QED BY <3>1, <1>3, <1>6, <1>7
    <2>3. CASE i = Len(w) + 1
      <3>1. Len(p) - Len(w) + i = Len(p) + 1
        BY <2>3, <1>1
      <3> QED BY <2>3, <3>1, <1>6, <1>7
    <2>4. i <= Len(w) \/ i = Len(w) + 1
      BY <1>1, <1>7
    <2> QED BY <2>2, <2>3, <2>4
  <1>12. Posts(q2)
    <2>1. Len(w2) <= Len(p2) /\ Len(p2) <= MaxWqe
      BY <1>1, <1>3, <1>4, <1>6, <1>7
    <2> QED BY <2>1, <1>8, <1>10, <1>11 DEF Posts
  <1>13. \A j \in Len(p) + 1 .. Len(s) : t[j + 1] = s[j]
    <2>1. TAKE j \in Len(p) + 1 .. Len(s)
    <2>2. /\ j - Len(p) \in 1 .. Len(e) /\ Len(p) + (j - Len(p)) = j
          /\ Len(p2) + (j - Len(p)) = j + 1
      BY <1>1, <1>5, <1>6
    <2>3. s[Len(p) + (j - Len(p))] = e[j - Len(p)]
      BY <2>2, <1>5
    <2>4. t[Len(p2) + (j - Len(p))] = e[j - Len(p)]
      BY <2>2, <1>9
    <2> QED BY <2>2, <2>3, <2>4
  <1>14. \A j \in 1 .. Len(p) : t[j] = s[j]
    BY <1>1, <1>5, <1>6, <1>9
  <1>15. t[Len(p) + 1] = v
    BY <1>1, <1>6, <1>9
  <1>16. Len(t) = Len(s) + 1 /\ Len(p) + 1 \in 1 .. Len(s) + 1 /\ Len(p) + 1 - 1 = Len(p)
    BY <1>1, <1>5, <1>6, <1>9
  <1>17. Inserted(s, t, Len(p) + 1, v)
    BY <1>9, <1>13, <1>14, <1>15, <1>16 DEF Inserted
  <1>18. Gone(q2) = Gone(q)
    BY <1>10 DEF Gone, p, w
  <1> QED BY <1>6, <1>8, <1>12, <1>17, <1>18 DEF s, t, p, e

\* Where PostOrEnqueue puts a buffer.
Place(q) == IF Len(q.posted) = MaxWqe THEN Len(All(q)) + 1 ELSE Len(q.posted) + 1

LEMMA PostAll ==
    ASSUME NEW q \in RailQueues, Posts(q), NEW v \in Buffers,
           NEW q2, q2 = PostOrEnqueue(q, v)
    PROVE  /\ q2 \in RailQueues /\ Posts(q2) /\ Gone(q2) = Gone(q)
           /\ Inserted(All(q), All(q2), Place(q), v)
           /\ (q.ext # << >> => Len(q.posted) = MaxWqe) =>
                 (q2.ext # << >> => Len(q2.posted) = MaxWqe)
           /\ Len(q.posted) = MaxWqe => q2.posted = q.posted
           /\ Len(q.posted) # MaxWqe => Len(q2.posted) = Len(q.posted) + 1 /\ q2.ext = q.ext
  <1>1. MaxWqe \in Nat /\ Len(q.posted) \in Nat
    BY SizesAssumption DEF RailQueues
  <1>2. CASE Len(q.posted) = MaxWqe
    <2>1. q2 = MRAILI_Ext_sendq_enqueue(q, v)
      BY <1>1, <1>2 DEF PostOrEnqueue, Wqes
    <2> QED BY <2>1, <1>2, EnqueueAll DEF Place
  <1>3. CASE Len(q.posted) # MaxWqe
    <2>1. q2 = PostNow(q, v)
      BY <1>1, <1>3 DEF PostOrEnqueue, Wqes
    <2> QED BY <2>1, <1>3, PostNowAll DEF Place
  <1> QED BY <1>2, <1>3
-----------------------------------------------------------------------------
(* What a step at one rail does to the messages CH3 had sent before. *)

\* No message is carried by more than before, nor in front of the data it was behind, but those
\* that are new.
Keeps(q, q2, New) ==
    \A m \in Int \ New :
        /\ Clear(All(q), m) => Clear(All(q2), m)
        /\ \A n \in Int : Ahead(q, n, m) => Ahead(q2, n, m)

\* A step of the queues of a rail that may bring it these messages.
RailStep(q, q2, New) ==
    /\ q2 \in RailQueues /\ Posts(q2)
    /\ Keeps(q, q2, New)

LEMMA StepsCompose ==
    ASSUME NEW q1, NEW q2, NEW q3, NEW New,
           RailStep(q1, q2, New), RailStep(q2, q3, New)
    PROVE  RailStep(q1, q3, New)
  BY DEF RailStep, Keeps

LEMMA NoStep ==
    ASSUME NEW q \in RailQueues, Posts(q), NEW New
    PROVE  RailStep(q, q, New)
  BY DEF RailStep, Keeps

LEMMA SendStep ==
    ASSUME NEW q \in RailQueues, Posts(q), NEW New
    PROVE  RailStep(q, MRAILI_Ext_sendq_send(q), New)
  <1> DEFINE q2 == MRAILI_Ext_sendq_send(q)
  <1>1. q2 \in RailQueues /\ Posts(q2) /\ All(q2) = All(q) /\ Gone(q2) = Gone(q)
    BY SendAll
  <1> HIDE DEF q2
  <1>2. Keeps(q, q2, New)
    BY <1>1 DEF Keeps, Ahead
  <1> QED BY <1>1, <1>2 DEF RailStep, q2

LEMMA FlushStep ==
    ASSUME NEW q \in RailQueues, Posts(q), NEW New, NEW r
    PROVE  RailStep(q, FLUSH_RAIL(q, r), New)
  BY SendStep, NoStep DEF FLUSH_RAIL

\* A buffer more disturbs only the messages it carries.
LEMMA InsertedKeeps ==
    ASSUME NEW q \in RailQueues, NEW q2 \in RailQueues, Gone(q2) = Gone(q),
           NEW at, NEW v, Inserted(All(q), All(q2), at, v),
           NEW m, ~Carries(v, m)
    PROVE  /\ Clear(All(q), m) => Clear(All(q2), m)
           /\ \A n : Ahead(q, n, m) => Ahead(q2, n, m)
  <1> DEFINE s == All(q)  t == All(q2)  g == Gone(q)
  <1>1. s \in Seq(Buffers) /\ t \in Seq(Buffers) /\ Len(s) \in Nat
    <2>1. s \in Seq(Buffers) /\ t \in Seq(Buffers)
      BY AllProperties
    <2> HIDE DEF s, t
    <2> QED BY <2>1
  <1>2. Gone(q) \in Int
    BY DEF Gone, RailQueues
  <1>3. Gone(q2) = g /\ g \in Int
    BY <1>2
  <1>4. Inserted(s, t, at, v)
    OBVIOUS
  <1>5. Clear(All(q), m) <=> Clear(s, m)
    OBVIOUS
  <1>6. Clear(All(q2), m) <=> Clear(t, m)
    OBVIOUS
  <1>7. /\ \A n : Ahead(q, n, m) <=> \E i \in 1 .. Len(s) :
              g < i /\ IsData(s[i], n) /\ \A j \in 1 .. i : ~Carries(s[j], m)
        /\ \A n : Ahead(q2, n, m) <=> \E i \in 1 .. Len(t) :
              g < i /\ IsData(t[i], n) /\ \A j \in 1 .. i : ~Carries(t[j], m)
    BY <1>3 DEF Ahead
  <1> HIDE DEF s, t, g
  <1>8. /\ at \in 1 .. Len(s) + 1 /\ Len(t) = Len(s) + 1 /\ t[at] = v
        /\ \A j \in 1 .. at - 1 : t[j] = s[j]
        /\ \A j \in at .. Len(s) : t[j + 1] = s[j]
    BY <1>4 DEF Inserted
  <1>9. \A j \in 1 .. Len(t) : j # at =>
            \E k \in 1 .. Len(s) : t[j] = s[k] /\ (k = j \/ (k + 1 = j /\ at < j))
    <2>1. TAKE j \in 1 .. Len(t)
    <2>2. HAVE j # at
    <2>3. CASE j < at
      <3>1. j \in 1 .. Len(s) /\ j \in 1 .. at - 1
        BY <2>3, <1>1, <1>8
      <3> QED BY <3>1, <1>8
    <2>4. CASE at < j
      <3>1. j - 1 \in 1 .. Len(s) /\ j - 1 \in at .. Len(s) /\ (j - 1) + 1 = j
        BY <2>4, <1>1, <1>8
      <3>2. t[(j - 1) + 1] = s[j - 1]
        BY <3>1, <1>8
      <3> QED BY <2>4, <3>1, <3>2
    <2> QED BY <2>2, <2>3, <2>4, <1>1, <1>8
  <1>10. Clear(s, m) => Clear(t, m)
    BY <1>8, <1>9 DEF Clear
  <1>11. ASSUME NEW n, NEW i \in 1 .. Len(s), g < i, IsData(s[i], n),
                \A j \in 1 .. i : ~Carries(s[j], m)
         PROVE  \E h \in 1 .. Len(t) :
                   g < h /\ IsData(t[h], n) /\ \A j \in 1 .. h : ~Carries(t[j], m)
    <2>1. CASE i < at
      <3>1. i \in 1 .. Len(t) /\ i \in 1 .. at - 1 /\ \A j \in 1 .. i : j \in 1 .. at - 1
        BY <2>1, <1>1, <1>8
      <3> QED BY <3>1, <1>8, <1>11
    <2>2. CASE at <= i
      <3>1. i + 1 \in 1 .. Len(t) /\ i \in at .. Len(s) /\ g < i + 1
        BY <2>2, <1>1, <1>3, <1>8, <1>11
      <3>2. IsData(t[i + 1], n)
        BY <3>1, <1>8, <1>11
      <3>3. ASSUME NEW j \in 1 .. i + 1 PROVE ~Carries(t[j], m)
        <4>1. j \in 1 .. Len(t)
          BY <3>1, <1>1, <1>8
        <4>2. CASE j = at
          BY <4>2, <1>8
        <4>3. CASE j # at
          <5>1. PICK k \in 1 .. Len(s) : t[j] = s[k] /\ (k = j \/ (k + 1 = j /\ at < j))
            BY <4>1, <4>3, <1>9
          <5>2. CASE k \in 1 .. i
            BY <5>1, <5>2, <1>11
          <5>3. CASE k = i + 1
            <6>1. k = j /\ j = i + 1
              BY <5>1, <5>3
            <6>2. t[j] = s[i]
              BY <3>1, <6>1, <1>8
            <6> QED BY <6>2, <1>11
          <5> QED BY <5>1, <5>2, <5>3
        <4> QED BY <4>2, <4>3
      <3> QED BY <3>1, <3>2, <3>3
    <2> QED BY <2>1, <2>2, <1>1, <1>8
  <1>12. \A n : Ahead(q, n, m) => Ahead(q2, n, m)
    BY <1>7, <1>11
  <1> QED BY <1>5, <1>6, <1>10, <1>12

\* ... so a new message does not disturb those before it.
LEMMA PostStep ==
    ASSUME NEW q \in RailQueues, Posts(q), NEW v \in Buffers, NEW New,
           \A m \in Int \ New : ~Carries(v, m)
    PROVE  RailStep(q, PostOrEnqueue(q, v), New)
  <1> DEFINE q2 == PostOrEnqueue(q, v)
  <1>1. /\ q2 \in RailQueues /\ Posts(q2) /\ Gone(q2) = Gone(q)
        /\ Inserted(All(q), All(q2), Place(q), v)
    BY PostAll
  <1> HIDE DEF q2
  <1>2. Keeps(q, q2, New)
    BY <1>1, InsertedKeeps DEF Keeps
  <1> QED BY <1>1, <1>2 DEF RailStep, q2

LEMMA EnqueueStep ==
    ASSUME NEW q \in RailQueues, Posts(q), NEW v \in Buffers, NEW New,
           \A m \in Int \ New : ~Carries(v, m)
    PROVE  RailStep(q, MRAILI_Ext_sendq_enqueue(q, v), New)
  <1> DEFINE q2 == MRAILI_Ext_sendq_enqueue(q, v)
  <1>1. /\ q2 \in RailQueues /\ Posts(q2) /\ Gone(q2) = Gone(q)
        /\ Inserted(All(q), All(q2), Len(All(q)) + 1, v)
    BY EnqueueAll
  <1> HIDE DEF q2
  <1>2. Keeps(q, q2, New)
    BY <1>1, InsertedKeeps DEF Keeps
  <1> QED BY <1>1, <1>2 DEF RailStep, q2

\* A small message joins the last buffer of an extended queue.
AppendTo(q, n) ==
    LET v == Last(q.ext) IN
    [q EXCEPT !.ext = [q.ext EXCEPT ![Len(q.ext)] = [v EXCEPT !.msgs = Append(v.msgs, n)]]]

LEMMA AppendStep ==
    ASSUME NEW q \in RailQueues, Posts(q), q.ext # << >>, NEW n \in Int
    PROVE  /\ RailStep(q, AppendTo(q, n), {n})
           /\ AppendTo(q, n).ext # << >>
  <1> DEFINE e == q.ext  l == Len(e)  v == e[l]  v2 == [v EXCEPT !.msgs = Append(v.msgs, n)]
             e2 == [e EXCEPT ![l] = v2]  q2 == AppendTo(q, n)
  <1>1. e \in Seq(Buffers) /\ e # << >>
    BY DEF RailQueues
  <1>2. l \in 1 .. Len(e) /\ l \in Nat /\ v \in Buffers
    BY <1>1
  <1>3. /\ v2 \in Buffers /\ v2.kind = v.kind /\ v2.msgs[1] = v.msgs[1]
        /\ \A m \in Int : m # n => (Carries(v, m) <=> Carries(v2, m))
    <2>1. /\ v.msgs \in Seq(Int) /\ v.msgs # << >> /\ Len(v.msgs) \in Nat
          /\ v2 = [v EXCEPT !.msgs = Append(v.msgs, n)]
      BY <1>2 DEF Buffers
    <2> DEFINE b == v.msgs
    <2>2. /\ Append(b, n) \in Seq(Int) /\ Append(b, n) # << >>
          /\ Len(Append(b, n)) = Len(b) + 1 /\ Append(b, n)[Len(b) + 1] = n
          /\ \A i \in 1 .. Len(b) : Append(b, n)[i] = b[i]
      BY <2>1, AppendProperties
    <2>3. v2 \in Buffers /\ v2.kind = v.kind /\ v2.msgs = Append(b, n)
      BY <1>2, <2>1, <2>2 DEF Buffers
    <2>4. 1 \in 1 .. Len(b) /\ DOMAIN b = 1 .. Len(b)
      BY <2>1
    <2>5. DOMAIN Append(b, n) = 1 .. Len(b) + 1
      BY <2>2
    <2> HIDE DEF v2, v
    <2>6. ASSUME NEW m \in Int, m # n
          PROVE  (\E k \in DOMAIN b : b[k] = m) <=> (\E k \in DOMAIN Append(b, n) : Append(b, n)[k] = m)
      <3> HIDE DEF b
      <3>1. ASSUME NEW k \in DOMAIN b, b[k] = m
            PROVE  k \in DOMAIN Append(b, n) /\ Append(b, n)[k] = m
        BY <3>1, <2>1, <2>2, <2>4, <2>5
      <3>2. ASSUME NEW k \in DOMAIN Append(b, n), Append(b, n)[k] = m
            PROVE  k \in DOMAIN b /\ b[k] = m
        <4>1. k # Len(b) + 1
          BY <2>2, <2>6, <3>2
        <4>2. k \in 1 .. Len(b)
          BY <4>1, <2>1, <2>4, <2>5
        <4> QED BY <4>2, <2>2, <2>4, <3>2
      <3> QED BY <3>1, <3>2
    <2>7. v2.msgs[1] = v.msgs[1]
      BY <2>2, <2>3, <2>4
    <2> QED BY <2>3, <2>6, <2>7 DEF Carries
  <1> HIDE DEF v2
  <1>4. /\ e2 \in Seq(Buffers) /\ Len(e2) = Len(e)
        /\ \A j \in 1 .. Len(e) : e2[j] = IF j = l THEN v2 ELSE e[j]
    BY <1>1, <1>2, <1>3, ExceptSeq
  <1>5. /\ q2 \in RailQueues /\ q2.ext = e2 /\ q2.posted = q.posted /\ q2.wire = q.wire
    <2>1. q2 = [q EXCEPT !.ext = e2]
      BY DEF AppendTo, v2, Last
    <2> HIDE DEF e2, q2
    <2> QED BY <1>4, <2>1 DEF RailQueues
  <1> HIDE DEF e2, q2
  <1>6. Posts(q2) /\ Gone(q2) = Gone(q)
    BY <1>5 DEF Posts, Gone
  <1>7. q2.ext # << >>
    BY <1>1, <1>2, <1>4, <1>5
  <1> DEFINE s == All(q)  t == All(q2)  p == q.posted
  <1>8. /\ s \in Seq(Buffers) /\ Len(s) = Len(p) + Len(e)
        /\ \A i \in 1 .. Len(p) : s[i] = p[i]
        /\ \A i \in 1 .. Len(e) : s[Len(p) + i] = e[i]
    BY AllProperties
  <1>9. /\ t \in Seq(Buffers) /\ Len(t) = Len(p) + Len(e2)
        /\ \A i \in 1 .. Len(p) : t[i] = p[i]
        /\ \A i \in 1 .. Len(e2) : t[Len(p) + i] = e2[i]
    BY <1>5, AllProperties
  <1>10. Len(p) \in Nat /\ Len(e) \in Nat
    BY <1>1 DEF RailQueues
  <1> HIDE DEF s, t, p, e
  <1>11. \A i \in 1 .. Len(s) : t[i] = s[i] \/ (s[i] = v /\ t[i] = v2)
    <2>1. TAKE i \in 1 .. Len(s)
    <2>2. CASE i <= Len(p)
      BY <2>2, <1>8, <1>9, <1>10
    <2>3. CASE Len(p) < i
      <3>1. i - Len(p) \in 1 .. Len(e) /\ Len(p) + (i - Len(p)) = i
        BY <2>3, <1>8, <1>10
      <3>2. s[i] = e[i - Len(p)] /\ t[i] = e2[i - Len(p)]
        BY <3>1, <1>4, <1>8, <1>9
      <3> QED BY <3>1, <3>2, <1>4
    <2> QED BY <2>2, <2>3, <1>8, <1>10
  <1>12. Len(t) = Len(s)
    BY <1>4, <1>8, <1>9
  <1>13. ASSUME NEW i \in 1 .. Len(s)
         PROVE  /\ \A m \in Int : m # n => (Carries(s[i], m) <=> Carries(t[i], m))
                /\ \A k : IsData(s[i], k) => IsData(t[i], k)
    BY <1>3, <1>11 DEF IsData
  <1>14. \A i, j \in Int : i \in 1 .. Len(s) /\ j \in 1 .. i => j \in 1 .. Len(s)
    BY <1>8, <1>10
  <1>15. ASSUME NEW m \in Int, m # n
         PROVE  /\ Clear(s, m) => Clear(t, m)
                /\ \A k : Ahead(q, k, m) => Ahead(q2, k, m)
    <2>1. Clear(s, m) => Clear(t, m)
      BY <1>12, <1>13, <1>15 DEF Clear
    <2>2. ASSUME NEW k, Ahead(q, k, m) PROVE Ahead(q2, k, m)
      <3>1. PICK i \in 1 .. Len(s) :
                Gone(q) < i /\ IsData(s[i], k) /\ \A j \in 1 .. i : ~Carries(s[j], m)
        BY <2>2 DEF Ahead, s
      <3>2. \A j \in 1 .. i : j \in 1 .. Len(s)
        BY <1>14
      <3>3. /\ i \in 1 .. Len(t) /\ Gone(q2) < i /\ IsData(t[i], k)
            /\ \A j \in 1 .. i : ~Carries(t[j], m)
        BY <3>1, <3>2, <1>6, <1>12, <1>13, <1>15
      <3> QED BY <3>3 DEF Ahead, t
    <2> QED BY <2>1, <2>2
  <1>16. Keeps(q, q2, {n})
    BY <1>15 DEF Keeps, s, t
  <1> QED BY <1>5, <1>6, <1>7, <1>16 DEF RailStep, q2

\* The oldest buffer completes: it carries nothing that is behind data or nowhere on the rail.
LEMMA CompleteStep ==
    ASSUME NEW q \in RailQueues, Posts(q), Len(q.posted) > Len(q.wire),
           NEW q2, q2 = [q EXCEPT !.posted = Tail(@)]
    PROVE  /\ RailStep(q, q2, {})
           /\ Head(q.posted) \in Buffers
           /\ \A m : Clear(All(q), m) \/ (\E n : Ahead(q, n, m)) => ~Carries(Head(q.posted), m)
           /\ q2.ext = q.ext
  <1> DEFINE p == q.posted  e == q.ext  w == q.wire  p2 == Tail(p)  s == All(q)  t == All(q2)
  <1>1. /\ p \in Seq(Buffers) /\ e \in Seq(Buffers) /\ w \in Seq(Buffers)
        /\ Len(p) \in Nat /\ Len(e) \in Nat /\ Len(w) \in Nat /\ Len(p) > Len(w)
    BY DEF RailQueues
  <1>2. /\ Len(p) <= MaxWqe /\ MaxWqe \in Nat
        /\ \A i \in 1 .. Len(w) : w[i] = p[Len(p) - Len(w) + i]
    BY SizesAssumption DEF Posts, Gone
  <1>3. /\ s \in Seq(Buffers) /\ Len(s) = Len(p) + Len(e)
        /\ \A i \in 1 .. Len(p) : s[i] = p[i]
        /\ \A i \in 1 .. Len(e) : s[Len(p) + i] = e[i]
    BY AllProperties
  <1>4. q2 = [q EXCEPT !.posted = p2]
    OBVIOUS
  <1>5. Gone(q) = Len(p) - Len(w)
    BY DEF Gone
  <1> HIDE DEF p, e, w
  <1>6. p # << >>
    BY <1>1
  <1>7. /\ Head(p) \in Buffers /\ p2 \in Seq(Buffers) /\ Len(p2) = Len(p) - 1
        /\ \A i \in 1 .. Len(p2) : p2[i] = p[i + 1]
    BY ONLY <1>1, <1>6, HeadTailProperties
  <1>8. Head(p) = p[1]
    BY <1>1
  <1> HIDE DEF p2
  <1>9. /\ q2 \in RailQueues /\ q2.posted = p2 /\ q2.wire = w /\ q2.ext = e
    BY <1>4, <1>7 DEF RailQueues, p, w, e
  <1>10. /\ t \in Seq(Buffers) /\ Len(t) = Len(p2) + Len(e)
         /\ \A i \in 1 .. Len(p2) : t[i] = p2[i]
         /\ \A i \in 1 .. Len(e) : t[Len(p2) + i] = e[i]
    <2>1. /\ t \in Seq(Buffers) /\ Len(t) = Len(q2.posted) + Len(q2.ext)
          /\ \A i \in 1 .. Len(q2.posted) : t[i] = q2.posted[i]
          /\ \A i \in 1 .. Len(q2.ext) : t[Len(q2.posted) + i] = q2.ext[i]
      BY <1>9, AllProperties
    <2> QED BY <1>9, <2>1
  <1> HIDE DEF s, t
  <1>11. Gone(q2) = Gone(q) - 1 /\ Gone(q) \in Nat /\ 0 < Gone(q)
    <2>1. Gone(q2) = (Len(p) - 1) - Len(w)
      BY <1>7, <1>9 DEF Gone
    <2> QED BY <2>1, <1>1, <1>5
  <1>12. Posts(q2)
    <2>1. Len(w) <= Len(p2) /\ Len(p2) <= MaxWqe
      BY <1>1, <1>2, <1>7
    <2>2. ASSUME NEW i \in 1 .. Len(w) PROVE w[i] = p2[Gone(q2) + i]
      <3>1. Gone(q2) + i \in 1 .. Len(p2) /\ (Gone(q2) + i) + 1 = Len(p) - Len(w) + i
        BY <1>1, <1>5, <1>7, <1>11
      <3> QED BY <3>1, <1>2, <1>7
    <2> QED BY <2>1, <2>2, <1>9 DEF Posts
  <1>13. Len(t) = Len(s) - 1 /\ \A i \in 1 .. Len(t) : t[i] = s[i + 1]
    <2>1. Len(t) = Len(s) - 1
      BY <1>1, <1>3, <1>7, <1>10
    <2>2. ASSUME NEW i \in 1 .. Len(t) PROVE t[i] = s[i + 1]
      <3>1. CASE i <= Len(p2)
        <4>1. i \in 1 .. Len(p2) /\ i + 1 \in 1 .. Len(p)
          BY <3>1, <1>1, <1>7
        <4> QED BY <4>1, <1>3, <1>7, <1>10
      <3>2. CASE Len(p2) < i
        <4>1. /\ i - Len(p2) \in 1 .. Len(e) /\ Len(p2) + (i - Len(p2)) = i
              /\ Len(p) + (i - Len(p2)) = i + 1
          <5>1. Len(p2) \in Nat /\ i \in Nat /\ i <= Len(p2) + Len(e) /\ Len(p2) = Len(p) - 1
            BY <1>1, <1>7, <1>10
          <5> QED BY <5>1, <3>2, <1>1
        <4>2. t[Len(p2) + (i - Len(p2))] = e[i - Len(p2)]
          BY <4>1, <1>10
        <4>3. s[Len(p) + (i - Len(p2))] = e[i - Len(p2)]
          BY <4>1, <1>3
        <4> QED BY <4>1, <4>2, <4>3
      <3> QED BY <3>1, <3>2, <1>1, <1>7
    <2> QED BY <2>1, <2>2
  <1>14. s[1] = Head(p) /\ 1 \in 1 .. Len(s) /\ Len(s) \in Nat
    <2>1. Len(p) # 0
      BY <1>1
    <2>2. 1 \in 1 .. Len(p) /\ 1 \in 1 .. Len(s) /\ Len(s) \in Nat
      BY <2>1, <1>1, <1>3
    <2> QED BY <2>2, <1>3, <1>8
  <1>15. ASSUME NEW m, Clear(s, m) PROVE Clear(t, m) /\ ~Carries(Head(p), m)
    <2>1. \A i \in 1 .. Len(t) : i + 1 \in 1 .. Len(s)
      BY <1>13, <1>14
    <2> QED BY <2>1, <1>13, <1>14, <1>15 DEF Clear
  <1>16. ASSUME NEW m, NEW n, Ahead(q, n, m) PROVE Ahead(q2, n, m) /\ ~Carries(Head(p), m)
    <2>1. PICK i \in 1 .. Len(s) :
              Gone(q) < i /\ IsData(s[i], n) /\ \A j \in 1 .. i : ~Carries(s[j], m)
      BY <1>16 DEF Ahead, s
    <2>2. 1 \in 1 .. i
      BY <1>14
    <2>3. /\ i - 1 \in 1 .. Len(t) /\ (i - 1) + 1 = i /\ Gone(q2) < i - 1
          /\ \A j \in 1 .. i - 1 : j \in 1 .. Len(t) /\ j + 1 \in 1 .. i
      BY <2>1, <1>11, <1>13, <1>14
    <2>4. IsData(t[i - 1], n) /\ \A j \in 1 .. i - 1 : ~Carries(t[j], m)
      BY <2>1, <2>3, <1>13
    <2>5. Ahead(q2, n, m)
      BY <2>3, <2>4 DEF Ahead, t
    <2> QED BY <2>1, <2>2, <2>5, <1>14
  <1>17. Keeps(q, q2, {})
    BY <1>15, <1>16 DEF Keeps, s, t
  <1> QED BY <1>7, <1>9, <1>12, <1>15, <1>16, <1>17 DEF RailStep, p, e, s

\* The oldest buffer on the wire leaves it: likewise, and data stays ahead unless it is this.
LEMMA ArriveStep ==
    ASSUME NEW q \in RailQueues, Posts(q), q.wire # << >>,
           NEW q2, q2 = [q EXCEPT !.wire = Tail(@)]
    PROVE  /\ q2 \in RailQueues /\ Posts(q2) /\ All(q2) = All(q)
           /\ q2.posted = q.posted /\ q2.ext = q.ext
           /\ Head(q.wire) \in Buffers
           /\ \A m : Clear(All(q), m) => ~Carries(Head(q.wire), m)
           /\ \A m, n : Ahead(q, n, m) =>
                 /\ ~Carries(Head(q.wire), m)
                 /\ ~IsData(Head(q.wire), n) => Ahead(q2, n, m)
  <1> DEFINE p == q.posted  w == q.wire  w2 == Tail(w)  s == All(q)  g == Gone(q)
  <1>1. /\ p \in Seq(Buffers) /\ w \in Seq(Buffers) /\ w # << >>
        /\ Len(p) \in Nat /\ Len(w) \in Nat
    BY DEF RailQueues
  <1>2. /\ Len(w) <= Len(p) /\ Len(p) <= MaxWqe /\ MaxWqe \in Nat
        /\ \A i \in 1 .. Len(w) : w[i] = p[g + i]
    BY SizesAssumption DEF Posts
  <1>3. /\ s \in Seq(Buffers) /\ Len(s) = Len(p) + Len(q.ext)
        /\ \A i \in 1 .. Len(p) : s[i] = p[i]
    BY AllProperties
  <1>4. q2 = [q EXCEPT !.wire = w2] /\ Len(q.ext) \in Nat
    BY DEF RailQueues
  <1>5. g = Len(p) - Len(w)
    BY DEF Gone
  <1> HIDE DEF p, w, s, g
  <1>6. /\ Head(w) \in Buffers /\ w2 \in Seq(Buffers) /\ Len(w2) = Len(w) - 1
        /\ \A i \in 1 .. Len(w2) : w2[i] = w[i + 1]
    BY ONLY <1>1, HeadTailProperties
  <1>7. Head(w) = w[1] /\ 0 < Len(w)
    BY <1>1
  <1> HIDE DEF w2
  <1>8. q2 \in RailQueues /\ q2.posted = p /\ q2.wire = w2 /\ q2.ext = q.ext
    BY <1>4, <1>6 DEF RailQueues, p
  <1>9. All(q2) = s
    BY <1>8 DEF All, s, p
  <1>10. Gone(q2) = g + 1 /\ g \in Nat
    <2>1. Gone(q2) = Len(p) - (Len(w) - 1)
      BY <1>6, <1>8 DEF Gone
    <2> QED BY <2>1, <1>1, <1>2, <1>5
  <1>11. Posts(q2)
    <2>1. Len(w2) <= Len(p)
      BY <1>1, <1>2, <1>6
    <2>2. ASSUME NEW i \in 1 .. Len(w2) PROVE w2[i] = p[Gone(q2) + i]
      <3>1. i + 1 \in 1 .. Len(w) /\ g + (i + 1) = Gone(q2) + i
        <4>1. i \in Nat /\ i <= Len(w) - 1 /\ 1 <= i
          BY <1>1, <1>6
        <4>2. i + 1 \in 1 .. Len(w)
          BY <4>1, <1>1
        <4>3. g + (i + 1) = (g + 1) + i
          BY <4>1, <1>10
        <4> QED BY <4>2, <4>3, <1>10
      <3>2. w[i + 1] = p[g + (i + 1)]
        BY <3>1, <1>2
      <3> QED BY <3>1, <3>2, <1>6
    <2> QED BY <2>1, <2>2, <1>2, <1>8 DEF Posts
  <1>12. s[g + 1] = Head(w) /\ g + 1 \in 1 .. Len(s) /\ Len(s) \in Nat
    <2>1. 1 \in 1 .. Len(w) /\ g + 1 \in 1 .. Len(p) /\ g + 1 \in 1 .. Len(s)
      BY <1>1, <1>2, <1>3, <1>4, <1>5, <1>7, <1>10
    <2>2. w[1] = p[g + 1] /\ p[g + 1] = s[g + 1]
      BY <2>1, <1>2, <1>3
    <2> QED BY <2>1, <2>2, <1>3, <1>7
  <1>13. ASSUME NEW m, Clear(s, m) PROVE ~Carries(Head(w), m)
    BY <1>12, <1>13 DEF Clear
  <1>14. ASSUME NEW m, NEW n, Ahead(q, n, m)
         PROVE  /\ ~Carries(Head(w), m)
                /\ ~IsData(Head(w), n) => Ahead(q2, n, m)
    <2>1. PICK i \in 1 .. Len(s) :
              g < i /\ IsData(s[i], n) /\ \A j \in 1 .. i : ~Carries(s[j], m)
      BY <1>14 DEF Ahead, s, g
    <2>2. g + 1 \in 1 .. i
      BY <2>1, <1>10, <1>12
    <2>3. ~Carries(Head(w), m)
      BY <2>1, <2>2, <1>12
    <2>4. ASSUME ~IsData(Head(w), n) PROVE Ahead(q2, n, m)
      <3>1. i # g + 1
        BY <2>1, <2>4, <1>12
      <3>2. Gone(q2) < i
        BY <2>1, <3>1, <1>10
      <3> QED BY <2>1, <3>2, <1>9 DEF Ahead
    <2> QED BY <2>3, <2>4
  <1> QED BY <1>6, <1>8, <1>9, <1>11, <1>13, <1>14 DEF s, w, p

LEMMA StepWeaker ==
    ASSUME NEW q, NEW q2, NEW A, NEW B, RailStep(q, q2, A), A \subseteq B
    PROVE  RailStep(q, q2, B)
  BY DEF RailStep, Keeps

LEMMA BelowStep ==
    ASSUME NEW q, NEW q2, NEW New, RailStep(q, q2, New),
           NEW N \in Int, NEW N2 \in Int, N <= N2, Below(All(q), N),
           \A m \in New : m < N2
    PROVE  Below(All(q2), N2)
  BY DEF RailStep, Keeps, Below

\* One FINISH, and the data of its rail before it.
LEMMA PutStep ==
    ASSUME NEW q \in RailQueues, Posts(q), NEW n \in Nat, NEW r \in Rails, NEW S,
           nextToSend \in Int, NEW q3, q3 = PutAndFinish(r, q, n, S)
    PROVE  /\ RailStep(q, q3, {n + r})
           /\ r \in S /\ Clear(All(q), n + r) => Ahead(q3, n, n + r)
  <1> DEFINE v == [kind |-> "data", num |-> n, msgs |-> <<n>>]
             f == [kind |-> "finish", num |-> nextToSend + r, msgs |-> <<n + r>>]
             q1 == IF r \in S THEN PostOrEnqueue(q, v) ELSE q
             q2 == FLUSH_RAIL(q1, r)
             m == n + r
  <1>1. r \in Nat
    BY SizesAssumption DEF Rails
  <1>2. m \in Int
    BY <1>1
  <1>3. v \in Buffers /\ f \in Buffers
    BY <1>1 DEF Buffers
  <1>4. q3 = PostOrEnqueue(q2, f)
    BY DEF PutAndFinish
  <1>5. v.kind = "data" /\ IsData(v, n)
    BY DEF IsData
  <1>6. \A k : ~Carries(v, k)
    BY <1>5 DEF Carries
  <1>7. \A k \in Int \ {m} : ~Carries(f, k)
    BY DEF Carries
  <1> HIDE DEF v, f, m
  <1>8. RailStep(q, q1, {m})
    <2>1. CASE r \in S
      BY <2>1, <1>3, <1>6, PostStep
    <2>2. CASE r \notin S
      BY <2>2, NoStep
    <2> QED BY <2>1, <2>2
  <1>9. q1 \in RailQueues /\ Posts(q1)
    BY <1>8 DEF RailStep
  <1>10. RailStep(q1, q2, {m})
    <2> HIDE DEF q1
    <2> QED BY <1>9, FlushStep
  <1>11. q2 \in RailQueues /\ Posts(q2)
    BY <1>10 DEF RailStep
  <1>12. RailStep(q2, q3, {m})
    <2> HIDE DEF q2
    <2> QED BY <1>3, <1>4, <1>7, <1>11, PostStep
  <1>13. RailStep(q, q3, {m})
    <2> HIDE DEF q1, q2
    <2> QED BY <1>8, <1>10, <1>12, StepsCompose
  <1>14. ASSUME r \in S, Clear(All(q), m) PROVE Ahead(q3, n, m)
    <2> DEFINE at == Place(q)  s == All(q)  s1 == All(q1)  s3 == All(q3)
    <2>1. /\ Gone(q1) = Gone(q) /\ Inserted(s, s1, at, v)
          /\ Len(q.posted) = MaxWqe => q1.posted = q.posted
          /\ Len(q.posted) # MaxWqe => Len(q1.posted) = Len(q.posted) + 1
      BY <1>3, <1>14, PostAll
    <2>2. /\ All(q2) = s1 /\ Gone(q2) = Gone(q1)
          /\ Len(q1.posted) <= Len(q2.posted)
          /\ Len(q1.posted) = MaxWqe => Len(q2.posted) = MaxWqe
      <3>1. CASE coalescing = r
        <4>1. q2 = MRAILI_Ext_sendq_send(q1)
          BY <3>1 DEF FLUSH_RAIL
        <4> HIDE DEF q1, q2
        <4> QED BY <4>1, <1>9, SendAll
      <3>2. CASE coalescing # r
        <4>1. q2 = q1
          BY <3>2 DEF FLUSH_RAIL
        <4>2. Len(q1.posted) \in Nat
          <5> HIDE DEF q1
          <5> QED BY <1>9 DEF RailQueues
        <4> HIDE DEF q1, q2
        <4> QED BY <4>1, <4>2
      <3> QED BY <3>1, <3>2
    <2> HIDE DEF q1, q2
    <2>3. Gone(q3) = Gone(q2) /\ Inserted(s1, s3, Place(q2), f)
      BY <2>2, <1>3, <1>4, <1>11, PostAll
    <2>4. /\ Len(q.posted) \in Nat /\ Len(q.wire) \in Nat /\ Len(q1.posted) \in Nat
          /\ Len(q2.posted) \in Nat /\ MaxWqe \in Nat
      BY <1>9, <1>11, SizesAssumption DEF RailQueues
    <2>5. Len(s) \in Nat /\ Len(q.posted) <= Len(s) /\ Len(q2.posted) <= Len(s1)
      BY <1>11, <2>2, QueueSizes
    <2>6. Gone(q) <= Len(q.posted)
      BY QueueSizes
    <2>7. Gone(q) \in Int
      BY QueueSizes
    <2>8. /\ at = IF Len(q.posted) = MaxWqe THEN Len(s) + 1 ELSE Len(q.posted) + 1
          /\ Place(q2) = IF Len(q2.posted) = MaxWqe THEN Len(s1) + 1 ELSE Len(q2.posted) + 1
      BY <2>2 DEF Place
    <2> HIDE DEF at, s, s1, s3
    <2>9. /\ Len(s1) = Len(s) + 1 /\ s1[at] = v /\ at \in 1 .. Len(s) + 1
          /\ \A j \in 1 .. at - 1 : s1[j] = s[j]
      BY <2>1 DEF Inserted
    <2>10. /\ Len(s3) = Len(s1) + 1 /\ \A j \in 1 .. Place(q2) - 1 : s3[j] = s1[j]
      BY <2>3 DEF Inserted
    <2>11. at < Place(q2) /\ Gone(q) < at
      <3>1. CASE Len(q.posted) = MaxWqe
        <4>1. Len(q2.posted) = MaxWqe
          BY <3>1, <2>1, <2>2
        <4> QED BY <3>1, <4>1, <2>4, <2>5, <2>6, <2>7, <2>8, <2>9
      <3>2. CASE Len(q.posted) # MaxWqe
        <4>1. at = Len(q.posted) + 1 /\ Len(q.posted) + 1 <= Len(q2.posted)
          BY <3>2, <2>1, <2>2, <2>8
        <4>2. Len(q2.posted) < Place(q2)
          BY <2>4, <2>5, <2>8, <2>9
        <4>3. Place(q2) \in Int
          BY <2>4, <2>5, <2>8, <2>9
        <4> QED BY <4>1, <4>2, <4>3, <2>4, <2>6, <2>7
      <3> QED BY <3>1, <3>2
    <2>12. Place(q2) \in Int
      BY <2>4, <2>5, <2>8, <2>9
    <2>13. /\ at \in 1 .. Len(s3) /\ at \in 1 .. Place(q2) - 1
           /\ \A j \in 1 .. at : j \in 1 .. Place(q2) - 1 /\ (j = at \/ (j \in 1 .. at - 1 /\ j \in 1 .. Len(s)))
      BY <2>5, <2>9, <2>10, <2>11, <2>12
    <2>14. IsData(s3[at], n) /\ ~Carries(s3[at], m)
      BY <2>9, <2>10, <2>13, <1>5, <1>6
    <2>15. \A j \in 1 .. at : ~Carries(s3[j], m)
      <3>1. Clear(s, m)
        BY <1>14 DEF s
      <3> QED BY <3>1, <2>9, <2>10, <2>13, <2>14 DEF Clear
    <2>16. Gone(q3) < at
      BY <2>1, <2>2, <2>3, <2>11
    <2> QED BY <2>13, <2>14, <2>15, <2>16 DEF Ahead, s3
  <1> QED BY <1>13, <1>14 DEF m
-----------------------------------------------------------------------------
(* The data of a rendezvous is written before its FINISH is handled. *)

Types ==
    /\ ch3Next \in Nat /\ nextToSend \in Int /\ nextToRecv \in Int
    /\ coalescing \in Rails \cup {NoRail}
    /\ rail \in [Rails -> RailQueues] /\ vqueue \in [Rails -> Seq(Buffers)]
    /\ handled \in Seq(Int) /\ finished \subseteq Int
    /\ stripes \subseteq Nat \X Rails

\* The coalesced buffer is in the extended queue of its rail.
QueuesInv ==
    /\ \A r \in Rails : Posts(rail[r])
    /\ coalescing # NoRail => rail[coalescing].ext # << >>

\* No message is anywhere before CH3 has sent it.
FreshInv ==
    /\ \A r \in Rails : Below(All(rail[r]), ch3Next) /\ Below(vqueue[r], ch3Next)
    /\ \A i \in 1 .. Len(handled) : handled[i] < ch3Next
    /\ \A m \in finished : m < ch3Next
    /\ \A n \in Nat, r \in Rails : <<n, r>> \in stripes => n + NumRails <= ch3Next

\* Message m is behind the data of n on rail r, and nowhere else.
Behind(n, r, m) ==
    /\ Ahead(rail[r], n, m)
    /\ \A k \in Rails : (k # r => Clear(All(rail[k]), m)) /\ Clear(vqueue[k], m)
    /\ \A i \in 1 .. Len(handled) : handled[i] # m
    /\ m \notin finished

\* So is the FINISH on each rail of a rendezvous whose data has yet to be written.
StripesInv == \A n \in Nat, r \in Rails : <<n, r>> \in stripes \ written => Behind(n, r, n + r)

DataInv == Types /\ QueuesInv /\ FreshInv /\ StripesInv

LEMMA RailsInNat == NumRails \in Nat /\ \A r \in Rails : r \in Nat /\ r < NumRails
  BY SizesAssumption DEF Rails

\* The messages CH3 has yet to send.
Later == {m \in Int : ch3Next <= m}

\* A step of the sender: messages go to the rails that CH3 has sent in this step.
SenderStep ==
    /\ ch3Next' \in Nat /\ ch3Next <= ch3Next' /\ nextToSend' \in Int
    /\ coalescing' \in Rails \cup {NoRail}
    /\ rail' \in [Rails -> RailQueues]
    /\ \A r \in Rails : RailStep(rail[r], rail'[r], {m \in Later : m < ch3Next'})
    /\ coalescing' # NoRail => rail'[coalescing'].ext # << >>
    /\ UNCHANGED <<recvVars, finished>>

LEMMA SenderKeeps ==
    ASSUME DataInv, SenderStep
    PROVE  /\ Types /\ QueuesInv' /\ (UNCHANGED stripes => DataInv')
           /\ \A r \in Rails : Below(All(rail'[r]), ch3Next')
           /\ \A r \in Rails : Below(vqueue[r], ch3Next')
           /\ \A n \in Nat, r \in Rails : <<n, r>> \in stripes \ written => Behind(n, r, n + r)'
           /\ \A i \in 1 .. Len(handled) : handled[i] < ch3Next'
           /\ \A m \in finished : m < ch3Next'
  <1>0. Types /\ QueuesInv /\ FreshInv /\ StripesInv
    BY DEF DataInv
  <1>1. QueuesInv'
    BY DEF SenderStep, QueuesInv, RailStep
  <1>2. ch3Next \in Int /\ ch3Next' \in Int /\ ch3Next <= ch3Next'
    BY <1>0 DEF SenderStep, Types
  <1>3. \A r \in Rails : Below(All(rail'[r]), ch3Next')
    <2>1. TAKE r \in Rails
    <2> DEFINE New == {m \in Later : m < ch3Next'}
    <2>2. RailStep(rail[r], rail'[r], New) /\ Below(All(rail[r]), ch3Next)
      BY <1>0 DEF SenderStep, FreshInv
    <2>3. \A m \in New : m < ch3Next'
      OBVIOUS
    <2> HIDE DEF New
    <2> QED BY <2>2, <2>3, <1>2, BelowStep
  <1>4. \A r \in Rails : Below(vqueue[r], ch3Next')
    BY <1>0, <1>2 DEF FreshInv, Below
  <1>5. ASSUME NEW n \in Nat, NEW r \in Rails, <<n, r>> \in stripes \ written
        PROVE  Behind(n, r, n + r)'
    <2> DEFINE m == n + r
    <2>1. Behind(n, r, m) /\ m \in Int /\ m \notin Later
      BY <1>0, <1>2, <1>5, RailsInNat DEF StripesInv, FreshInv, Later
    <2> HIDE DEF m
    <2>2. \A k \in Rails : Keeps(rail[k], rail'[k], {j \in Later : j < ch3Next'})
      BY DEF SenderStep, RailStep
    <2>3. m \in Int \ {j \in Later : j < ch3Next'} /\ n \in Int
      BY <2>1
    <2>4. Ahead(rail'[r], n, m)
      BY <2>1, <2>2, <2>3 DEF Keeps, Behind
    <2>5. \A k \in Rails : k # r => Clear(All(rail'[k]), m)
      BY <2>1, <2>2, <2>3 DEF Keeps, Behind
    <2>6. UNCHANGED <<vqueue, handled, finished>>
      BY DEF SenderStep, recvVars
    <2>7. Behind(n, r, m)'
      BY <2>1, <2>4, <2>5, <2>6 DEF Behind, m
    <2> QED BY <2>7 DEF m
  <1>6. /\ \A i \in 1 .. Len(handled) : handled[i] < ch3Next'
        /\ \A m \in finished : m < ch3Next'
    <2>1. \A i \in 1 .. Len(handled) : handled[i] \in Int
      BY <1>0 DEF Types
    <2> QED BY <2>1, <1>0, <1>2 DEF FreshInv, Types
  <1>7. ASSUME UNCHANGED stripes PROVE DataInv'
    <2>1. Types'
      BY <1>0, <1>7 DEF SenderStep, recvVars, Types
    <2>2. FreshInv'
      BY <1>0, <1>2, <1>3, <1>4, <1>6, <1>7, RailsInNat DEF SenderStep, recvVars, FreshInv
    <2>3. StripesInv'
      BY <1>5, <1>7 DEF StripesInv, SenderStep, recvVars
    <2> QED BY <1>1, <2>1, <2>2, <2>3 DEF DataInv
  <1> QED BY <1>0, <1>1, <1>3, <1>4, <1>5, <1>6, <1>7

\* A small message joins the coalesced buffer.
LEMMA EagerAppendKeeps ==
    ASSUME DataInv, EagerAppend
    PROVE  DataInv'
  <1>0. Types /\ QueuesInv /\ coalescing \in Rails
    BY DEF DataInv, EagerAppend, Types
  <1> DEFINE c == coalescing  q == rail[c]
             q2 == AppendTo(q, ch3Next)
  <1>1. /\ q \in RailQueues /\ Posts(q) /\ q.ext # << >> /\ ch3Next \in Int
    BY <1>0 DEF Types, QueuesInv, EagerAppend
  <1>2. rail' = [rail EXCEPT ![c] = q2]
    BY <1>0 DEF EagerAppend, AppendTo, Last, Types
  <1>3. RailStep(q, q2, {ch3Next}) /\ q2.ext # << >>
    BY <1>1, AppendStep
  <1> HIDE DEF q2
  <1>4. /\ rail' \in [Rails -> RailQueues]
        /\ \A r \in Rails : rail'[r] = IF r = c THEN q2 ELSE rail[r]
    BY <1>0, <1>2, <1>3 DEF Types, RailStep
  <1>5. /\ ch3Next' = ch3Next + 1 /\ ch3Next \in Nat
        /\ UNCHANGED <<nextToSend, coalescing, stripes, finished, recvVars>>
    BY <1>0 DEF EagerAppend, Types
  <1>6. {ch3Next} \subseteq {m \in Later : m < ch3Next'}
    BY <1>5 DEF Later
  <1>7. \A r \in Rails : RailStep(rail[r], rail'[r], {m \in Later : m < ch3Next'})
    <2>1. TAKE r \in Rails
    <2>2. CASE r = c
      BY <2>2, <1>3, <1>4, <1>6, StepWeaker
    <2>3. CASE r # c
      BY <2>3, <1>0, <1>4, NoStep DEF Types, QueuesInv
    <2> QED BY <2>2, <2>3
  <1>8. SenderStep
    BY <1>0, <1>3, <1>4, <1>5, <1>7 DEF SenderStep, Types
  <1> QED BY <1>5, <1>8, SenderKeeps

\* A small message gets a buffer of its own.
LEMMA EagerNewKeeps ==
    ASSUME DataInv, NEW r \in Rails, EagerNew(r)
    PROVE  DataInv'
  <1> DEFINE Flow(k) == FLUSH_RAIL(rail[k], k)
             New == {m \in Later : m < ch3Next'}
             v(num) == [kind |-> "eager", num |-> num, msgs |-> <<ch3Next>>]
  <1>0. Types /\ QueuesInv
    BY DEF DataInv
  <1>1. /\ ch3Next' = ch3Next + 1 /\ ch3Next \in Nat /\ nextToSend \in Int
        /\ UNCHANGED <<stripes, finished, recvVars>>
    BY <1>0 DEF EagerNew, Types
  <1>2. \A num \in Int : v(num) \in Buffers
    BY <1>1 DEF Buffers
  <1>3. \A num \in Int, m \in Int \ New : ~Carries(v(num), m)
    BY <1>1 DEF Carries, Later
  <1>4. \A k \in Rails : RailStep(rail[k], Flow(k), New)
    BY <1>0, FlushStep DEF Types, QueuesInv
  <1>5. \A k \in Rails : Flow(k) \in RailQueues /\ Posts(Flow(k))
    BY <1>4 DEF RailStep
  <1>6. Flushed = [k \in Rails |-> Flow(k)]
    BY DEF Flushed
  <1>7. \/ /\ rail' = [Flushed EXCEPT ![r] = MRAILI_Ext_sendq_enqueue(Flow(r), v(ch3Next))]
           /\ coalescing' = r /\ nextToSend' = nextToSend
        \/ /\ rail' = [Flushed EXCEPT ![r] = PostOrEnqueue(Flow(r), v(nextToSend))]
           /\ coalescing' = NoRail /\ nextToSend' = nextToSend + 1
    BY <1>6 DEF EagerNew
  <1> HIDE DEF Flow, New, v
  <1>8. ASSUME NEW q2, RailStep(Flow(r), q2, New), rail' = [Flushed EXCEPT ![r] = q2]
        PROVE  /\ rail' \in [Rails -> RailQueues] /\ rail'[r] = q2
               /\ \A k \in Rails : RailStep(rail[k], rail'[k], New)
    <2>1. q2 \in RailQueues
      BY <1>8 DEF RailStep
    <2>2. RailStep(rail[r], q2, New)
      BY <1>4, <1>8, StepsCompose
    <2>3. \A k \in Rails : rail'[k] = IF k = r THEN q2 ELSE Flow(k)
      BY <1>6, <1>8
    <2>4. rail' \in [Rails -> RailQueues]
      BY <1>5, <1>6, <1>8, <2>1
    <2> QED BY <1>4, <2>2, <2>3, <2>4
  <1>9. CASE /\ rail' = [Flushed EXCEPT ![r] = MRAILI_Ext_sendq_enqueue(Flow(r), v(ch3Next))]
             /\ coalescing' = r /\ nextToSend' = nextToSend
    <2> DEFINE q2 == MRAILI_Ext_sendq_enqueue(Flow(r), v(ch3Next))
    <2>1. RailStep(Flow(r), q2, New) /\ q2.ext # << >>
      BY <1>1, <1>2, <1>3, <1>5, EnqueueStep, EnqueueAll
    <2> HIDE DEF q2
    <2>2. /\ rail' \in [Rails -> RailQueues] /\ rail'[r] = q2
          /\ \A k \in Rails : RailStep(rail[k], rail'[k], New)
      BY <1>8, <1>9, <2>1 DEF q2
    <2>3. SenderStep
      <3>1. coalescing' \in Rails \cup {NoRail} /\ rail'[coalescing'].ext # << >>
        BY <1>9, <2>1, <2>2
      <3>2. /\ ch3Next' \in Nat /\ ch3Next <= ch3Next' /\ nextToSend' \in Int
            /\ UNCHANGED <<recvVars, finished>>
        BY <1>1, <1>9
      <3> QED BY <2>2, <3>1, <3>2 DEF SenderStep, New
    <2> QED BY <1>1, <2>3, SenderKeeps
  <1>10. CASE /\ rail' = [Flushed EXCEPT ![r] = PostOrEnqueue(Flow(r), v(nextToSend))]
              /\ coalescing' = NoRail /\ nextToSend' = nextToSend + 1
    <2> DEFINE q2 == PostOrEnqueue(Flow(r), v(nextToSend))
    <2>1. RailStep(Flow(r), q2, New)
      BY <1>1, <1>2, <1>3, <1>5, PostStep
    <2> HIDE DEF q2
    <2>2. /\ rail' \in [Rails -> RailQueues]
          /\ \A k \in Rails : RailStep(rail[k], rail'[k], New)
      BY <1>8, <1>10, <2>1 DEF q2
    <2>3. SenderStep
      BY <1>1, <1>10, <2>2 DEF SenderStep, New
    <2> QED BY <1>1, <2>3, SenderKeeps
  <1> QED BY <1>7, <1>9, <1>10

\* A rendezvous: its data and its FINISH packets.
LEMMA RendezvousKeeps ==
    ASSUME DataInv, NEW S \in {{r} : r \in Rails} \cup {Rails}, Rendezvous_rput_push(S)
    PROVE  DataInv'
  <1> DEFINE Put(r) == PutAndFinish(r, rail[r], ch3Next, S)
             New == {m \in Later : m < ch3Next'}
  <1>0. Types /\ QueuesInv /\ FreshInv
    BY DEF DataInv
  <1>n. PICK n \in Nat : n = ch3Next
    BY <1>0 DEF Types
  <1>1. /\ n \in Int /\ nextToSend \in Int /\ S \subseteq Rails
        /\ rail' = [r \in Rails |-> Put(r)]
        /\ stripes' = stripes \cup ({n} \X S)
        /\ ch3Next' = n + NumRails /\ nextToSend' = nextToSend + NumRails
        /\ coalescing' = NoRail
        /\ UNCHANGED <<finished, recvVars>>
    BY <1>0, <1>n DEF Rendezvous_rput_push, Types
  <1>2. \A r \in Rails : n + r \in Int /\ n <= n + r /\ n + r < n + NumRails
    BY <1>1, RailsInNat
  <1>3. \A r \in Rails : {n + r} \subseteq New
    BY <1>1, <1>2, <1>n DEF Later
  <1>4. \A r \in Rails : /\ RailStep(rail[r], Put(r), {n + r})
                         /\ r \in S /\ Clear(All(rail[r]), n + r) => Ahead(Put(r), n, n + r)
    BY <1>0, <1>1, <1>n, PutStep DEF Types, QueuesInv
  <1> HIDE DEF Put, New
  <1>5. \A r \in Rails : rail'[r] = Put(r) /\ Put(r) \in RailQueues
    BY <1>1, <1>4 DEF RailStep
  <1>6. rail' \in [Rails -> RailQueues]
    BY <1>1, <1>5
  <1>7. \A r \in Rails : RailStep(rail[r], rail'[r], New)
    <2>1. TAKE r \in Rails
    <2>2. RailStep(rail[r], rail'[r], {n + r}) /\ {n + r} \subseteq New
      BY <1>3, <1>4, <1>5
    <2> QED BY <2>2, StepWeaker
  <1>8. SenderStep
    BY <1>1, <1>6, <1>7, <1>n, RailsInNat DEF SenderStep, New
  <1>9. \A r, k \in Rails : Clear(All(rail[r]), n + k) /\ Clear(vqueue[r], n + k)
    BY <1>0, <1>2, <1>n DEF FreshInv, Below
  <1>10. ASSUME NEW r \in S PROVE Behind(n, r, n + r)'
    <2> DEFINE m == n + r
    <2>1. r \in Rails /\ m \in Int
      BY <1>1, <1>2
    <2>2. Ahead(rail'[r], n, m)
      BY <1>4, <1>5, <1>9, <2>1
    <2>3. ASSUME NEW k \in Rails, k # r PROVE Clear(All(rail'[k]), m)
      <3>1. m \notin {n + k}
        BY <1>1, <2>1, <2>3, RailsInNat
      <3>2. Keeps(rail[k], rail'[k], {n + k})
        BY <1>4, <1>5 DEF RailStep
      <3> HIDE DEF m
      <3> QED BY <3>1, <3>2, <1>9, <2>1 DEF Keeps, m
    <2>4. \A i \in 1 .. Len(handled) : handled[i] # m
      <3>1. \A i \in 1 .. Len(handled) : handled[i] < n /\ handled[i] \in Int
        BY <1>0, <1>n DEF FreshInv, Types
      <3> QED BY <3>1, <1>2, <2>1, <1>1
    <2>5. m \notin finished
      BY <1>0, <1>1, <1>2, <1>n, <2>1 DEF FreshInv
    <2>6. UNCHANGED <<vqueue, handled, finished>>
      BY <1>1 DEF recvVars
    <2>7. \A k \in Rails : Clear(vqueue[k], m)
      BY <1>9, <2>1
    <2> QED BY <2>1, <2>2, <2>3, <2>4, <2>5, <2>6, <2>7 DEF Behind
  <1>11. Types'
    BY <1>0, <1>1, <1>6, RailsInNat DEF Types, recvVars
  <1>12. FreshInv'
    <2>1. ASSUME NEW k \in Nat, NEW r \in Rails, <<k, r>> \in stripes'
          PROVE  k + NumRails <= ch3Next'
      BY <1>0, <1>1, <1>n, <2>1, RailsInNat DEF FreshInv
    <2> QED BY <1>1, <1>8, <2>1, SenderKeeps DEF FreshInv, recvVars
  <1>13. StripesInv'
    <2>1. ASSUME NEW k \in Nat, NEW r \in Rails, <<k, r>> \in stripes' \ written'
          PROVE  Behind(k, r, k + r)'
      <3>1. <<k, r>> \in stripes \ written \/ (k = n /\ r \in S)
        BY <1>1, <2>1 DEF recvVars
      <3> QED BY <3>1, <1>8, <1>10, SenderKeeps
    <2> QED BY <2>1 DEF StripesInv
  <1> QED BY <1>8, <1>11, <1>12, <1>13, SenderKeeps DEF DataInv

\* A completion: what is finished was behind no data that has yet to be written.
LEMMA ProcessSendKeeps ==
    ASSUME DataInv, NEW r \in Rails, MRAILI_Process_send(r)
    PROVE  DataInv'
  <1> DEFINE q == rail[r]  v == Head(q.posted)
             q2 == [q EXCEPT !.posted = Tail(@)]
             done == [rail EXCEPT ![r].posted = Tail(@)]
             left == IF v.kind = "eager" THEN outstanding - 1 ELSE outstanding
             flushes == v.kind = "eager" /\ FlushesAfter(left)
             flushed == IF flushes THEN [k \in Rails |-> FLUSH_RAIL(done[k], k)] ELSE done
  <1>0. Types /\ QueuesInv /\ FreshInv /\ StripesInv
    BY DEF DataInv
  <1>1. /\ Len(q.posted) > Len(q.wire)
        /\ rail' = [flushed EXCEPT ![r] = MRAILI_Ext_sendq_send(@)]
        /\ coalescing' = StillCoalescing(rail')
        /\ finished' = finished \cup (IF v.kind = "finish" THEN {v.msgs[1]} ELSE {})
        /\ UNCHANGED <<ch3Next, nextToSend, stripes, recvVars>>
    BY DEF MRAILI_Process_send
  <1>2. q \in RailQueues /\ Posts(q)
    BY <1>0 DEF Types, QueuesInv
  <1>3. /\ RailStep(q, q2, {}) /\ v \in Buffers
        /\ \A m : Clear(All(q), m) \/ (\E n : Ahead(q, n, m)) => ~Carries(v, m)
    BY <1>1, <1>2, CompleteStep
  <1>4. done = [rail EXCEPT ![r] = q2]
    BY <1>0 DEF Types
  <1> HIDE DEF q2, v, left, flushes
  <1>5. /\ done \in [Rails -> RailQueues]
        /\ \A k \in Rails : RailStep(rail[k], done[k], {})
    <2>1. q2 \in RailQueues
      BY <1>3 DEF RailStep
    <2>2. \A k \in Rails : done[k] = IF k = r THEN q2 ELSE rail[k]
      BY <1>0, <1>4 DEF Types
    <2>3. \A k \in Rails : RailStep(rail[k], rail[k], {})
      BY <1>0, NoStep DEF Types, QueuesInv
    <2> QED BY <1>0, <1>3, <1>4, <2>1, <2>2, <2>3 DEF Types
  <1> HIDE DEF done
  <1>6. /\ flushed \in [Rails -> RailQueues]
        /\ \A k \in Rails : RailStep(rail[k], flushed[k], {})
    <2>1. \A k \in Rails : RailStep(done[k], FLUSH_RAIL(done[k], k), {})
      BY <1>5, FlushStep DEF RailStep
    <2>2. \A k \in Rails : RailStep(rail[k], FLUSH_RAIL(done[k], k), {})
      BY <1>5, <2>1, StepsCompose
    <2>3. CASE flushes
      <3>1. flushed = [k \in Rails |-> FLUSH_RAIL(done[k], k)]
        BY <2>3
      <3>2. \A k \in Rails : FLUSH_RAIL(done[k], k) \in RailQueues
        BY <2>2 DEF RailStep
      <3> HIDE DEF flushed
      <3> QED BY <2>2, <3>1, <3>2
    <2>4. CASE ~flushes
      BY <2>4, <1>5
    <2> QED BY <2>3, <2>4
  <1> HIDE DEF flushed
  <1>7. /\ rail' \in [Rails -> RailQueues]
        /\ \A k \in Rails : RailStep(rail[k], rail'[k], {})
    <2> DEFINE q3 == MRAILI_Ext_sendq_send(flushed[r])
    <2>1. RailStep(flushed[r], q3, {})
      BY <1>6, SendStep DEF RailStep
    <2>2. RailStep(rail[r], q3, {}) /\ q3 \in RailQueues
      BY <1>6, <2>1, StepsCompose DEF RailStep
    <2>3. rail' = [flushed EXCEPT ![r] = q3]
      BY <1>1
    <2> HIDE DEF q3
    <2> QED BY <1>6, <2>2, <2>3
  <1>8. QueuesInv'
    <2>1. coalescing' # NoRail => rail'[coalescing'].ext # << >>
      BY <1>1 DEF StillCoalescing
    <2> QED BY <1>7, <2>1 DEF QueuesInv, RailStep
  <1>9. v.kind = "finish" => Carries(v, v.msgs[1]) /\ v.msgs[1] \in Int
    <2>1. v.msgs \in Seq(Int) /\ v.msgs # << >>
      BY <1>3 DEF Buffers
    <2>2. 1 \in DOMAIN v.msgs /\ v.msgs[1] \in Int
      BY <2>1
    <2> QED BY <2>2 DEF Carries
  <1>10. Types'
    <2>1. coalescing' \in Rails \cup {NoRail}
      BY <1>0, <1>1 DEF StillCoalescing, Types
    <2>2. finished' \subseteq Int
      BY <1>0, <1>1, <1>9 DEF Types
    <2> QED BY <1>0, <1>1, <1>7, <2>1, <2>2 DEF Types, recvVars
  <1>11. ch3Next \in Int
    BY <1>0 DEF Types
  <1>12. FreshInv'
    <2>1. \A k \in Rails : Below(All(rail'[k]), ch3Next)
      BY <1>0, <1>7, <1>11, BelowStep DEF FreshInv
    <2>2. v.kind = "finish" => v.msgs[1] < ch3Next
      BY <1>0, <1>3, <1>9, <1>11 DEF FreshInv, Below
    <2>3. \A m \in finished' : m < ch3Next
      BY <1>0, <1>1, <2>2 DEF FreshInv
    <2> QED BY <1>0, <1>1, <2>1, <2>3 DEF FreshInv, recvVars
  <1>13. StripesInv'
    <2>1. SUFFICES ASSUME NEW n \in Nat, NEW k \in Rails, <<n, k>> \in stripes \ written
                   PROVE  Behind(n, k, n + k)'
      BY <1>1 DEF StripesInv, recvVars
    <2> DEFINE m == n + k
    <2>2. Behind(n, k, m) /\ m \in Int
      BY <1>0, <2>1, RailsInNat DEF StripesInv
    <2> HIDE DEF m
    <2>3. \A i \in Rails : Keeps(rail[i], rail'[i], {})
      BY <1>7 DEF RailStep
    <2>4. Ahead(rail'[k], n, m) /\ \A i \in Rails : i # k => Clear(All(rail'[i]), m)
      BY <2>2, <2>3 DEF Keeps, Behind
    <2>5. ~Carries(v, m)
      BY <1>3, <2>2 DEF Behind
    <2>6. m \notin finished'
      BY <1>1, <1>9, <2>2, <2>5 DEF Behind
    <2>7. Behind(n, k, m)'
      BY <1>1, <2>2, <2>4, <2>6 DEF Behind, recvVars, m
    <2> QED BY <2>7 DEF m
  <1> QED BY <1>8, <1>10, <1>12, <1>13 DEF DataInv

\* Something arrives at the receiver from rail r.
ArrivesStep(r) ==
    /\ rail[r].wire # << >> /\ rail' = [rail EXCEPT ![r].wire = Tail(@)]
    /\ UNCHANGED <<ch3Next, nextToSend, coalescing, stripes, finished>>

\* The sender's part of the invariant does not mind; v is what has arrived.
LEMMA ArrivesKeeps ==
    ASSUME DataInv, NEW r \in Rails, ArrivesStep(r), NEW v, v = Head(rail[r].wire)
    PROVE  /\ v \in Buffers /\ QueuesInv'
           /\ rail' \in [Rails -> RailQueues]
           /\ \A k \in Rails : All(rail'[k]) = All(rail[k])
           /\ \A n \in Nat, k \in Rails : <<n, k>> \in stripes \ written =>
                 /\ ~Carries(v, n + k)
                 /\ k # r \/ ~IsData(v, n) => Ahead(rail'[k], n, n + k)
  <1> DEFINE q == rail[r]  q2 == [q EXCEPT !.wire = Tail(@)]
  <1>0. Types /\ QueuesInv /\ FreshInv /\ StripesInv
    BY DEF DataInv
  <1>1. q \in RailQueues /\ Posts(q) /\ q.wire # << >> /\ rail' = [rail EXCEPT ![r] = q2]
    BY <1>0 DEF Types, QueuesInv, ArrivesStep
  <1>2. /\ q2 \in RailQueues /\ Posts(q2) /\ All(q2) = All(q) /\ q2.ext = q.ext /\ v \in Buffers
        /\ \A m : Clear(All(q), m) => ~Carries(v, m)
        /\ \A m, n : Ahead(q, n, m) => ~Carries(v, m) /\ (~IsData(v, n) => Ahead(q2, n, m))
    BY <1>1, ArriveStep
  <1> HIDE DEF q2
  <1>3. /\ rail' \in [Rails -> RailQueues]
        /\ \A k \in Rails : rail'[k] = IF k = r THEN q2 ELSE rail[k]
    BY <1>0, <1>1, <1>2 DEF Types
  <1>4. QueuesInv'
    <2>1. \A k \in Rails : Posts(rail'[k]) /\ rail'[k].ext = rail[k].ext
      BY <1>0, <1>2, <1>3 DEF QueuesInv
    <2>2. coalescing' = coalescing /\ coalescing \in Rails \cup {NoRail}
      BY <1>0 DEF ArrivesStep, Types
    <2> QED BY <1>0, <2>1, <2>2 DEF QueuesInv
  <1>5. ASSUME NEW n \in Nat, NEW k \in Rails, <<n, k>> \in stripes \ written
        PROVE  /\ ~Carries(v, n + k)
               /\ k # r \/ ~IsData(v, n) => Ahead(rail'[k], n, n + k)
    <2>1. Behind(n, k, n + k)
      BY <1>0, <1>5 DEF StripesInv
    <2>2. CASE k = r
      BY <1>2, <1>3, <2>1, <2>2 DEF Behind
    <2>3. CASE k # r
      BY <1>2, <1>3, <2>1, <2>3 DEF Behind
    <2> QED BY <2>2, <2>3
  <1> QED BY <1>2, <1>3, <1>4, <1>5

\* A rendezvous write arrives.
LEMMA DataWrittenKeeps ==
    ASSUME DataInv, NEW r \in Rails, DataWritten(r)
    PROVE  DataInv'
  <1> DEFINE v == Head(rail[r].wire)
  <1>0. Types /\ FreshInv /\ StripesInv
    BY DEF DataInv
  <1>1. /\ ArrivesStep(r) /\ v.kind = "data"
        /\ written' = written \cup {<<v.msgs[1], r>>}
        /\ UNCHANGED <<nextToRecv, vqueue, handled>>
    BY DEF DataWritten, ArrivesStep
  <1> HIDE DEF v
  <1>2. /\ QueuesInv' /\ rail' \in [Rails -> RailQueues]
        /\ \A k \in Rails : All(rail'[k]) = All(rail[k])
        /\ \A n \in Nat, k \in Rails : <<n, k>> \in stripes \ written =>
              (k # r \/ ~IsData(v, n) => Ahead(rail'[k], n, n + k))
    BY <1>1, ArrivesKeeps DEF v
  <1>3. Types' /\ FreshInv'
    BY <1>0, <1>1, <1>2 DEF Types, FreshInv, ArrivesStep
  <1>4. StripesInv'
    <2>1. SUFFICES ASSUME NEW n \in Nat, NEW k \in Rails, <<n, k>> \in stripes \ written'
                   PROVE  Behind(n, k, n + k)'
      BY <1>1 DEF StripesInv, ArrivesStep
    <2>2. <<n, k>> \in stripes \ written /\ (k # r \/ ~IsData(v, n))
      BY <1>1, <2>1 DEF IsData
    <2>3. Behind(n, k, n + k) /\ Ahead(rail'[k], n, n + k)
      BY <1>0, <1>2, <2>2 DEF StripesInv
    <2> QED BY <1>1, <1>2, <2>3 DEF Behind, ArrivesStep
  <1> QED BY <1>2, <1>3, <1>4 DEF DataInv

\* Handling a buffer that carries nothing of a rendezvous that is not written.
LEMMA HandleKeeps ==
    ASSUME Types, FreshInv, NEW v \in Buffers, v.kind # "data", Handle(v),
           \A m \in Int : Carries(v, m) => m < ch3Next
    PROVE  /\ handled' \in Seq(Int) /\ nextToRecv' \in Int
           /\ \A i \in 1 .. Len(handled') : handled'[i] < ch3Next
           /\ \A m : (\A i \in 1 .. Len(handled) : handled[i] # m) /\ ~Carries(v, m) =>
                 \A i \in 1 .. Len(handled') : handled'[i] # m
  <1> DEFINE h == handled  b == v.msgs
  <1>1. h \in Seq(Int) /\ b \in Seq(Int) /\ nextToRecv \in Int
    BY DEF Types, Buffers
  <1>2. handled' = h \o b /\ nextToRecv' = nextToRecv + 1
    BY DEF Handle
  <1>3. \A k \in 1 .. Len(b) : Carries(v, b[k]) /\ b[k] \in Int
    BY <1>1 DEF Carries
  <1>4. \A i \in 1 .. Len(h) : h[i] < ch3Next
    BY DEF FreshInv
  <1> HIDE DEF b
  <1>5. /\ h \o b \in Seq(Int) /\ Len(h \o b) = Len(h) + Len(b)
        /\ \A i \in 1 .. Len(h) + Len(b) : (h \o b)[i] = IF i <= Len(h) THEN h[i] ELSE b[i - Len(h)]
    BY ONLY <1>1, ConcatProperties
  <1>6. Len(h) \in Nat /\ Len(b) \in Nat
    BY <1>1
  <1>7. ASSUME NEW i \in 1 .. Len(h) + Len(b)
        PROVE  \/ i \in 1 .. Len(h) /\ (h \o b)[i] = h[i]
               \/ i - Len(h) \in 1 .. Len(b) /\ (h \o b)[i] = b[i - Len(h)]
    <2> HIDE DEF h
    <2>1. CASE i <= Len(h)
      BY <2>1, <1>5, <1>6
    <2>2. CASE Len(h) < i
      <3>1. i - Len(h) \in 1 .. Len(b)
        BY <2>2, <1>6
      <3>2. (h \o b)[i] = b[i - Len(h)]
        BY <2>2, <1>5, <1>6
      <3> QED BY <3>1, <3>2
    <2> QED BY <2>1, <2>2, <1>6
  <1> QED BY <1>1, <1>2, <1>3, <1>4, <1>5, <1>7

\* A buffer arrives in its turn, or early.
LEMMA CqPollKeeps ==
    ASSUME DataInv, NEW r \in Rails, MRAILI_Cq_poll(r)
    PROVE  DataInv'
  <1>0. Types /\ FreshInv /\ StripesInv
    BY DEF DataInv
  <1> DEFINE v == Head(rail[r].wire)
  <1>1. /\ ArrivesStep(r) /\ v.kind # "data" /\ written' = written
        /\ \/ Handle(v) /\ UNCHANGED vqueue
           \/ vqueue' = [vqueue EXCEPT ![r] = Append(@, v)] /\ UNCHANGED <<nextToRecv, handled>>
    BY DEF MRAILI_Cq_poll, ArrivesStep
  <1>2. v = Head(rail[r].wire) /\ rail[r].wire # << >>
    BY <1>1 DEF ArrivesStep
  <1>3. \A m \in Int : Carries(v, m) => m < ch3Next
    <2>1. Below(All(rail[r]), ch3Next) /\ rail[r] \in RailQueues /\ Posts(rail[r])
      BY <1>0 DEF FreshInv, Types, DataInv, QueuesInv
    <2>2. \A m : Clear(All(rail[r]), m) => ~Carries(v, m)
      BY <1>2, <2>1, ArriveStep
    <2>3. ch3Next \in Int
      BY <1>0 DEF Types
    <2> HIDE DEF v
    <2> QED BY <2>1, <2>2, <2>3 DEF Below
  <1>4. /\ v \in Buffers /\ QueuesInv' /\ rail' \in [Rails -> RailQueues]
        /\ \A k \in Rails : All(rail'[k]) = All(rail[k])
        /\ \A n \in Nat, k \in Rails : <<n, k>> \in stripes \ written =>
              ~Carries(v, n + k) /\ (k # r \/ ~IsData(v, n) => Ahead(rail'[k], n, n + k))
    BY <1>1, ArrivesKeeps
  <1> HIDE DEF v
  <1>5. \A n : ~IsData(v, n)
    BY <1>1 DEF IsData
  <1>6. /\ vqueue' \in [Rails -> Seq(Buffers)]
        /\ \A k \in Rails : \A m : Clear(vqueue[k], m) /\ ~Carries(v, m) => Clear(vqueue'[k], m)
    <2>1. CASE UNCHANGED vqueue
      BY <2>1, <1>0 DEF Types
    <2>2. CASE vqueue' = [vqueue EXCEPT ![r] = Append(@, v)]
      <3> DEFINE b == vqueue[r]  b2 == Append(b, v)
      <3>1. b \in Seq(Buffers) /\ Len(b) \in Nat
        BY <1>0 DEF Types
      <3>2. /\ b2 \in Seq(Buffers) /\ Len(b2) = Len(b) + 1 /\ b2[Len(b) + 1] = v
            /\ \A i \in 1 .. Len(b) : b2[i] = b[i]
        BY <1>4, <3>1, AppendProperties
      <3>3. vqueue' = [vqueue EXCEPT ![r] = b2]
        BY <2>2
      <3> HIDE DEF b2
      <3>4. \A k \in Rails : vqueue'[k] = IF k = r THEN b2 ELSE vqueue[k]
        BY <1>0, <3>3 DEF Types
      <3>5. vqueue' \in [Rails -> Seq(Buffers)]
        BY <1>0, <3>2, <3>3 DEF Types
      <3>6. ASSUME NEW m, Clear(b, m), ~Carries(v, m) PROVE Clear(b2, m)
        <4> HIDE DEF b
        <4>1. \A j \in 1 .. Len(b2) : j \in 1 .. Len(b) \/ j = Len(b) + 1
          BY <3>1, <3>2
        <4> QED BY <4>1, <3>2, <3>6 DEF Clear
      <3> QED BY <3>4, <3>5, <3>6
    <2> QED BY <1>1, <2>1, <2>2
  <1>7. /\ handled' \in Seq(Int) /\ nextToRecv' \in Int
        /\ \A i \in 1 .. Len(handled') : handled'[i] < ch3Next
        /\ \A m : (\A i \in 1 .. Len(handled) : handled[i] # m) /\ ~Carries(v, m) =>
              \A i \in 1 .. Len(handled') : handled'[i] # m
    <2>1. CASE Handle(v)
      BY <2>1, <1>0, <1>1, <1>3, <1>4, HandleKeeps
    <2>2. CASE UNCHANGED <<nextToRecv, handled>>
      BY <2>2, <1>0 DEF Types, FreshInv
    <2> QED BY <1>1, <2>1, <2>2
  <1>8. Types'
    BY <1>0, <1>1, <1>4, <1>6, <1>7 DEF Types, ArrivesStep
  <1>9. FreshInv'
    <2>1. \A k \in Rails : Below(vqueue'[k], ch3Next)
      <3>1. ch3Next \in Int
        BY <1>0 DEF Types
      <3> QED BY <1>0, <1>3, <1>6, <3>1 DEF FreshInv, Below
    <2> QED BY <1>0, <1>1, <1>4, <1>7, <2>1 DEF FreshInv, ArrivesStep
  <1>10. StripesInv'
    <2>1. SUFFICES ASSUME NEW n \in Nat, NEW k \in Rails, <<n, k>> \in stripes \ written
                   PROVE  Behind(n, k, n + k)'
      BY <1>1 DEF StripesInv, ArrivesStep
    <2>2. /\ Behind(n, k, n + k) /\ ~Carries(v, n + k)
          /\ Ahead(rail'[k], n, n + k)
      BY <1>0, <1>4, <1>5, <2>1 DEF StripesInv
    <2> QED BY <1>1, <1>4, <1>6, <1>7, <2>2 DEF Behind, ArrivesStep
  <1> QED BY <1>4, <1>8, <1>9, <1>10 DEF DataInv

\* A queued buffer is next.
LEMMA WaitingMsgKeeps ==
    ASSUME DataInv, NEW r \in Rails, MRAILI_Waiting_msg(r), Head(vqueue[r]).kind # "data"
    PROVE  DataInv'
  <1>0. Types /\ QueuesInv /\ FreshInv /\ StripesInv
    BY DEF DataInv
  <1> DEFINE b == vqueue[r]  v == Head(b)  b2 == Tail(b)
  <1>1. b \in Seq(Buffers) /\ b # << >>
    BY <1>0 DEF Types, MRAILI_Waiting_msg
  <1>2. /\ Handle(v) /\ vqueue' = [vqueue EXCEPT ![r] = b2]
        /\ UNCHANGED <<sendVars, finished, written>>
    BY DEF MRAILI_Waiting_msg
  <1>3. v = b[1] /\ 1 \in 1 .. Len(b) /\ Len(b) \in Nat
    BY <1>1
  <1>4. /\ v \in Buffers /\ b2 \in Seq(Buffers) /\ Len(b2) = Len(b) - 1
        /\ \A i \in 1 .. Len(b2) : b2[i] = b[i + 1]
    BY <1>1, HeadTailProperties
  <1>5. v.kind # "data"
    OBVIOUS
  <1> HIDE DEF v, b2
  <1>6. /\ vqueue' \in [Rails -> Seq(Buffers)]
        /\ \A k \in Rails : vqueue'[k] = IF k = r THEN b2 ELSE vqueue[k]
    BY <1>0, <1>2, <1>4 DEF Types
  <1> HIDE DEF b
  <1>7. ASSUME NEW m, Clear(b, m) PROVE ~Carries(v, m) /\ Clear(b2, m)
    <2>1. \A i \in 1 .. Len(b2) : i + 1 \in 1 .. Len(b)
      BY <1>3, <1>4
    <2> QED BY <2>1, <1>3, <1>4, <1>7 DEF Clear
  <1>8. /\ ch3Next \in Int
        /\ \A m \in Int : Carries(v, m) => m < ch3Next
    <2>1. ch3Next \in Int /\ Below(b, ch3Next)
      BY <1>0 DEF Types, FreshInv, b
    <2> QED BY <2>1, <1>7 DEF Below
  <1>9. /\ handled' \in Seq(Int) /\ nextToRecv' \in Int
        /\ \A i \in 1 .. Len(handled') : handled'[i] < ch3Next
        /\ \A m : (\A i \in 1 .. Len(handled) : handled[i] # m) /\ ~Carries(v, m) =>
              \A i \in 1 .. Len(handled') : handled'[i] # m
    BY <1>0, <1>2, <1>4, <1>5, <1>8, HandleKeeps
  <1>10. Types' /\ QueuesInv'
    BY <1>0, <1>2, <1>6, <1>9 DEF Types, QueuesInv, sendVars
  <1>11. \A k \in Rails : \A m : Clear(vqueue[k], m) => Clear(vqueue'[k], m)
    BY <1>6, <1>7 DEF b
  <1>12. FreshInv'
    BY <1>0, <1>2, <1>9, <1>11 DEF FreshInv, Below, sendVars
  <1>13. StripesInv'
    <2>1. SUFFICES ASSUME NEW n \in Nat, NEW k \in Rails, <<n, k>> \in stripes \ written
                   PROVE  Behind(n, k, n + k)'
      BY <1>2 DEF StripesInv, sendVars
    <2>2. Behind(n, k, n + k)
      BY <1>0, <2>1 DEF StripesInv
    <2>3. ~Carries(v, n + k)
      BY <1>7, <2>2 DEF Behind, b
    <2> QED BY <1>2, <1>9, <1>11, <2>2, <2>3 DEF Behind, sendVars
  <1> QED BY <1>10, <1>12, <1>13 DEF DataInv

\* The receiver queues no data.
PacketsInv == \A r \in Rails : \A i \in 1 .. Len(vqueue[r]) : vqueue[r][i].kind # "data"

LEMMA PacketsKeeps ==
    ASSUME DataInv, PacketsInv, Next
    PROVE  PacketsInv'
  <1>0. vqueue \in [Rails -> Seq(Buffers)]
    BY DEF DataInv, Types
  <1>1. CASE UNCHANGED vqueue
    BY <1>1 DEF PacketsInv
  <1>2. ASSUME NEW r \in Rails, MRAILI_Cq_poll(r) PROVE PacketsInv'
    <2> DEFINE v == Head(rail[r].wire)  b == vqueue[r]  b2 == Append(b, v)
    <2>1. v \in Buffers /\ v.kind # "data"
      <3>1. rail[r] \in RailQueues /\ Posts(rail[r]) /\ rail[r].wire # << >>
        BY <1>2 DEF DataInv, Types, QueuesInv, MRAILI_Cq_poll
      <3>2. v \in Buffers
        BY <3>1, ArriveStep
      <3> QED BY <3>2, <1>2 DEF MRAILI_Cq_poll
    <2>2. UNCHANGED vqueue \/ vqueue' = [vqueue EXCEPT ![r] = b2]
      BY <1>2 DEF MRAILI_Cq_poll
    <2> HIDE DEF v
    <2>3. b \in Seq(Buffers) /\ Len(b) \in Nat /\ \A i \in 1 .. Len(b) : b[i].kind # "data"
      BY <1>0 DEF PacketsInv
    <2>4. /\ Len(b2) = Len(b) + 1 /\ b2[Len(b) + 1] = v
          /\ \A i \in 1 .. Len(b) : b2[i] = b[i]
      BY <2>1, <2>3, AppendProperties
    <2> HIDE DEF b2, b
    <2>5. \A i \in 1 .. Len(b2) : b2[i].kind # "data"
      <3>1. \A i \in 1 .. Len(b2) : i \in 1 .. Len(b) \/ i = Len(b) + 1
        BY <2>3, <2>4
      <3> QED BY <3>1, <2>1, <2>3, <2>4
    <2>6. ASSUME vqueue' = [vqueue EXCEPT ![r] = b2] PROVE PacketsInv'
      <3>1. \A k \in Rails : vqueue'[k] = IF k = r THEN b2 ELSE vqueue[k]
        BY <1>0, <2>6
      <3> QED BY <2>5, <3>1 DEF PacketsInv
    <2> QED BY <1>1, <2>2, <2>6
  <1>3. ASSUME NEW r \in Rails, MRAILI_Waiting_msg(r) PROVE PacketsInv'
    <2> DEFINE b == vqueue[r]  b2 == Tail(b)
    <2>1. b \in Seq(Buffers) /\ b # << >> /\ Len(b) \in Nat /\ vqueue' = [vqueue EXCEPT ![r] = b2]
      BY <1>0, <1>3 DEF MRAILI_Waiting_msg
    <2>2. Len(b2) = Len(b) - 1 /\ \A i \in 1 .. Len(b2) : b2[i] = b[i + 1]
      BY <2>1, HeadTailProperties
    <2> HIDE DEF b2
    <2>3. \A i \in 1 .. Len(b2) : i + 1 \in 1 .. Len(b)
      BY <2>1, <2>2
    <2>4. \A i \in 1 .. Len(b2) : b2[i].kind # "data"
      BY <2>2, <2>3 DEF PacketsInv
    <2>5. \A k \in Rails : vqueue'[k] = IF k = r THEN b2 ELSE vqueue[k]
      BY <1>0, <2>1
    <2> QED BY <2>4, <2>5 DEF PacketsInv
  <1>4. ASSUME NEW r \in Rails, EagerNew(r) \/ MRAILI_Process_send(r) \/ DataWritten(r)
        PROVE  UNCHANGED vqueue
    BY <1>4 DEF EagerNew, MRAILI_Process_send, DataWritten, recvVars
  <1>5. ASSUME EagerAppend \/ \E S \in {{r} : r \in Rails} \cup {Rails} : Rendezvous_rput_push(S)
        PROVE  UNCHANGED vqueue
    BY <1>5 DEF EagerAppend, Rendezvous_rput_push, recvVars
  <1> QED BY <1>1, <1>2, <1>3, <1>4, <1>5 DEF Next

LEMMA DataInvInit == Init => DataInv /\ PacketsInv
  <1> SUFFICES ASSUME Init PROVE DataInv /\ PacketsInv
    OBVIOUS
  <1> DEFINE q0 == [ext |-> << >>, posted |-> << >>, wire |-> << >>]
  <1>1. /\ q0 \in RailQueues /\ q0.ext = << >> /\ q0.posted = << >> /\ q0.wire = << >>
    BY DEF RailQueues
  <1>2. rail = [r \in Rails |-> q0]
    BY DEF Init
  <1> HIDE DEF q0
  <1>3. Len(All(q0)) = 0
    <2>1. Len(All(q0)) = Len(q0.posted) + Len(q0.ext)
      BY <1>1, AllProperties
    <2> QED BY <1>1, <2>1
  <1>4. Posts(q0)
    BY <1>1, SizesAssumption DEF Posts
  <1>5. \A N : Below(All(q0), N) /\ Below(<< >>, N)
    BY <1>3 DEF Below, Clear
  <1>6. Types
    BY <1>1, <1>2, RailsInNat DEF Init, Types, NoRail
  <1>7. QueuesInv
    BY <1>2, <1>4 DEF Init, QueuesInv
  <1>8. FreshInv
    BY <1>2, <1>5 DEF Init, FreshInv
  <1>9. StripesInv /\ PacketsInv
    BY DEF Init, StripesInv, PacketsInv
  <1> QED BY <1>6, <1>7, <1>8, <1>9 DEF DataInv

LEMMA DataInvNext ==
    ASSUME DataInv, PacketsInv, [Next]_vars
    PROVE  DataInv' /\ PacketsInv'
  <1>1. CASE Next
    <2>1. ASSUME EagerAppend PROVE DataInv'
      BY <2>1, EagerAppendKeeps
    <2>2. ASSUME NEW r \in Rails, EagerNew(r) PROVE DataInv'
      BY <2>2, EagerNewKeeps
    <2>3. ASSUME NEW r \in Rails, MRAILI_Process_send(r) PROVE DataInv'
      BY <2>3, ProcessSendKeeps
    <2>4. ASSUME NEW r \in Rails, DataWritten(r) PROVE DataInv'
      BY <2>4, DataWrittenKeeps
    <2>5. ASSUME NEW r \in Rails, MRAILI_Cq_poll(r) PROVE DataInv'
      BY <2>5, CqPollKeeps
    <2>6. ASSUME NEW r \in Rails, MRAILI_Waiting_msg(r) PROVE DataInv'
      <3>1. vqueue[r] \in Seq(Buffers) /\ vqueue[r] # << >>
        BY <2>6 DEF DataInv, Types, MRAILI_Waiting_msg
      <3>2. 1 \in 1 .. Len(vqueue[r]) /\ Head(vqueue[r]) = vqueue[r][1]
        BY <3>1
      <3>3. Head(vqueue[r]).kind # "data"
        BY <3>2 DEF PacketsInv
      <3> QED BY <2>6, <3>3, WaitingMsgKeeps
    <2>7. ASSUME NEW S \in {{r} : r \in Rails} \cup {Rails}, Rendezvous_rput_push(S)
          PROVE  DataInv'
      BY <2>7, RendezvousKeeps
    <2>8. DataInv'
      BY <1>1, <2>1, <2>2, <2>3, <2>4, <2>5, <2>6, <2>7 DEF Next
    <2> QED BY <1>1, <2>8, PacketsKeeps
  <1>2. CASE UNCHANGED vars
    <2> USE <1>2 DEF vars, sendVars, recvVars
    <2>1. Types' /\ QueuesInv' /\ FreshInv'
      BY DEF DataInv, Types, QueuesInv, FreshInv
    <2>2. StripesInv' /\ PacketsInv'
      BY DEF DataInv, StripesInv, PacketsInv, Behind
    <2> QED BY <2>1, <2>2 DEF DataInv
  <1> QED BY <1>1, <1>2

\* What has not been written has a FINISH that was neither handled nor completed.
LEMMA DataInvFinish == DataInv => DataBeforeFinish
  <1> SUFFICES ASSUME DataInv, NEW n \in Numbers, NEW r \in Rails, <<n, r>> \in stripes,
                      <<n, r>> \notin written
               PROVE  /\ ~ \A k \in Rails : \E i \in DOMAIN handled : handled[i] = n + k
                      /\ ~ {n + k : k \in Rails} \subseteq finished
    BY DEF DataBeforeFinish
  <1>1. Behind(n, r, n + r)
    BY SizesAssumption DEF DataInv, StripesInv, Numbers
  <1>2. DOMAIN handled = 1 .. Len(handled)
    BY DEF DataInv, Types
  <1> QED BY <1>1, <1>2 DEF Behind

\* The invariant holds of every run, with coalescing and without.
LEMMA DataInvariant == Spec => [](DataInv /\ PacketsInv)
  BY DataInvInit, DataInvNext, PTL DEF Spec

\* Wherever the data of a rendezvous went, and whatever waited for work requests in between, it
\* is written when the receiver has handled, or the sender has seen complete, the FINISH packets.
THEOREM DataWrittenFirst == Spec => []DataBeforeFinish
  BY DataInvFinish, DataInvariant, PTL
-----------------------------------------------------------------------------
(* The numbers that are on their way over one rail. *)

\* A buffer takes number a; some buffer of s does.
Counts(v, a) == v.kind # "data" /\ v.num = a
Has(s, a) == \E i \in 1 .. Len(s) : Counts(s[i], a)

\* All of s is before all of t.
Before(s, t) == \A a, b \in Int : Has(s, a) /\ Has(t, b) => a < b

\* The numbers of s rise, and each buffer carries the one message of its number.
Rises(s) ==
    \A i, j \in 1 .. Len(s) :
        i < j /\ s[i].kind # "data" /\ s[j].kind # "data" => s[i].num < s[j].num
Single(v) == v.kind # "data" => v.msgs = <<v.num>>
Flows(s) == Rises(s) /\ \A i \in 1 .. Len(s) : Single(s[i])

LEMMA ConcatParts ==
    ASSUME NEW s \in Seq(Buffers), NEW t \in Seq(Buffers)
    PROVE  /\ s \o t \in Seq(Buffers)
           /\ Len(s \o t) = Len(s) + Len(t) /\ Len(s) \in Nat /\ Len(t) \in Nat
           /\ \A i \in 1 .. Len(s) : i \in 1 .. Len(s \o t) /\ (s \o t)[i] = s[i]
           /\ \A i \in 1 .. Len(t) :
                 Len(s) + i \in 1 .. Len(s \o t) /\ (s \o t)[Len(s) + i] = t[i]
           /\ \A i \in 1 .. Len(s \o t) :
                 \/ i \in 1 .. Len(s) /\ (s \o t)[i] = s[i]
                 \/ \E j \in 1 .. Len(t) : i = Len(s) + j /\ (s \o t)[i] = t[j]
  <1> DEFINE c == s \o t  l == Len(s)  k == Len(t)
  <1>1. l \in Nat /\ k \in Nat
    OBVIOUS
  <1>2. /\ c \in Seq(Buffers) /\ Len(c) = l + k
        /\ \A i \in 1 .. l + k : c[i] = IF i <= l THEN s[i] ELSE t[i - l]
    BY ConcatProperties
  <1> HIDE DEF c, l, k
  <1>3. ASSUME NEW i \in 1 .. l PROVE i \in 1 .. Len(c) /\ c[i] = s[i]
    BY <1>1, <1>2
  <1>4. ASSUME NEW i \in 1 .. k PROVE l + i \in 1 .. Len(c) /\ c[l + i] = t[i]
    <2>1. l + i \in 1 .. l + k /\ ~(l + i <= l) /\ (l + i) - l = i
      BY <1>1
    <2> QED BY <2>1, <1>2
  <1>5. ASSUME NEW i \in 1 .. Len(c)
        PROVE  \/ i \in 1 .. l /\ c[i] = s[i]
               \/ \E j \in 1 .. k : i = l + j /\ c[i] = t[j]
    <2>1. CASE i <= l
      BY <2>1, <1>1, <1>2
    <2>2. CASE ~(i <= l)
      <3>1. i - l \in 1 .. k /\ i = l + (i - l)
        BY <2>2, <1>1, <1>2
      <3>2. c[i] = t[i - l]
        BY <2>2, <1>2
      <3> QED BY <3>1, <3>2
    <2> QED BY <2>1, <2>2
  <1> QED BY <1>1, <1>2, <1>3, <1>4, <1>5 DEF c, l, k

LEMMA HasConcat ==
    ASSUME NEW s \in Seq(Buffers), NEW t \in Seq(Buffers)
    PROVE  \A a : Has(s \o t, a) <=> Has(s, a) \/ Has(t, a)
  <1>1. ASSUME NEW a, Has(s, a) PROVE Has(s \o t, a)
    BY <1>1, ConcatParts DEF Has
  <1>2. ASSUME NEW a, Has(t, a) PROVE Has(s \o t, a)
    BY <1>2, ConcatParts DEF Has
  <1>3. ASSUME NEW a, Has(s \o t, a) PROVE Has(s, a) \/ Has(t, a)
    BY <1>3, ConcatParts DEF Has
  <1> QED BY <1>1, <1>2, <1>3

LEMMA FlowsConcat ==
    ASSUME NEW s \in Seq(Buffers), NEW t \in Seq(Buffers)
    PROVE  Flows(s \o t) <=> Flows(s) /\ Flows(t) /\ Before(s, t)
  <1> DEFINE c == s \o t  l == Len(s)  k == Len(t)
  <1>1. /\ Len(c) = l + k /\ l \in Nat /\ k \in Nat
        /\ \A i \in 1 .. l : i \in 1 .. Len(c) /\ c[i] = s[i]
        /\ \A i \in 1 .. k : l + i \in 1 .. Len(c) /\ c[l + i] = t[i]
        /\ \A i \in 1 .. Len(c) :
              \/ i \in 1 .. l /\ c[i] = s[i]
              \/ \E j \in 1 .. k : i = l + j /\ c[i] = t[j]
    BY ConcatParts
  <1>2. \A i \in 1 .. l : s[i].num \in Int
    <2>1. \A i \in 1 .. Len(s) : s[i] \in Buffers
      OBVIOUS
    <2> QED BY <2>1 DEF Buffers
  <1>3. \A i \in 1 .. k : t[i].num \in Int
    <2>1. \A i \in 1 .. Len(t) : t[i] \in Buffers
      OBVIOUS
    <2> QED BY <2>1 DEF Buffers
  <1>4. Before(s, t) <=> \A i \in 1 .. l, j \in 1 .. k :
            s[i].kind # "data" /\ t[j].kind # "data" => s[i].num < t[j].num
    BY <1>2, <1>3 DEF Before, Has, Counts
  <1> HIDE DEF c, l, k
  <1>5. (\A i \in 1 .. Len(c) : Single(c[i])) <=>
            (\A i \in 1 .. l : Single(s[i])) /\ (\A i \in 1 .. k : Single(t[i]))
    BY <1>1
  <1>6. ASSUME Rises(c) PROVE Rises(s) /\ Rises(t) /\ Before(s, t)
    <2>0. \A i, j \in 1 .. Len(c) :
              i < j /\ c[i].kind # "data" /\ c[j].kind # "data" => c[i].num < c[j].num
      BY <1>6 DEF Rises
    <2>1. Rises(s)
      <3>1. SUFFICES ASSUME NEW i \in 1 .. l, NEW j \in 1 .. l, i < j,
                            s[i].kind # "data", s[j].kind # "data"
                     PROVE  s[i].num < s[j].num
        BY DEF Rises, l
      <3> QED BY <2>0, <3>1, <1>1
    <2>2. Rises(t)
      <3>1. SUFFICES ASSUME NEW i \in 1 .. k, NEW j \in 1 .. k, i < j,
                            t[i].kind # "data", t[j].kind # "data"
                     PROVE  t[i].num < t[j].num
        BY DEF Rises, k
      <3>2. /\ l + i \in 1 .. Len(c) /\ c[l + i] = t[i]
            /\ l + j \in 1 .. Len(c) /\ c[l + j] = t[j]
            /\ l + i < l + j
        BY <3>1, <1>1
      <3>3. c[l + i].num < c[l + j].num
        BY <2>0, <3>1, <3>2
      <3> QED BY <3>2, <3>3
    <2>3. Before(s, t)
      <3>1. SUFFICES ASSUME NEW i \in 1 .. l, NEW j \in 1 .. k,
                            s[i].kind # "data", t[j].kind # "data"
                     PROVE  s[i].num < t[j].num
        BY <1>4
      <3>2. /\ i \in 1 .. Len(c) /\ c[i] = s[i]
            /\ l + j \in 1 .. Len(c) /\ c[l + j] = t[j]
            /\ i < l + j
        BY <3>1, <1>1
      <3>3. c[i].num < c[l + j].num
        BY <2>0, <3>1, <3>2
      <3> QED BY <3>2, <3>3
    <2> QED BY <2>1, <2>2, <2>3
  <1>7. ASSUME Rises(s), Rises(t), Before(s, t) PROVE Rises(c)
    <2>1. SUFFICES ASSUME NEW i \in 1 .. Len(c), NEW j \in 1 .. Len(c), i < j,
                          c[i].kind # "data", c[j].kind # "data"
                   PROVE  c[i].num < c[j].num
      BY DEF Rises
    <2>2. CASE i \in 1 .. l /\ c[i] = s[i]
      <3>1. CASE j \in 1 .. l /\ c[j] = s[j]
        BY <2>1, <2>2, <3>1, <1>7 DEF Rises, l
      <3>2. ASSUME NEW h \in 1 .. k, j = l + h, c[j] = t[h] PROVE c[i].num < c[j].num
        BY <2>1, <2>2, <3>2, <1>4, <1>7
      <3> QED BY <3>1, <3>2, <1>1
    <2>3. ASSUME NEW g \in 1 .. k, i = l + g, c[i] = t[g] PROVE c[i].num < c[j].num
      <3>1. ~(j \in 1 .. l)
        BY <2>1, <2>3, <1>1
      <3>2. PICK h \in 1 .. k : j = l + h /\ c[j] = t[h]
        BY <3>1, <1>1
      <3>3. g < h
        BY <2>1, <2>3, <3>2, <1>1
      <3> QED BY <2>1, <2>3, <3>2, <3>3, <1>7 DEF Rises, k
    <2> QED BY <2>2, <2>3, <1>1
  <1>8. Rises(c) <=> Rises(s) /\ Rises(t) /\ Before(s, t)
    BY <1>6, <1>7
  <1> QED BY <1>5, <1>8 DEF Flows, c, l, k

LEMMA OneFlows ==
    ASSUME NEW v \in Buffers
    PROVE  /\ <<v>> \in Seq(Buffers)
           /\ \A a : Has(<<v>>, a) <=> Counts(v, a)
           /\ Flows(<<v>>) <=> Single(v)
  <1> DEFINE s == <<v>>
  <1>1. s \in Seq(Buffers) /\ Len(s) = 1 /\ s[1] = v
    OBVIOUS
  <1> HIDE DEF s
  <1>2. \A i \in 1 .. Len(s) : i = 1
    BY <1>1
  <1>3. 1 \in 1 .. Len(s)
    BY <1>1
  <1>4. Rises(s)
    BY <1>2 DEF Rises
  <1>5. \A a : Has(s, a) <=> Counts(v, a)
    BY <1>1, <1>2, <1>3 DEF Has
  <1> QED BY <1>1, <1>2, <1>3, <1>4, <1>5 DEF Flows, s

LEMMA HasInt == ASSUME NEW s \in Seq(Buffers), NEW a, Has(s, a) PROVE a \in Int
  <1>1. \A i \in 1 .. Len(s) : s[i] \in Buffers
    OBVIOUS
  <1> QED BY <1>1 DEF Has, Counts, Buffers

\* A buffer joins those on their way, with these numbers new.
Grown(s, t, New) ==
    /\ t \in Seq(Buffers) /\ Flows(t)
    /\ \A a \in Int : Has(t, a) <=> Has(s, a) \/ a \in New

LEMMA AppendGrows ==
    ASSUME NEW s \in Seq(Buffers), Flows(s), NEW v \in Buffers, Single(v),
           v.kind # "data" => \A a \in Int : Has(s, a) => a < v.num
    PROVE  Grown(s, Append(s, v), IF v.kind = "data" THEN {} ELSE {v.num})
  <1> DEFINE o == <<v>>
  <1>1. o \in Seq(Buffers) /\ Flows(o) /\ \A a : Has(o, a) <=> Counts(v, a)
    BY OneFlows
  <1>2. Append(s, v) = s \o o
    BY AppendIsConcat
  <1> HIDE DEF o
  <1>3. Before(s, o)
    BY <1>1 DEF Before, Counts
  <1>4. s \o o \in Seq(Buffers) /\ Flows(s \o o) /\ \A a : Has(s \o o, a) <=> Has(s, a) \/ Counts(v, a)
    BY <1>1, <1>3, ConcatParts, FlowsConcat, HasConcat
  <1> QED BY <1>2, <1>4 DEF Grown, Counts

\* A buffer leaves those on their way, and its number with it.
LEMMA RemoveShrinks ==
    ASSUME NEW b \in Seq(Buffers), NEW v \in Buffers, NEW c \in Seq(Buffers),
           Flows(b \o (<<v>> \o c))
    PROVE  /\ b \o c \in Seq(Buffers) /\ Flows(b \o c) /\ Single(v)
           /\ \A a : Has(b \o c, a) <=> Has(b \o (<<v>> \o c), a) /\ ~Counts(v, a)
           /\ \A a \in Int : Counts(v, a) => Has(b \o (<<v>> \o c), a)
  <1> DEFINE o == <<v>>
  <1>1. /\ o \in Seq(Buffers) /\ (Flows(o) <=> Single(v))
        /\ \A a : Has(o, a) <=> Counts(v, a)
    BY OneFlows
  <1> HIDE DEF o
  <1> DEFINE d == o \o c
  <1>2. /\ d \in Seq(Buffers) /\ \A a : Has(d, a) <=> Has(o, a) \/ Has(c, a)
        /\ Flows(d) <=> Flows(o) /\ Flows(c) /\ Before(o, c)
    BY <1>1, ConcatParts, FlowsConcat, HasConcat
  <1>3. Flows(b \o d)
    BY DEF o
  <1> HIDE DEF d
  <1>4. /\ Flows(b) /\ Flows(d) /\ Before(b, d)
        /\ \A a : Has(b \o d, a) <=> Has(b, a) \/ Has(d, a)
    BY <1>2, <1>3, FlowsConcat, HasConcat
  <1>5. Before(b, c)
    BY <1>2, <1>4 DEF Before
  <1>6. b \o c \in Seq(Buffers) /\ Flows(b \o c) /\ \A a : Has(b \o c, a) <=> Has(b, a) \/ Has(c, a)
    BY <1>2, <1>4, <1>5, ConcatParts, FlowsConcat, HasConcat
  <1>7. ASSUME NEW a, Counts(v, a) PROVE ~Has(b, a) /\ ~Has(c, a)
    <2>1. a \in Int /\ Has(o, a) /\ Has(d, a)
      BY <1>1, <1>2, <1>7 DEF Counts, Buffers
    <2>2. ~(a < a)
      BY <2>1
    <2> QED BY <2>1, <2>2, <1>2, <1>4 DEF Before
  <1> QED BY <1>1, <1>2, <1>4, <1>6, <1>7 DEF d, o

LEMMA SplitHead ==
    ASSUME NEW s \in Seq(Buffers), s # << >>
    PROVE  s = <<Head(s)>> \o Tail(s)
  <1>1. Len(s) \in Nat /\ Len(s) # 0
    OBVIOUS
  <1>2. 1 \in 1 .. Len(s) /\ Len(s) \in 1 .. Len(s)
    BY <1>1
  <1>3. SubSeq(s, 1, Len(s)) = <<s[1]>> \o SubSeq(s, 2, Len(s))
    <2>1. SubSeq(s, 1, Len(s)) = <<s[1]>> \o SubSeq(s, 1 + 1, Len(s))
      BY <1>2, SubSeqRecursiveFirst
    <2> QED BY <2>1
  <1>4. SubSeq(s, 1, Len(s)) = s /\ Tail(s) = SubSeq(s, 2, Len(s)) /\ Head(s) = s[1]
    BY SubSeqFull, TailIsSubSeq
  <1> QED BY <1>3, <1>4

\* What is on the wire of a rail or waits to be posted, in order.
Way(q) == q.wire \o q.ext

\* What waits in the extended queue waits for a work request.
Full(q) == q.ext # << >> => Len(q.posted) = MaxWqe

LEMMA WayProperties ==
    ASSUME NEW q \in RailQueues
    PROVE  Way(q) \in Seq(Buffers)
  <1>1. q.wire \in Seq(Buffers) /\ q.ext \in Seq(Buffers)
    BY DEF RailQueues
  <1> QED BY <1>1, ConcatProperties DEF Way

LEMMA ConcatAgain ==
    ASSUME NEW s \in Seq(Buffers), NEW t \in Seq(Buffers), NEW u \in Seq(Buffers)
    PROVE  (s \o t) \o u = s \o (t \o u)
  BY ConcatAssociative, SMTT(20)

LEMMA SendWay ==
    ASSUME NEW q \in RailQueues, Posts(q), NEW q2, q2 = MRAILI_Ext_sendq_send(q)
    PROVE  Way(q2) = Way(q) /\ Full(q2)
  <1>1. PICK a \in Seq(Buffers), b \in Seq(Buffers) :
            q.ext = a \o b /\ q2.wire = q.wire \o a /\ q2.ext = b
    BY SendAll
  <1>2. q.wire \in Seq(Buffers)
    BY DEF RailQueues
  <1>3. (q.wire \o a) \o b = q.wire \o (a \o b)
    BY <1>2, ConcatAgain
  <1>4. Full(q2)
    BY SendAll DEF Full
  <1> QED BY <1>1, <1>3, <1>4 DEF Way

\* A buffer that is posted, or waits, is the last, unless one waits that could be posted.
LEMMA PostWay ==
    ASSUME NEW q \in RailQueues, Posts(q), Full(q), NEW v \in Buffers,
           NEW q2, q2 = PostOrEnqueue(q, v)
    PROVE  Way(q2) = Append(Way(q), v) /\ Full(q2)
  <1> DEFINE w == q.wire  e == q.ext
  <1>1. w \in Seq(Buffers) /\ e \in Seq(Buffers) /\ <<v>> \in Seq(Buffers) /\ << >> \in Seq(Buffers)
    BY DEF RailQueues
  <1>2. Full(q2)
    BY PostAll DEF Full
  <1>3. MaxWqe \in Nat /\ Len(q.posted) \in Nat
    BY QueueSizes
  <1>4. CASE Len(q.posted) = MaxWqe
    <2>1. q2 = [q EXCEPT !.ext = Append(e, v)]
      BY <1>3, <1>4 DEF PostOrEnqueue, MRAILI_Ext_sendq_enqueue, Wqes
    <2>2. q2.wire = w /\ q2.ext = Append(e, v)
      BY <2>1 DEF RailQueues
    <2> HIDE DEF w, e
    <2>3. Append(e, v) = e \o <<v>> /\ Append(w \o e, v) = (w \o e) \o <<v>>
      BY <1>1, ConcatParts, AppendIsConcat
    <2>4. (w \o e) \o <<v>> = w \o (e \o <<v>>)
      BY <1>1, ConcatAgain
    <2> QED BY <1>2, <2>2, <2>3, <2>4 DEF Way, w, e
  <1>5. CASE Len(q.posted) # MaxWqe
    <2>1. q2 = [q EXCEPT !.posted = Append(q.posted, v), !.wire = Append(w, v)]
      BY <1>3, <1>5 DEF PostOrEnqueue, PostNow, Wqes
    <2>2. q2.wire = Append(w, v) /\ q2.ext = e
      BY <2>1 DEF RailQueues
    <2>3. e = << >>
      BY <1>5 DEF Full
    <2> HIDE DEF w, e
    <2>4. Append(w, v) \in Seq(Buffers)
      BY <1>1, AppendProperties
    <2>5. Append(w, v) \o << >> = Append(w, v) /\ w \o << >> = w
      BY <1>1, <2>4, ConcatEmptySeq
    <2> QED BY <1>2, <2>2, <2>3, <2>5 DEF Way, w, e
  <1> QED BY <1>4, <1>5

LEMMA ArriveWay ==
    ASSUME NEW q \in RailQueues, q.wire # << >>, NEW q2, q2 = [q EXCEPT !.wire = Tail(@)]
    PROVE  /\ Head(q.wire) \in Buffers
           /\ Way(q) = <<Head(q.wire)>> \o Way(q2)
           /\ Full(q) => Full(q2)
           /\ q2 \in RailQueues
  <1> DEFINE w == q.wire  e == q.ext  v == Head(w)  w2 == Tail(w)
  <1>1. w \in Seq(Buffers) /\ e \in Seq(Buffers) /\ w # << >>
    BY DEF RailQueues
  <1>2. v \in Buffers /\ w2 \in Seq(Buffers)
    BY <1>1, HeadTailProperties
  <1>3. q2.wire = w2 /\ q2.ext = e /\ q2.posted = q.posted
    BY DEF RailQueues
  <1>4. w = <<v>> \o w2
    BY <1>1, SplitHead
  <1>8. q2 \in RailQueues
    BY <1>2 DEF RailQueues
  <1> HIDE DEF v, w2
  <1>5. <<v>> \in Seq(Buffers)
    BY <1>2
  <1>6. (<<v>> \o w2) \o e = <<v>> \o (w2 \o e)
    BY <1>1, <1>2, <1>5, ConcatAgain
  <1>7. Way(q) = <<v>> \o Way(q2)
    BY <1>3, <1>4, <1>6 DEF Way
  <1> QED BY <1>2, <1>3, <1>7, <1>8 DEF Full, v
-----------------------------------------------------------------------------
(* Without coalescing messages are handed up in order, and none is left behind. *)

\* What is on its way over rail r and not handled, in order.
Stream(r) == vqueue[r] \o Way(rail[r])
Streams == [r \in Rails |-> Stream(r)]

\* The numbers from lo on, below hi, are on their way, each on one rail, rising on each.
Spread(st, lo, hi) ==
    /\ lo <= hi
    /\ \A r \in Rails : st[r] \in Seq(Buffers) /\ Flows(st[r])
    /\ \A r \in Rails : \A a \in Int : Has(st[r], a) => lo <= a /\ a < hi
    /\ \A a \in Int : lo <= a /\ a < hi => \E r \in Rails : Has(st[r], a)
    /\ \A r, k \in Rails : \A a \in Int : Has(st[r], a) /\ Has(st[k], a) => r = k

\* The channel's numbers are CH3's, and what was handed up has the numbers below the next.
NumbersInv ==
    /\ coalescing = NoRail /\ nextToSend = ch3Next
    /\ nextToRecv = Len(handled) /\ \A i \in 1 .. Len(handled) : handled[i] = i - 1

FullInv == \A r \in Rails : Full(rail[r])

OrderInv ==
    ~useCoalesce => NumbersInv /\ FullInv /\ Spread(Streams, nextToRecv, nextToSend)

\* New numbers, each on one rail.
LEMMA SpreadGrows ==
    ASSUME NEW st, NEW st2, NEW lo \in Int, NEW hi \in Int, NEW hi2 \in Int, NEW New,
           Spread(st, lo, hi), hi <= hi2,
           \A r \in Rails : Grown(st[r], st2[r], New[r]),
           \A r \in Rails : \A a \in New[r] : hi <= a /\ a < hi2,
           \A a \in Int : hi <= a /\ a < hi2 => \E r \in Rails : a \in New[r],
           \A r, k \in Rails : \A a \in Int : a \in New[r] /\ a \in New[k] => r = k
    PROVE  Spread(st2, lo, hi2)
  <1>1. \A r \in Rails : st2[r] \in Seq(Buffers) /\ Flows(st2[r])
    BY DEF Grown
  <1>2. \A r \in Rails : \A a \in Int : Has(st2[r], a) <=> Has(st[r], a) \/ a \in New[r]
    BY DEF Grown
  <1>3. lo <= hi2
    BY DEF Spread
  <1>4. ASSUME NEW r \in Rails, NEW a \in Int, Has(st2[r], a) PROVE lo <= a /\ a < hi2
    <2>1. CASE Has(st[r], a)
      <3>1. lo <= a /\ a < hi
        BY <2>1 DEF Spread
      <3> QED BY <3>1
    <2>2. CASE a \in New[r]
      <3>1. hi <= a /\ a < hi2 /\ lo <= hi
        BY <2>2 DEF Spread
      <3> QED BY <3>1
    <2> QED BY <1>2, <1>4, <2>1, <2>2
  <1>5. ASSUME NEW a \in Int, lo <= a, a < hi2 PROVE \E r \in Rails : Has(st2[r], a)
    <2>1. a < hi \/ hi <= a
      OBVIOUS
    <2>2. CASE a < hi
      BY <1>2, <1>5, <2>2 DEF Spread
    <2>3. CASE hi <= a
      BY <1>2, <1>5, <2>3
    <2> QED BY <2>1, <2>2, <2>3
  <1>6. ASSUME NEW r \in Rails, NEW k \in Rails, NEW a \in Int, Has(st2[r], a), Has(st2[k], a)
        PROVE  r = k
    <2>1. CASE a \in New[r]
      <3>1. ~Has(st[k], a)
        BY <2>1 DEF Spread
      <3> QED BY <1>2, <1>6, <2>1, <3>1
    <2>2. CASE a \notin New[r]
      <3>1. Has(st[r], a) /\ a \notin New[k]
        BY <1>2, <1>6, <2>2 DEF Spread
      <3> QED BY <1>2, <1>6, <3>1 DEF Spread
    <2> QED BY <2>1, <2>2
  <1> QED BY <1>1, <1>3, <1>4, <1>5, <1>6 DEF Spread

\* Buffer v leaves rail r, in its turn or because it takes no number.
Shrunk(st, st2, lo, lo2, r, v) ==
    /\ v \in Buffers /\ st2[r] \in Seq(Buffers) /\ Flows(st2[r])
    /\ \A a : Has(st2[r], a) <=> Has(st[r], a) /\ ~Counts(v, a)
    /\ \A a \in Int : Counts(v, a) => Has(st[r], a)
    /\ \A k \in Rails : k # r => st2[k] = st[k]
    /\ \/ v.kind = "data" /\ lo2 = lo
       \/ v.kind # "data" /\ v.num = lo /\ lo2 = lo + 1

LEMMA SpreadShrinks ==
    ASSUME NEW st, NEW st2, NEW lo \in Int, NEW lo2 \in Int, NEW hi \in Int,
           NEW r \in Rails, NEW v, Spread(st, lo, hi), Shrunk(st, st2, lo, lo2, r, v)
    PROVE  Spread(st2, lo2, hi)
  <1>0. /\ v \in Buffers /\ st2[r] \in Seq(Buffers) /\ Flows(st2[r])
        /\ \A a : Has(st2[r], a) <=> Has(st[r], a) /\ ~Counts(v, a)
        /\ \A a \in Int : Counts(v, a) => Has(st[r], a)
        /\ \A k \in Rails : k # r => st2[k] = st[k]
        /\ \/ v.kind = "data" /\ lo2 = lo
           \/ v.kind # "data" /\ v.num = lo /\ lo2 = lo + 1
    BY DEF Shrunk
  <1>1. \A k \in Rails : st2[k] \in Seq(Buffers) /\ Flows(st2[k])
    BY <1>0 DEF Spread
  <1>2. CASE v.kind = "data" /\ lo2 = lo
    <2>1. \A a : ~Counts(v, a)
      BY <1>2 DEF Counts
    <2>2. \A k \in Rails : \A a : Has(st2[k], a) <=> Has(st[k], a)
      BY <1>0, <2>1
    <2> QED BY <1>1, <1>2, <2>2 DEF Spread
  <1>3. CASE v.kind # "data" /\ v.num = lo /\ lo2 = lo + 1
    <2>1. \A a : Counts(v, a) <=> a = lo
      BY <1>3 DEF Counts
    <2>2. Has(st[r], lo) /\ lo < hi
      BY <1>0, <2>1 DEF Spread
    <2>3. \A k \in Rails : \A a \in Int : Has(st2[k], a) <=> Has(st[k], a) /\ a # lo
      <3>1. TAKE k \in Rails
      <3>2. CASE k = r
        BY <1>0, <2>1, <3>2
      <3>3. CASE k # r
        <4>1. ~Has(st[k], lo)
          BY <2>2, <3>3 DEF Spread
        <4> QED BY <1>0, <3>3, <4>1
      <3> QED BY <3>2, <3>3
    <2>4. lo2 <= hi
      BY <1>3, <2>2
    <2>5. \A k \in Rails : \A a \in Int : Has(st2[k], a) => lo2 <= a /\ a < hi
      BY <1>3, <2>3 DEF Spread
    <2>6. \A a \in Int : lo2 <= a /\ a < hi => \E k \in Rails : Has(st2[k], a)
      BY <1>3, <2>3 DEF Spread
    <2>7. \A j, k \in Rails : \A a \in Int : Has(st2[j], a) /\ Has(st2[k], a) => j = k
      BY <2>3 DEF Spread
    <2> QED BY <1>1, <2>4, <2>5, <2>6, <2>7 DEF Spread
  <1> QED BY <1>0, <1>2, <1>3

\* A buffer that is sent on a rail grows what is on its way there.
LEMMA StreamGrows ==
    ASSUME NEW b \in Seq(Buffers), NEW q \in RailQueues, Posts(q), Full(q), Flows(b \o Way(q)),
           NEW v \in Buffers, Single(v),
           v.kind # "data" => \A a \in Int : Has(b \o Way(q), a) => a < v.num,
           NEW q2, q2 = PostOrEnqueue(q, v)
    PROVE  /\ q2 \in RailQueues /\ Posts(q2) /\ Full(q2)
           /\ Grown(b \o Way(q), b \o Way(q2), IF v.kind = "data" THEN {} ELSE {v.num})
  <1> DEFINE w == Way(q)  s == b \o w
  <1>1. q2 \in RailQueues /\ Posts(q2)
    BY PostAll
  <1>2. Way(q2) = Append(w, v) /\ Full(q2)
    BY PostWay
  <1>3. w \in Seq(Buffers)
    BY WayProperties
  <1> HIDE DEF w
  <1>4. s \in Seq(Buffers) /\ <<v>> \in Seq(Buffers)
    BY <1>3, ConcatParts
  <1>5. Grown(s, Append(s, v), IF v.kind = "data" THEN {} ELSE {v.num})
    <2>1. Flows(s) /\ (v.kind # "data" => \A a \in Int : Has(s, a) => a < v.num)
      BY DEF w
    <2> HIDE DEF s
    <2> QED BY <1>4, <2>1, AppendGrows
  <1>6. Append(s, v) = b \o Append(w, v)
    <2>1. Append(w, v) = w \o <<v>>
      BY <1>3, AppendIsConcat
    <2>2. (b \o w) \o <<v>> = b \o (w \o <<v>>)
      BY <1>3, <1>4, ConcatAgain
    <2>3. Append(s, v) = s \o <<v>>
      <3> HIDE DEF s
      <3> QED BY <1>4, AppendIsConcat
    <2> QED BY <2>1, <2>2, <2>3
  <1> QED BY <1>1, <1>2, <1>5, <1>6 DEF w

LEMMA StreamTypes ==
    ASSUME Types, NEW r \in Rails
    PROVE  /\ vqueue[r] \in Seq(Buffers) /\ rail[r] \in RailQueues
           /\ Way(rail[r]) \in Seq(Buffers) /\ Stream(r) \in Seq(Buffers)
  <1>1. vqueue[r] \in Seq(Buffers) /\ rail[r] \in RailQueues
    BY DEF Types
  <1>2. Way(rail[r]) \in Seq(Buffers)
    BY <1>1, WayProperties
  <1> QED BY <1>1, <1>2, ConcatParts DEF Stream

\* A message gets the next number, on some rail.
LEMMA EagerNewOrder ==
    ASSUME DataInv, OrderInv, ~useCoalesce, useCoalesce' = useCoalesce,
           NEW r \in Rails, EagerNew(r)
    PROVE  OrderInv'
  <1>0. /\ Types /\ QueuesInv /\ NumbersInv /\ FullInv
        /\ Spread(Streams, nextToRecv, nextToSend)
    BY DEF DataInv, OrderInv
  <1>n. PICK n \in Nat : n = ch3Next
    BY <1>0 DEF Types
  <1> DEFINE v == [kind |-> "eager", num |-> n, msgs |-> <<n>>]
             q2 == PostOrEnqueue(rail[r], v)
  <1>1. /\ v \in Buffers /\ v.kind # "data" /\ Single(v) /\ v.num = n
    BY DEF Buffers, Single
  <1>2. nextToSend = n /\ coalescing = NoRail /\ nextToSend \in Int
    BY <1>0, <1>n DEF NumbersInv
  <1>3. Flushed = rail
    <2>1. \A k \in Rails : FLUSH_RAIL(rail[k], k) = rail[k]
      BY <1>2 DEF FLUSH_RAIL, Rails, NoRail
    <2>2. Flushed = [k \in Rails |-> rail[k]]
      BY <2>1 DEF Flushed
    <2> QED BY <1>0, <2>2 DEF Types
  <1>4. /\ rail' = [rail EXCEPT ![r] = q2]
        /\ coalescing' = NoRail /\ nextToSend' = n + 1 /\ ch3Next' = n + 1
        /\ UNCHANGED recvVars
    BY <1>2, <1>3, <1>n DEF EagerNew, MRAILI_Coalesce_ok
  <1>5. /\ vqueue[r] \in Seq(Buffers) /\ rail[r] \in RailQueues /\ Posts(rail[r])
        /\ Full(rail[r]) /\ Flows(vqueue[r] \o Way(rail[r]))
        /\ \A a \in Int : Has(vqueue[r] \o Way(rail[r]), a) => a < n
    BY <1>0, <1>2 DEF Types, QueuesInv, FullInv, Spread, Streams, Stream
  <1> HIDE DEF v
  <1>6. /\ q2 \in RailQueues /\ Full(q2)
        /\ Grown(vqueue[r] \o Way(rail[r]), vqueue[r] \o Way(q2), {n})
    BY <1>1, <1>5, StreamGrows
  <1> HIDE DEF q2
  <1>7. \A k \in Rails : rail'[k] = IF k = r THEN q2 ELSE rail[k]
    BY <1>0, <1>4 DEF Types
  <1>8. FullInv'
    BY <1>0, <1>6, <1>7 DEF FullInv
  <1>9. NumbersInv'
    BY <1>0, <1>4 DEF NumbersInv, recvVars, NoRail
  <1> DEFINE New == [k \in Rails |-> IF k = r THEN {n} ELSE {}]  st2 == Streams'
  <1>10. \A k \in Rails : Grown(Streams[k], st2[k], New[k])
    <2>1. TAKE k \in Rails
    <2>2. st2[k] = vqueue[k] \o Way(rail'[k]) /\ Streams[k] = vqueue[k] \o Way(rail[k])
      BY <1>4 DEF Streams, Stream, recvVars
    <2>3. CASE k = r
      BY <1>6, <1>7, <2>2, <2>3
    <2>4. CASE k # r
      BY <1>0, <1>7, <2>2, <2>4 DEF Spread, Grown
    <2> QED BY <2>3, <2>4
  <1> HIDE DEF st2
  <1>11. Spread(st2, nextToRecv, n + 1)
    <2>1. /\ nextToRecv \in Int /\ n \in Int /\ n + 1 \in Int /\ n <= n + 1
          /\ Spread(Streams, nextToRecv, n)
      BY <1>0, <1>2 DEF Types
    <2>2. \A a \in Int : n <= a /\ a < n + 1 => a = n
      OBVIOUS
    <2>3. /\ \A k \in Rails : \A a \in New[k] : n <= a /\ a < n + 1
          /\ \A a \in Int : n <= a /\ a < n + 1 => \E k \in Rails : a \in New[k]
          /\ \A j, k \in Rails : \A a \in Int : a \in New[j] /\ a \in New[k] => j = k
      BY <2>2
    <2> HIDE DEF New
    <2> QED BY <1>10, <2>1, <2>3, SpreadGrows
  <1>12. Spread(Streams, nextToRecv, nextToSend)'
    BY <1>4, <1>11 DEF st2, recvVars
  <1> QED BY <1>8, <1>9, <1>12 DEF OrderInv

\* A FINISH gets a number on each rail, the data none.
LEMMA RendezvousOrder ==
    ASSUME DataInv, OrderInv, ~useCoalesce, useCoalesce' = useCoalesce,
           NEW S \in {{r} : r \in Rails} \cup {Rails}, Rendezvous_rput_push(S)
    PROVE  OrderInv'
  <1>0. /\ Types /\ QueuesInv /\ NumbersInv /\ FullInv
        /\ Spread(Streams, nextToRecv, nextToSend)
    BY DEF DataInv, OrderInv
  <1>n. PICK n \in Nat : n = ch3Next
    BY <1>0 DEF Types
  <1>1. nextToSend = n /\ coalescing = NoRail /\ nextToSend \in Int
    BY <1>0, <1>n DEF NumbersInv
  <1> DEFINE Put(r) == PutAndFinish(r, rail[r], n, S)
  <1>2. /\ rail' = [r \in Rails |-> Put(r)]
        /\ coalescing' = NoRail /\ nextToSend' = n + NumRails /\ ch3Next' = n + NumRails
        /\ UNCHANGED recvVars
    BY <1>1, <1>n DEF Rendezvous_rput_push
  <1>3. ASSUME NEW r \in Rails
        PROVE  /\ Put(r) \in RailQueues /\ Full(Put(r))
               /\ Grown(vqueue[r] \o Way(rail[r]), vqueue[r] \o Way(Put(r)), {n + r})
    <2> DEFINE v == [kind |-> "data", num |-> n, msgs |-> <<n>>]
               f == [kind |-> "finish", num |-> n + r, msgs |-> <<n + r>>]
               q == rail[r]  b == vqueue[r]
               q1 == IF r \in S THEN PostOrEnqueue(q, v) ELSE q
               q2 == PostOrEnqueue(q1, f)
    <2>1. r \in Nat /\ r # NoRail
      BY RailsInNat DEF Rails, NoRail
    <2>2. /\ v \in Buffers /\ v.kind = "data" /\ Single(v)
          /\ f \in Buffers /\ f.kind # "data" /\ f.num = n + r /\ Single(f)
      BY <2>1 DEF Buffers, Single
    <2>3. Put(r) = q2
      BY <1>1, <2>1 DEF PutAndFinish, FLUSH_RAIL
    <2>4. /\ b \in Seq(Buffers) /\ q \in RailQueues /\ Posts(q) /\ Full(q)
          /\ b \o Way(q) \in Seq(Buffers) /\ Flows(b \o Way(q))
          /\ \A a \in Int : Has(b \o Way(q), a) => a < n
      BY <1>0, <1>1 DEF Types, QueuesInv, FullInv, Spread, Streams, Stream
    <2> HIDE DEF v, f, Put, q, b
    <2>5. /\ q1 \in RailQueues /\ Posts(q1) /\ Full(q1)
          /\ Grown(b \o Way(q), b \o Way(q1), {})
      <3>1. CASE r \in S
        BY <2>2, <2>4, <3>1, StreamGrows
      <3>2. CASE r \notin S
        BY <2>4, <3>2 DEF Grown
      <3> QED BY <3>1, <3>2
    <2> HIDE DEF q1
    <2>6. /\ Flows(b \o Way(q1)) /\ \A a \in Int : Has(b \o Way(q1), a) <=> Has(b \o Way(q), a)
      BY <2>5 DEF Grown
    <2>7. \A a \in Int : Has(b \o Way(q1), a) => a < n + r
      BY <2>1, <2>4, <2>6
    <2>8. /\ q2 \in RailQueues /\ Full(q2)
          /\ Grown(b \o Way(q1), b \o Way(q2), {n + r})
      <3>1. /\ b \in Seq(Buffers) /\ q1 \in RailQueues /\ Posts(q1) /\ Full(q1)
            /\ Flows(b \o Way(q1)) /\ f \in Buffers /\ Single(f) /\ f.kind # "data" /\ f.num = n + r
            /\ (f.kind # "data" => \A a \in Int : Has(b \o Way(q1), a) => a < f.num)
        BY <2>2, <2>4, <2>5, <2>6, <2>7
      <3> QED BY <3>1, StreamGrows
    <2> HIDE DEF q2
    <2>9. Grown(b \o Way(q), b \o Way(q2), {n + r})
      BY <2>6, <2>8 DEF Grown
    <2> QED BY <2>3, <2>8, <2>9 DEF b, q
  <1> HIDE DEF Put
  <1>4. \A r \in Rails : rail'[r] = Put(r)
    BY <1>2
  <1>5. FullInv'
    BY <1>3, <1>4 DEF FullInv
  <1>6. NumbersInv'
    BY <1>0, <1>2 DEF NumbersInv, recvVars, NoRail
  <1> DEFINE New == [k \in Rails |-> {n + k}]  st2 == Streams'
  <1>7. \A k \in Rails : Grown(Streams[k], st2[k], New[k])
    BY <1>2, <1>3, <1>4 DEF Streams, Stream, recvVars
  <1> HIDE DEF st2
  <1>8. Spread(st2, nextToRecv, n + NumRails)
    <2>1. /\ nextToRecv \in Int /\ n \in Int /\ n + NumRails \in Int /\ n <= n + NumRails
          /\ Spread(Streams, nextToRecv, n)
      BY <1>0, <1>1, RailsInNat DEF Types
    <2>2. \A k \in Rails : k \in Nat /\ k < NumRails
      BY RailsInNat
    <2>3. \A a \in Int : n <= a /\ a < n + NumRails => a - n \in Rails /\ a = n + (a - n)
      BY RailsInNat DEF Rails
    <2>4. /\ \A k \in Rails : \A a \in New[k] : n <= a /\ a < n + NumRails
          /\ \A a \in Int : n <= a /\ a < n + NumRails => \E k \in Rails : a \in New[k]
          /\ \A j, k \in Rails : \A a \in Int : a \in New[j] /\ a \in New[k] => j = k
      BY <2>2, <2>3, RailsInNat
    <2> HIDE DEF New
    <2> QED BY <1>7, <2>1, <2>4, SpreadGrows
  <1>9. Spread(Streams, nextToRecv, nextToSend)'
    BY <1>2, <1>8 DEF st2, recvVars
  <1> QED BY <1>5, <1>6, <1>9 DEF OrderInv

\* A completion moves what waits to the wire.
LEMMA ProcessSendOrder ==
    ASSUME DataInv, OrderInv, ~useCoalesce, useCoalesce' = useCoalesce,
           NEW r \in Rails, MRAILI_Process_send(r)
    PROVE  OrderInv'
  <1>0. /\ Types /\ QueuesInv /\ NumbersInv /\ FullInv
        /\ Spread(Streams, nextToRecv, nextToSend)
    BY DEF DataInv, OrderInv
  <1> DEFINE q == rail[r]  q2 == [q EXCEPT !.posted = Tail(@)]
             q3 == MRAILI_Ext_sendq_send(q2)
             done == [rail EXCEPT ![r].posted = Tail(@)]
             v == Head(q.posted)
             left == IF v.kind = "eager" THEN outstanding - 1 ELSE outstanding
             flushed == IF v.kind = "eager" /\ FlushesAfter(left)
                        THEN [k \in Rails |-> FLUSH_RAIL(done[k], k)] ELSE done
  <1>1. /\ Len(q.posted) > Len(q.wire)
        /\ rail' = [flushed EXCEPT ![r] = MRAILI_Ext_sendq_send(@)]
        /\ coalescing' = StillCoalescing(rail')
        /\ UNCHANGED <<ch3Next, nextToSend, stripes, recvVars>>
    BY DEF MRAILI_Process_send
  <1>2. coalescing = NoRail /\ coalescing' = NoRail
    BY <1>0, <1>1 DEF NumbersInv, StillCoalescing
  <1>3. q \in RailQueues /\ Posts(q)
    BY <1>0 DEF Types, QueuesInv
  <1>4. q2 \in RailQueues /\ Posts(q2) /\ q2.ext = q.ext
    BY <1>1, <1>3, CompleteStep DEF RailStep
  <1>5. q2.wire = q.wire
    BY <1>3 DEF RailQueues
  <1>6. done = [rail EXCEPT ![r] = q2]
    BY <1>0 DEF Types
  <1> HIDE DEF v, left, done, q2
  <1>7. done \in [Rails -> RailQueues]
    BY <1>0, <1>4, <1>6 DEF Types
  <1>8. flushed = done
    <2>1. \A k \in Rails : FLUSH_RAIL(done[k], k) = done[k]
      BY <1>2 DEF FLUSH_RAIL, Rails, NoRail
    <2>2. [k \in Rails |-> FLUSH_RAIL(done[k], k)] = [k \in Rails |-> done[k]]
      BY <2>1
    <2>3. [k \in Rails |-> done[k]] = done
      BY <1>7
    <2> QED BY <2>2, <2>3
  <1> HIDE DEF flushed
  <1>9. \A k \in Rails : rail'[k] = IF k = r THEN q3 ELSE rail[k]
    BY <1>0, <1>1, <1>4, <1>6, <1>7, <1>8 DEF Types
  <1>10. Way(q3) = Way(q) /\ Full(q3)
    BY <1>4, <1>5, SendWay DEF Way
  <1> HIDE DEF q3
  <1>11. FullInv'
    BY <1>0, <1>9, <1>10 DEF FullInv
  <1>12. Streams' = Streams
    <2>1. ASSUME NEW k \in Rails PROVE Stream(k)' = Stream(k)
      <3>1. vqueue' = vqueue /\ Stream(k)' = vqueue'[k] \o Way(rail'[k])
        BY <1>1 DEF Stream, recvVars
      <3>2. Way(rail'[k]) = Way(rail[k])
        BY <1>9, <1>10
      <3> QED BY <3>1, <3>2 DEF Stream
    <2> QED BY <2>1 DEF Streams
  <1>13. NumbersInv'
    BY <1>0, <1>1, <1>2 DEF NumbersInv, recvVars
  <1>14. Spread(Streams, nextToRecv, nextToSend)'
    BY <1>0, <1>1, <1>12 DEF Spread, recvVars
  <1> QED BY <1>11, <1>13, <1>14 DEF OrderInv

\* Buffer v leaves what is on its way over rail r, handled if it has a number.
Leaves(r, v) ==
    /\ FullInv' /\ v \in Buffers /\ Single(v)
    /\ Streams'[r] \in Seq(Buffers) /\ Flows(Streams'[r])
    /\ \A a : Has(Streams'[r], a) <=> Has(Streams[r], a) /\ ~Counts(v, a)
    /\ \A a \in Int : Counts(v, a) => Has(Streams[r], a)
    /\ \A k \in Rails : k # r => Streams'[k] = Streams[k]
LeavesStep(r, v) ==
    /\ UNCHANGED <<ch3Next, nextToSend, coalescing>> /\ Leaves(r, v)
    /\ \/ v.kind = "data" /\ UNCHANGED <<nextToRecv, handled>>
       \/ v.kind # "data" /\ Expected(v) /\ Handle(v)

LEMMA LeavesOrder ==
    ASSUME Types, OrderInv, ~useCoalesce, useCoalesce' = useCoalesce,
           NEW r \in Rails, NEW v, LeavesStep(r, v)
    PROVE  OrderInv'
  <1>0. NumbersInv /\ Spread(Streams, nextToRecv, nextToSend)
    BY DEF OrderInv
  <1>1. NumbersInv'
    <2>1. CASE v.kind = "data" /\ UNCHANGED <<nextToRecv, handled>>
      BY <1>0, <2>1 DEF LeavesStep, NumbersInv
    <2>2. CASE v.kind # "data" /\ Expected(v) /\ Handle(v)
      <3> DEFINE h == handled  l == Len(h)
      <3>1. h \in Seq(Int) /\ l \in Nat /\ v.num = l /\ v.msgs = <<l>>
        BY <1>0, <2>2 DEF Types, NumbersInv, LeavesStep, Leaves, Expected, Single
      <3>2. handled' = h \o <<l>> /\ nextToRecv' = l + 1
        BY <1>0, <2>2, <3>1 DEF Handle, NumbersInv
      <3> HIDE DEF l
      <3>3. handled' = Append(h, l)
        BY <3>1, <3>2, AppendIsConcat
      <3>4. /\ Len(handled') = Len(h) + 1 /\ handled'[Len(h) + 1] = l
            /\ \A i \in 1 .. Len(h) : handled'[i] = h[i]
        BY <3>1, <3>3, AppendProperties
      <3>5. \A i \in 1 .. Len(h) : h[i] = i - 1
        BY <1>0 DEF NumbersInv
      <3>6. ASSUME NEW i \in 1 .. Len(handled') PROVE handled'[i] = i - 1
        <4>1. i \in 1 .. Len(h) \/ i = Len(h) + 1
          BY <3>1, <3>4
        <4>2. Len(h) + 1 - 1 = l
          BY <3>1 DEF l
        <4> QED BY <3>4, <3>5, <4>1, <4>2
      <3>7. nextToRecv' = Len(handled')
        BY <3>2, <3>4 DEF l
      <3> QED BY <1>0, <3>6, <3>7 DEF NumbersInv, LeavesStep
    <2> QED BY <2>1, <2>2 DEF LeavesStep
  <1>2. Spread(Streams, nextToRecv, nextToSend)'
    <2> DEFINE st2 == Streams'  lo == nextToRecv  lo2 == nextToRecv'  hi == nextToSend
    <2>1. lo \in Int /\ hi \in Int /\ nextToSend' = hi /\ Spread(Streams, lo, hi)
      BY <1>0 DEF Types, LeavesStep
    <2>2. \/ v.kind = "data" /\ lo2 = lo
          \/ v.kind # "data" /\ v.num = lo /\ lo2 = lo + 1
      BY DEF LeavesStep, Expected, Handle
    <2>3. lo2 \in Int
      BY <2>1, <2>2
    <2>4. Shrunk(Streams, st2, lo, lo2, r, v)
      BY <2>2 DEF LeavesStep, Leaves, Shrunk
    <2> HIDE DEF st2, lo, lo2, hi
    <2>5. Spread(st2, lo2, hi)
      BY <2>1, <2>3, <2>4, SpreadShrinks
    <2> QED BY <2>1, <2>5 DEF st2, lo, lo2, hi
  <1> QED BY <1>1, <1>2 DEF OrderInv, LeavesStep, Leaves

\* The oldest buffer of rail r's wire arrives.
LEMMA WireLeaves ==
    ASSUME Types, OrderInv, ~useCoalesce, NEW r \in Rails, rail[r].wire # << >>,
           rail' = [rail EXCEPT ![r].wire = Tail(@)], UNCHANGED vqueue
    PROVE  Leaves(r, Head(rail[r].wire))
  <1>0. FullInv /\ Spread(Streams, nextToRecv, nextToSend)
    BY DEF OrderInv
  <1> DEFINE q == rail[r]  q2 == [q EXCEPT !.wire = Tail(@)]  v == Head(q.wire)  b == vqueue[r]
             c == Way(q2)
  <1>1. b \in Seq(Buffers) /\ q \in RailQueues /\ q.wire # << >>
    BY DEF Types
  <1>2. /\ v \in Buffers /\ Way(q) = <<v>> \o c /\ (Full(q) => Full(q2))
        /\ q2 \in RailQueues
    BY <1>1, ArriveWay
  <1>4. c \in Seq(Buffers)
    BY <1>2, WayProperties
  <1>5. \A k \in Rails : rail'[k] = IF k = r THEN q2 ELSE rail[k]
    BY DEF Types
  <1>6. Streams[r] = b \o Way(q) /\ Streams'[r] = b \o c
    BY <1>5 DEF Streams, Stream
  <1>7. \A k \in Rails : k # r => Streams'[k] = Streams[k]
    <2>1. \A k \in Rails : k # r => Stream(k)' = Stream(k)
      BY <1>5 DEF Stream
    <2> QED BY <2>1 DEF Streams
  <1>8. FullInv'
    BY <1>0, <1>2, <1>5 DEF FullInv
  <1>9. Flows(b \o (<<v>> \o c))
    BY <1>0, <1>2, <1>6 DEF Spread
  <1> HIDE DEF v, b, c
  <1>10. /\ b \o c \in Seq(Buffers) /\ Flows(b \o c) /\ Single(v)
         /\ \A a : Has(b \o c, a) <=> Has(b \o (<<v>> \o c), a) /\ ~Counts(v, a)
         /\ \A a \in Int : Counts(v, a) => Has(b \o (<<v>> \o c), a)
    BY <1>1, <1>2, <1>4, <1>9, RemoveShrinks
  <1>11. Streams[r] = b \o (<<v>> \o c)
    BY <1>2, <1>6
  <1>12. Leaves(r, v)
    BY <1>2, <1>6, <1>7, <1>8, <1>10, <1>11 DEF Leaves
  <1> QED BY <1>12 DEF v

LEMMA DataWrittenOrder ==
    ASSUME DataInv, OrderInv, ~useCoalesce, useCoalesce' = useCoalesce,
           NEW r \in Rails, DataWritten(r)
    PROVE  OrderInv'
  <1>1. Types
    BY DEF DataInv
  <1>2. Leaves(r, Head(rail[r].wire))
    BY <1>1, WireLeaves DEF DataWritten
  <1>3. LeavesStep(r, Head(rail[r].wire))
    BY <1>2 DEF LeavesStep, DataWritten
  <1> QED BY <1>1, <1>3, LeavesOrder

\* What comes too early moves from the wire to the queue.
LEMMA QueuedOrder ==
    ASSUME DataInv, OrderInv, ~useCoalesce, useCoalesce' = useCoalesce,
           NEW r \in Rails, rail[r].wire # << >>,
           rail' = [rail EXCEPT ![r].wire = Tail(@)],
           vqueue' = [vqueue EXCEPT ![r] = Append(@, Head(rail[r].wire))],
           UNCHANGED <<ch3Next, nextToSend, coalescing, nextToRecv, handled>>
    PROVE  OrderInv'
  <1>0. Types /\ NumbersInv /\ FullInv /\ Spread(Streams, nextToRecv, nextToSend)
    BY DEF DataInv, OrderInv
  <1> DEFINE q == rail[r]  q2 == [q EXCEPT !.wire = Tail(@)]  v == Head(q.wire)  b == vqueue[r]
             c == Way(q2)
  <1>1. b \in Seq(Buffers) /\ q \in RailQueues /\ q.wire # << >>
    BY <1>0 DEF Types
  <1>2. /\ v \in Buffers /\ Way(q) = <<v>> \o c /\ (Full(q) => Full(q2))
        /\ q2 \in RailQueues
    BY <1>1, ArriveWay
  <1>4. c \in Seq(Buffers)
    BY <1>2, WayProperties
  <1>5. \A k \in Rails : rail'[k] = IF k = r THEN q2 ELSE rail[k]
    BY <1>0 DEF Types
  <1>6. \A k \in Rails : vqueue'[k] = IF k = r THEN Append(b, v) ELSE vqueue[k]
    BY <1>0 DEF Types
  <1>7. Stream(r)' = Append(b, v) \o c /\ Stream(r) = b \o Way(q)
    BY <1>5, <1>6 DEF Stream
  <1>8. FullInv'
    BY <1>0, <1>2, <1>5 DEF FullInv
  <1>9. \A k \in Rails : k # r => Stream(k)' = Stream(k)
    BY <1>5, <1>6 DEF Stream
  <1> HIDE DEF v, b, c
  <1>10. Append(b, v) \o c = b \o (<<v>> \o c)
    <2>1. Append(b, v) = b \o <<v>>
      BY <1>1, <1>2, AppendIsConcat
    <2>2. <<v>> \in Seq(Buffers)
      BY <1>2
    <2>3. (b \o <<v>>) \o c = b \o (<<v>> \o c)
      BY <1>1, <1>4, <2>2, ConcatAgain
    <2> QED BY <2>1, <2>3
  <1>11. \A k \in Rails : Stream(k)' = Stream(k)
    BY <1>2, <1>7, <1>9, <1>10
  <1>12. Streams' = Streams
    BY <1>11 DEF Streams
  <1>13. NumbersInv' /\ Spread(Streams, nextToRecv, nextToSend)'
    BY <1>0, <1>12 DEF NumbersInv, Spread
  <1> QED BY <1>8, <1>13 DEF OrderInv

LEMMA CqPollOrder ==
    ASSUME DataInv, OrderInv, ~useCoalesce, useCoalesce' = useCoalesce,
           NEW r \in Rails, MRAILI_Cq_poll(r)
    PROVE  OrderInv'
  <1> DEFINE v == Head(rail[r].wire)
  <1>0. Types
    BY DEF DataInv
  <1>1. CASE Expected(v) /\ Handle(v) /\ UNCHANGED vqueue
    <2>1. Leaves(r, v)
      BY <1>0, <1>1, WireLeaves DEF MRAILI_Cq_poll
    <2>2. LeavesStep(r, v)
      BY <1>1, <2>1 DEF LeavesStep, MRAILI_Cq_poll
    <2> QED BY <1>0, <2>2, LeavesOrder
  <1>2. CASE /\ vqueue' = [vqueue EXCEPT ![r] = Append(@, v)]
             /\ UNCHANGED <<nextToRecv, handled>>
    BY <1>2, QueuedOrder DEF MRAILI_Cq_poll
  <1> QED BY <1>1, <1>2 DEF MRAILI_Cq_poll

\* The oldest queued buffer of rail r is handled in its turn.
LEMMA WaitingMsgOrder ==
    ASSUME DataInv, PacketsInv, OrderInv, ~useCoalesce, useCoalesce' = useCoalesce,
           NEW r \in Rails, MRAILI_Waiting_msg(r)
    PROVE  OrderInv'
  <1>0. Types /\ FullInv /\ Spread(Streams, nextToRecv, nextToSend)
    BY DEF DataInv, OrderInv
  <1> DEFINE b == vqueue[r]  v == Head(b)  t == Tail(b)  w == Way(rail[r])
  <1>1. /\ b \in Seq(Buffers) /\ b # << >> /\ w \in Seq(Buffers)
        /\ vqueue' = [vqueue EXCEPT ![r] = t] /\ UNCHANGED <<sendVars, finished, written>>
        /\ Expected(v) /\ Handle(v)
    BY <1>0, StreamTypes DEF MRAILI_Waiting_msg
  <1>2. v \in Buffers /\ t \in Seq(Buffers)
    <2> HIDE DEF b
    <2> QED BY <1>1, HeadTailProperties
  <1>3. v.kind # "data"
    <2>1. 1 \in 1 .. Len(b) /\ v = b[1]
      BY <1>1
    <2> QED BY <2>1 DEF PacketsInv
  <1>4. b = <<v>> \o t
    <2> HIDE DEF b
    <2> QED BY <1>1, SplitHead
  <1>5. \A k \in Rails : vqueue'[k] = IF k = r THEN t ELSE vqueue[k]
    BY <1>0, <1>1 DEF Types
  <1>6. rail' = rail
    BY <1>1 DEF sendVars
  <1>7. Streams[r] = b \o w /\ Streams'[r] = t \o w
    BY <1>5, <1>6 DEF Streams, Stream
  <1>8. \A k \in Rails : k # r => Streams'[k] = Streams[k]
    BY <1>5, <1>6 DEF Streams, Stream
  <1>9. Flows(Streams[r])
    BY <1>0 DEF Spread
  <1>10. FullInv'
    BY <1>0, <1>6 DEF FullInv
  <1> HIDE DEF v, t, w, b
  <1> DEFINE c == t \o w  o == << >>
  <1>11. <<v>> \in Seq(Buffers) /\ o \in Seq(Buffers)
    BY <1>2
  <1>12. c \in Seq(Buffers) /\ (<<v>> \o t) \o w = <<v>> \o c
    <2>1. c \in Seq(Buffers)
      BY <1>1, <1>2, ConcatParts
    <2>2. (<<v>> \o t) \o w = <<v>> \o c
      BY <1>1, <1>2, <1>11, ConcatAgain
    <2> QED BY <2>1, <2>2
  <1> HIDE DEF c
  <1>13. <<v>> \o c \in Seq(Buffers) /\ o \o (<<v>> \o c) = <<v>> \o c /\ o \o c = c
    <2>1. <<v>> \o c \in Seq(Buffers)
      BY <1>11, <1>12, ConcatParts
    <2> QED BY <1>12, <2>1, ConcatEmptySeq
  <1>14. Streams[r] = o \o (<<v>> \o c) /\ Streams'[r] = o \o c
    BY <1>4, <1>7, <1>12, <1>13 DEF c
  <1>15. Flows(o \o (<<v>> \o c))
    BY <1>9, <1>14
  <1> HIDE DEF o
  <1>16. /\ o \o c \in Seq(Buffers) /\ Flows(o \o c) /\ Single(v)
         /\ \A a : Has(o \o c, a) <=> Has(o \o (<<v>> \o c), a) /\ ~Counts(v, a)
         /\ \A a \in Int : Counts(v, a) => Has(o \o (<<v>> \o c), a)
    BY <1>2, <1>11, <1>12, <1>15, RemoveShrinks
  <1>17. Leaves(r, v)
    BY <1>2, <1>8, <1>10, <1>14, <1>16 DEF Leaves
  <1>18. LeavesStep(r, v)
    BY <1>1, <1>3, <1>17 DEF LeavesStep, sendVars
  <1> QED BY <1>0, <1>18, LeavesOrder

LEMMA OrderInit == Init => OrderInv
  <1> SUFFICES ASSUME Init PROVE NumbersInv /\ FullInv /\ Spread(Streams, nextToRecv, nextToSend)
    BY DEF OrderInv
  <1>1. /\ nextToRecv = 0 /\ nextToSend = 0 /\ ch3Next = 0 /\ coalescing = NoRail
        /\ handled = << >>
        /\ \A r \in Rails : rail[r] = [ext |-> << >>, posted |-> << >>, wire |-> << >>]
                            /\ vqueue[r] = << >>
    BY DEF Init
  <1>2. NumbersInv /\ FullInv
    BY <1>1 DEF NumbersInv, FullInv, Full
  <1> DEFINE o == << >>
  <1>3. o \in Seq(Buffers) /\ Len(o) = 0 /\ o \o o = o
    BY ConcatEmptySeq
  <1>4. \A r \in Rails : Streams[r] = o
    BY <1>1, <1>3 DEF Streams, Stream, Way
  <1> HIDE DEF o
  <1>5. \A i \in 1 .. Len(o) : FALSE
    BY <1>3
  <1>6. Flows(o) /\ \A a : ~Has(o, a)
    BY <1>5 DEF Flows, Rises, Has
  <1>7. \A a \in Int : ~(0 <= a /\ a < 0)
    OBVIOUS
  <1>8. Spread(Streams, 0, 0)
    <2>1. \A r \in Rails : Streams[r] \in Seq(Buffers) /\ Flows(Streams[r])
      BY <1>3, <1>4, <1>6
    <2>2. \A r \in Rails : \A a \in Int : ~Has(Streams[r], a)
      BY <1>4, <1>6
    <2> HIDE DEF Streams
    <2> QED BY <1>7, <2>1, <2>2 DEF Spread
  <1> QED BY <1>1, <1>2, <1>8

LEMMA OrderNext ==
    ASSUME DataInv, PacketsInv, OrderInv, [Next]_vars
    PROVE  OrderInv'
  <1>0. useCoalesce' = useCoalesce
    BY DEF Next, vars
  <1>1. CASE useCoalesce
    BY <1>0, <1>1 DEF OrderInv
  <1>2. CASE ~useCoalesce /\ Next
    <2>0. ~useCoalesce
      BY <1>2
    <2>1. ASSUME EagerAppend PROVE OrderInv'
      BY <2>0, <2>1 DEF OrderInv, NumbersInv, EagerAppend
    <2>2. ASSUME NEW r \in Rails, EagerNew(r) PROVE OrderInv'
      BY <1>0, <2>0, <2>2, EagerNewOrder
    <2>3. ASSUME NEW r \in Rails, MRAILI_Process_send(r) PROVE OrderInv'
      BY <1>0, <2>0, <2>3, ProcessSendOrder
    <2>4. ASSUME NEW r \in Rails, DataWritten(r) PROVE OrderInv'
      BY <1>0, <2>0, <2>4, DataWrittenOrder
    <2>5. ASSUME NEW r \in Rails, MRAILI_Cq_poll(r) PROVE OrderInv'
      BY <1>0, <2>0, <2>5, CqPollOrder
    <2>6. ASSUME NEW r \in Rails, MRAILI_Waiting_msg(r) PROVE OrderInv'
      BY <1>0, <2>0, <2>6, WaitingMsgOrder
    <2>7. ASSUME NEW S \in {{r} : r \in Rails} \cup {Rails}, Rendezvous_rput_push(S)
          PROVE  OrderInv'
      BY <1>0, <2>0, <2>7, RendezvousOrder
    <2> QED BY <1>2, <2>1, <2>2, <2>3, <2>4, <2>5, <2>6, <2>7 DEF Next
  <1>3. CASE ~useCoalesce /\ UNCHANGED vars
    <2> USE <1>3 DEF vars, sendVars, recvVars
    <2>1. Streams' = Streams
      BY DEF Streams, Stream
    <2>2. NumbersInv' /\ FullInv' /\ Spread(Streams, nextToRecv, nextToSend)'
      BY <2>1 DEF OrderInv, NumbersInv, FullInv, Spread
    <2> QED BY <2>2 DEF OrderInv
  <1> QED BY <1>1, <1>2, <1>3

\* The invariant of the receiver's order.
LEMMA OrderInvariant == Spec => [](DataInv /\ PacketsInv /\ OrderInv)
  BY DataInvInit, DataInvNext, OrderInit, OrderNext, PTL DEF Spec

\* Without coalescing, messages are handed up in the order CH3 sent them, each once, whatever
\* rails they took and whatever waited in the queues of sender and receiver.
THEOREM HandledInOrder == Spec => []InOrder
  <1>1. DataInv /\ OrderInv => InOrder
    <2> SUFFICES ASSUME DataInv, OrderInv, ~useCoalesce PROVE \A i \in DOMAIN handled : handled[i] = i - 1
      BY DEF InOrder
    <2>1. DOMAIN handled = 1 .. Len(handled)
      BY DEF DataInv, Types
    <2> QED BY <2>1 DEF OrderInv, NumbersInv
  <1> QED BY <1>1, OrderInvariant, PTL

\* What has arrived on a rail and comes first there is expected if the next number is among it.
LEMMA HeadExpected ==
    ASSUME NEW s \in Seq(Buffers), Flows(s), s # << >>, Head(s).kind # "data",
           NEW lo \in Int, Has(s, lo), \A a \in Int : Has(s, a) => lo <= a
    PROVE  Head(s).num = lo
  <1>1. 1 \in 1 .. Len(s) /\ Head(s) = s[1]
    OBVIOUS
  <1>2. \A i \in 1 .. Len(s) : s[i].num \in Int
    <2>1. \A i \in 1 .. Len(s) : s[i] \in Buffers
      OBVIOUS
    <2> QED BY <2>1 DEF Buffers
  <1>3. lo <= s[1].num
    BY <1>1, <1>2 DEF Has, Counts
  <1>4. PICK i \in 1 .. Len(s) : s[i].kind # "data" /\ s[i].num = lo
    BY DEF Has, Counts
  <1>5. CASE i = 1
    BY <1>1, <1>4, <1>5
  <1>6. CASE i # 1
    <2>1. 1 < i
      BY <1>6
    <2>2. s[1].num < s[i].num
      BY <1>1, <1>4, <2>1 DEF Flows, Rises
    <2>3. s[1].num \in Int
      BY <1>1, <1>2
    <2> QED BY <1>3, <1>4, <2>2, <2>3
  <1> QED BY <1>5, <1>6

\* Without coalescing, once everything sent has arrived, everything has been handed up or
\* the buffer that comes next is the oldest in the queue of a rail.
THEOREM NothingIsLeft == Spec => []NothingLeftBehind
  <1>1. DataInv /\ PacketsInv /\ OrderInv => NothingLeftBehind
    <2> SUFFICES ASSUME DataInv, PacketsInv, OrderInv, ~useCoalesce,
                        NEW r0 \in Rails,
                        \A r \in Rails : rail[r].ext = << >> /\ rail[r].wire = << >>
                              /\ (vqueue[r] # << >> => ~Expected(Head(vqueue[r])))
                 PROVE  Len(handled) = ch3Next
      <3>1. 0 \in Rails
        BY SizesAssumption DEF Rails
      <3> QED BY <3>1 DEF NothingLeftBehind
    <2>0. Types /\ NumbersInv /\ Spread(Streams, nextToRecv, nextToSend)
      BY DEF DataInv, OrderInv
    <2>1. nextToRecv \in Int /\ nextToSend \in Int
      BY <2>0 DEF Types, NumbersInv
    <2>2. ASSUME NEW r \in Rails PROVE Streams[r] = vqueue[r] /\ vqueue[r] \in Seq(Buffers)
      <3>1. vqueue[r] \in Seq(Buffers)
        BY <2>0 DEF Types
      <3>2. Way(rail[r]) = << >>
        BY ConcatEmptySeq DEF Way
      <3> QED BY <3>1, <3>2, ConcatEmptySeq DEF Streams, Stream
    <2>3. CASE nextToRecv < nextToSend
      <3>1. PICK r \in Rails : Has(Streams[r], nextToRecv)
        BY <2>0, <2>1, <2>3 DEF Spread
      <3> DEFINE s == vqueue[r]
      <3>2. /\ s \in Seq(Buffers) /\ Flows(s) /\ Has(s, nextToRecv)
            /\ \A a \in Int : Has(s, a) => nextToRecv <= a
        BY <2>0, <2>2, <3>1 DEF Spread
      <3>3. s # << >>
        BY <3>2 DEF Has
      <3>4. 1 \in 1 .. Len(s) /\ Head(s) = s[1]
        BY <3>2, <3>3
      <3>5. Head(s).kind # "data"
        BY <3>4 DEF PacketsInv
      <3> HIDE DEF s
      <3>6. Head(s).num = nextToRecv
        BY <2>1, <3>2, <3>3, <3>5, HeadExpected
      <3> QED BY <3>3, <3>6 DEF Expected, s
    <2>4. CASE nextToRecv = nextToSend
      BY <2>0, <2>4 DEF NumbersInv
    <2>5. nextToRecv <= nextToSend
      BY <2>0 DEF Spread
    <2> QED BY <2>1, <2>3, <2>4, <2>5
  <1> QED BY <1>1, OrderInvariant, PTL
=============================================================================
