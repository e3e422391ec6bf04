---------------------------- MODULE VcCloseProofs ----------------------------
(***************************************************************************)
(* Proofs about VcClose, for any number of processes, any connections and  *)
(* any program: the two ends of a connection are always at one of a few    *)
(* stages of its close (Stage), whatever the other connections do.  That a *)
(* process which is done leaves nothing behind needs a correct program:    *)
(* Unmatched = {}.                                                         *)
(***************************************************************************)
EXTENDS VcClose, TLAPS, FiniteSetTheorems, SequenceTheorems

\* What the proofs look at of p's end of its connection with q: the state, the packets
\* it sent that have not arrived, whether the program at p sends nothing more to q,
\* whether the end waits for its last completion, and how many completions there are to come.
Finishing == {"releasing", "flush", "closing", "closeWait", "done"}
NoMoreSends(p, q) ==
    \/ phase[p] \in Finishing
    \/ <<p, q>> \in Dynamic /\ ~mayDisconnect[p]
End(p, q) == [state |-> vcState[p][q], wire |-> wire[p][q], quiet |-> NoMoreSends(p, q),
              deferred |-> disconnect[p][q], count |-> uncompleted[p][q]]
Ends == [state : States, wire : Seq(Packets), quiet : BOOLEAN, deferred : BOOLEAN, count : Nat]
Near(p, q) == <<p, q>> \in Smp

\* Nothing but messages; messages before one CLOSE packet; before both of them.
Messages(w) == \A i \in 1 .. Len(w) : w[i] = "Message"
Before(w, n) == \A i \in 1 .. Len(w) - n : w[i] = "Message"
EndsIn(w, kind) == Len(w) >= 1 /\ w[Len(w)] = kind /\ Before(w, 1)
EndsInBoth(w) ==
    Len(w) >= 2 /\ w[Len(w) - 1] = "CloseReq" /\ w[Len(w)] = "CloseAck" /\ Before(w, 2)
OneAck(w) == Len(w) = 1 /\ w[1] = "CloseAck"

\* An end that takes no part in a close yet, and one that is done with its part.
Opens(x) == x.state \in {"INACTIVE", "ACTIVE", "INACTIVE_CLOSED"} /\ ~x.deferred
Gone(x) == x.state \in {"CLOSED", "INACTIVE", "INACTIVE_CLOSED"} /\ x.quiet

\* The connection is made when x's messages arrive; who is connected has a peer that is,
\* or will be.
Connects(x, near) == Messages(x.wire) /\ (x.wire # << >> /\ ~near => x.state = "ACTIVE")
Reaches(y, near, n) == y.state = "ACTIVE" \/ (~near /\ n >= 1)

\* How far the closing of a connection is; x has begun it, or both have.
Open(x, y, near) ==
    /\ Opens(x) /\ Opens(y) /\ Connects(x, near) /\ Connects(y, near)
    /\ x.state = "ACTIVE" => Reaches(y, near, Len(x.wire))
    /\ y.state = "ACTIVE" => Reaches(x, near, Len(y.wire))
Begun(x, y, near) ==
    /\ x.state = "LOCAL_CLOSE" /\ x.quiet /\ Opens(y)
    /\ EndsIn(x.wire, "CloseReq") /\ Connects(y, near)
    /\ Reaches(y, near, Len(x.wire) - 1)
Asked(x, y) ==
    /\ x.state = "LOCAL_CLOSE" /\ x.quiet /\ y.state = "REMOTE_CLOSE"
    /\ x.wire = << >> /\ Messages(y.wire)
Crossed(x, y) ==
    /\ x.state = "LOCAL_CLOSE" /\ y.state = "LOCAL_CLOSE" /\ x.quiet /\ y.quiet
    /\ EndsIn(x.wire, "CloseReq") /\ EndsIn(y.wire, "CloseReq")
Answers(x, y) ==
    /\ x.state = "LOCAL_CLOSE" /\ y.state = "CLOSE_ACKED" /\ x.quiet /\ y.quiet
    /\ x.wire = << >> /\ (EndsIn(y.wire, "CloseAck") \/ EndsInBoth(y.wire))
BothAcked(x, y) ==
    /\ x.state = "CLOSE_ACKED" /\ y.state = "CLOSE_ACKED" /\ x.quiet /\ y.quiet
    /\ OneAck(x.wire) /\ OneAck(y.wire)
LastAck(x, y) ==
    /\ Gone(x) /\ y.state = "CLOSE_ACKED" /\ y.quiet
    /\ OneAck(x.wire) /\ y.wire = << >>
Over(x, y) == Gone(x) /\ Gone(y) /\ x.wire = << >> /\ y.wire = << >>

OneWay(x, y, near) == Begun(x, y, near) \/ Asked(x, y) \/ Answers(x, y) \/ LastAck(x, y)
Stage(x, y, near) ==
    \/ Open(x, y, near) \/ Crossed(x, y) \/ BothAcked(x, y) \/ Over(x, y)
    \/ OneWay(x, y, near) \/ OneWay(y, x, near)

\* An end that has begun to close and is not terminated, and what its completions allow.
Closing(s) == s \in {"LOCAL_CLOSE", "CLOSE_ACKED", "CLOSED"}
Counts(x) ==
    /\ x.count <= 2 /\ (x.state = "LOCAL_CLOSE" => x.count <= 1)
    /\ ~Closing(x.state) => x.count = 0
    /\ x.state = "CLOSED" => x.deferred /\ x.count > 0
    /\ x.deferred => x.state \in {"CLOSED", "INACTIVE", "INACTIVE_CLOSED"}
    /\ x.state = "INACTIVE_CLOSED" => x.quiet

Types ==
    /\ phase \in [Procs -> Phases] /\ turn \in [Procs -> 1 .. NumProcs]
    /\ vcState \in PerPair(States) /\ closeOps \in [Procs -> Int]
    /\ uncompleted \in PerPair(Nat) /\ pendingOps = uncompleted
    /\ disconnect \in PerPair(BOOLEAN) /\ wire \in PerPair(Seq(Packets))
    /\ sent \subseteq Pairs /\ mayDisconnect \in [Procs -> BOOLEAN]

PairsInv ==
    \A p, q \in Procs : p # q =>
        Stage(End(p, q), End(q, p), Near(p, q)) /\ Counts(End(p, q))

\* A process that disconnects has no further use for the communicator.
PhasesInv ==
    \A p \in Procs : phase[p] \in {"disconnecting", "disconnectWait"} => ~mayDisconnect[p]

\* The closes that p has begun and that are not terminated; there are none with itself.
Begins(p) == {q \in Procs \ {p} : Closing(vcState[p][q])}
OpsInv ==
    \A p \in Procs : /\ closeOps[p] = Cardinality(Begins(p))
                     /\ uncompleted[p][p] = 0 /\ wire[p][p] = << >>

\* The distance from p to q, in the order in which a loop of p takes the peers.
Distance(p, q) == IF p < q THEN q - p ELSE q - p + NumProcs
Passed(p, q) ==
    \/ phase[p] \in {"closeWait", "done"}
    \/ phase[p] = "closing" /\ Distance(p, q) < turn[p]

\* A process that finalizes has got what is sent to it; what its last loop has passed is
\* closed or unused, and when it is done nothing is left to close.
NothingToGet ==
    \A p, q \in Procs : p # q /\ phase[p] \in Finishing =>
        \A i \in 1 .. Len(wire[q][p]) : wire[q][p][i] # "Message"
LoopsClose ==
    \A p, q \in Procs : p # q /\ Passed(p, q) => vcState[p][q] \notin {"ACTIVE", "REMOTE_CLOSE"}
NothingToClose == \A p \in Procs : phase[p] = "done" => closeOps[p] = 0
LastInv == NothingToGet /\ LoopsClose /\ NothingToClose
-----------------------------------------------------------------------------
(* What is on the wire. *)

\* A packet is sent.
LEMMA WireGrows ==
    ASSUME NEW w \in Seq(Packets), NEW m \in Packets, NEW w2, w2 = Append(w, m)
    PROVE  /\ w2 \in Seq(Packets) /\ Len(w2) = Len(w) + 1 /\ Len(w) \in Nat /\ w2 # << >>
           /\ Messages(w) /\ m = "Message" => Messages(w2)
           /\ Messages(w) => EndsIn(w2, m)
           /\ EndsIn(w, "CloseReq") /\ m = "CloseAck" => EndsInBoth(w2)
           /\ w = << >> /\ m = "CloseAck" => OneAck(w2)
  <1> DEFINE n == Len(w)
  <1>1. /\ w2 \in Seq(Packets) /\ Len(w2) = n + 1 /\ n \in Nat
        /\ \A i \in 1 .. n : w2[i] = w[i]
        /\ w2[n + 1] = m
    BY AppendProperties
  <1>2. w2 # << >>
    BY <1>1
  <1> HIDE DEF n
  <1>3. ASSUME Messages(w) PROVE m = "Message" => Messages(w2)
    <2>1. \A i \in 1 .. n + 1 : i \in 1 .. n \/ i = n + 1
      BY <1>1
    <2> QED BY <1>1, <1>3, <2>1 DEF Messages, n
  <1>4. ASSUME Messages(w) PROVE EndsIn(w2, m)
    <2>1. Len(w2) - 1 = n /\ Len(w2) >= 1
      BY <1>1
    <2> QED BY <1>1, <1>4, <2>1 DEF Messages, EndsIn, Before, n
  <1>5. ASSUME EndsIn(w, "CloseReq"), m = "CloseAck" PROVE EndsInBoth(w2)
    <2>1. n >= 1 /\ w[n] = "CloseReq" /\ \A i \in 1 .. n - 1 : w[i] = "Message"
      BY <1>5 DEF EndsIn, Before, n
    <2>2. Len(w2) >= 2 /\ Len(w2) - 1 = n /\ Len(w2) - 2 = n - 1 /\ n \in 1 .. n
      BY <1>1, <2>1
    <2>3. \A i \in 1 .. n - 1 : i \in 1 .. n
      BY <1>1
    <2> QED BY <1>1, <1>5, <2>1, <2>2, <2>3 DEF EndsInBoth, Before
  <1>6. w = << >> /\ m = "CloseAck" => OneAck(w2)
    BY <1>1 DEF OneAck, n
  <1> QED BY <1>1, <1>2, <1>3, <1>4, <1>5, <1>6 DEF n

\* The oldest packet is handled.
LEMMA WireShrinks ==
    ASSUME NEW w \in Seq(Packets), w # << >>, NEW w2, w2 = Tail(w), NEW m, m = Head(w)
    PROVE  /\ w2 \in Seq(Packets) /\ Len(w2) = Len(w) - 1 /\ Len(w) \in Nat \ {0}
           /\ m \in Packets
           /\ m = "Message" =>
                 /\ Messages(w) => Messages(w2)
                 /\ \A k \in {"CloseReq", "CloseAck"} : EndsIn(w, k) => EndsIn(w2, k)
                 /\ EndsInBoth(w) => EndsInBoth(w2)
                 /\ ~OneAck(w)
           /\ m # "Message" =>
                 /\ ~Messages(w)
                 /\ \A k \in {"CloseReq", "CloseAck"} : EndsIn(w, k) => m = k /\ Len(w) = 1 /\ w2 = << >>
                 /\ EndsInBoth(w) => m = "CloseReq" /\ EndsIn(w2, "CloseAck") /\ OneAck(w2)
                 /\ OneAck(w) => m = "CloseAck" /\ w2 = << >>
  <1> DEFINE n == Len(w)
  <1>1. /\ n \in Nat \ {0} /\ m = w[1] /\ m \in Packets
        /\ w2 \in Seq(Packets) /\ Len(w2) = n - 1
        /\ \A i \in 1 .. n - 1 : w2[i] = w[i + 1]
    BY HeadTailProperties
  <1>2. n = 1 => w2 = << >>
    BY <1>1
  <1> HIDE DEF n
  <1>3. ASSUME m = "Message"
        PROVE  /\ Messages(w) => Messages(w2)
               /\ \A k \in {"CloseReq", "CloseAck"} : EndsIn(w, k) => EndsIn(w2, k)
               /\ EndsInBoth(w) => EndsInBoth(w2)
               /\ ~OneAck(w)
    <2>1. ASSUME Messages(w) PROVE Messages(w2)
      <3>1. \A i \in 1 .. n - 1 : i + 1 \in 1 .. n
        BY <1>1
      <3> QED BY <1>1, <2>1, <3>1 DEF Messages, n
    <2>2. ASSUME NEW k \in {"CloseReq", "CloseAck"}, EndsIn(w, k) PROVE EndsIn(w2, k)
      <3>1. w[n] = k /\ \A i \in 1 .. n - 1 : w[i] = "Message"
        BY <2>2 DEF EndsIn, Before, n
      <3>2. n # 1
        BY <1>1, <1>3, <3>1
      <3>3. n - 1 >= 1 /\ n - 1 \in 1 .. n - 1 /\ (n - 1) + 1 = n
        BY <1>1, <3>2
      <3>4. \A i \in 1 .. (n - 1) - 1 : i \in 1 .. n - 1 /\ i + 1 \in 1 .. n - 1
        BY <1>1
      <3> QED BY <1>1, <3>1, <3>3, <3>4 DEF EndsIn, Before
    <2>3. ASSUME EndsInBoth(w) PROVE EndsInBoth(w2)
      <3>1. /\ n >= 2 /\ w[n - 1] = "CloseReq" /\ w[n] = "CloseAck"
            /\ \A i \in 1 .. n - 2 : w[i] = "Message"
        BY <2>3 DEF EndsInBoth, Before, n
      <3>2. n # 2
        BY <1>1, <1>3, <3>1
      <3>3. /\ n - 1 >= 2 /\ n - 1 \in 1 .. n - 1 /\ (n - 1) + 1 = n
            /\ (n - 1) - 1 \in 1 .. n - 1 /\ ((n - 1) - 1) + 1 = n - 1
        BY <1>1, <3>1, <3>2
      <3>4. \A i \in 1 .. (n - 1) - 2 : i \in 1 .. n - 1 /\ i + 1 \in 1 .. n - 2
        BY <1>1
      <3> QED BY <1>1, <3>1, <3>3, <3>4 DEF EndsInBoth, Before
    <2>4. ~OneAck(w)
      BY <1>1, <1>3 DEF OneAck
    <2> QED BY <2>1, <2>2, <2>3, <2>4
  <1>4. ASSUME m # "Message"
        PROVE  /\ ~Messages(w)
               /\ \A k \in {"CloseReq", "CloseAck"} : EndsIn(w, k) => m = k /\ Len(w) = 1 /\ w2 = << >>
               /\ EndsInBoth(w) => m = "CloseReq" /\ EndsIn(w2, "CloseAck") /\ OneAck(w2)
               /\ OneAck(w) => m = "CloseAck" /\ w2 = << >>
    <2>1. 1 \in 1 .. n
      BY <1>1
    <2>2. ~Messages(w)
      BY <1>1, <1>4, <2>1 DEF Messages, n
    <2>3. ASSUME NEW k \in {"CloseReq", "CloseAck"}, EndsIn(w, k)
          PROVE  m = k /\ Len(w) = 1 /\ w2 = << >>
      <3>1. w[n] = k /\ \A i \in 1 .. n - 1 : w[i] = "Message"
        BY <2>3 DEF EndsIn, Before, n
      <3>2. n = 1
        BY <1>1, <1>4, <3>1
      <3> QED BY <1>1, <1>2, <3>1, <3>2 DEF n
    <2>4. ASSUME EndsInBoth(w) PROVE m = "CloseReq" /\ EndsIn(w2, "CloseAck") /\ OneAck(w2)
      <3>1. /\ n >= 2 /\ w[n - 1] = "CloseReq" /\ w[n] = "CloseAck"
            /\ \A i \in 1 .. n - 2 : w[i] = "Message"
        BY <2>4 DEF EndsInBoth, Before, n
      <3>2. n = 2
        BY <1>1, <1>4, <3>1
      <3>3. m = "CloseReq" /\ Len(w2) = 1 /\ w2[1] = "CloseAck"
        BY <1>1, <3>1, <3>2
      <3>4. Len(w2) >= 1 /\ \A i \in 1 .. Len(w2) - 1 : FALSE
        BY <3>3
      <3> QED BY <3>3, <3>4 DEF EndsIn, Before, OneAck
    <2>5. OneAck(w) => m = "CloseAck" /\ w2 = << >>
      BY <1>1, <1>2 DEF OneAck, n
    <2> QED BY <2>2, <2>3, <2>4, <2>5
  <1> QED BY <1>1, <1>3, <1>4 DEF n

LEMMA NothingSent == Messages(<< >>) /\ Len(<< >>) = 0
  BY DEF Messages
-----------------------------------------------------------------------------
(* How the two ends x and y of a connection go from stage to stage, x acting. *)

LEMMA StageSymmetric ==
    ASSUME NEW x, NEW y, NEW near
    PROVE  Stage(x, y, near) <=> Stage(y, x, near)
  BY DEF Stage, Open, Crossed, BothAcked, Over

\* An end after a step that does not change what the program may do.
Becomes(x, x2, s, w, c, d) ==
    /\ x \in Ends /\ x2 \in Ends /\ x2.quiet = x.quiet
    /\ x2.state = s /\ x2.wire = w /\ x2.count = c /\ x2.deferred = d

\* SendClose
CloseStep(x, x2, c) ==
    /\ ToBeClosed(x.state) /\ x.quiet
    /\ Becomes(x, x2, StateAfterSendClose(x.state), Append(x.wire, CloseKind(x.state)),
               x.count + c, x.deferred)

LEMMA BeginsClose ==
    ASSUME NEW x, NEW y \in Ends, NEW near \in BOOLEAN, NEW c \in {0, 1}, NEW x2,
           CloseStep(x, x2, c), Stage(x, y, near), Counts(x)
    PROVE  Stage(x2, y, near) /\ Counts(x2)
  <1>k. PICK k : k = CloseKind(x.state)
    OBVIOUS
  <1>w. PICK w2 : w2 = Append(x.wire, k)
    OBVIOUS
  <1>0. /\ Becomes(x, x2, StateAfterSendClose(x.state), w2, x.count + c, x.deferred)
        /\ ToBeClosed(x.state) /\ x.quiet
    BY <1>k, <1>w DEF CloseStep
  <1> USE <1>k, <1>w, <1>0
  <1> DEFINE w == x.wire
  <1>1. /\ w \in Seq(Packets) /\ k \in Packets /\ x.count \in Nat
        /\ x.state \in {"ACTIVE", "REMOTE_CLOSE"}
    BY DEF Becomes, Ends, CloseKind, Packets, ToBeClosed
  <1>2. /\ Len(w2) = Len(w) + 1 /\ Len(w) \in Nat
        /\ Messages(w) => EndsIn(w2, k)
    <2>1. w2 = Append(w, k)
      OBVIOUS
    <2> HIDE DEF w
    <2> QED BY <1>1, <2>1, WireGrows
  <1>3. /\ x2.state = StateAfterSendClose(x.state) /\ x2.wire = w2 /\ x2.count = x.count + c
        /\ x2.quiet /\ x2.deferred = x.deferred
    BY DEF Becomes
  <1>4. x.count = 0 /\ ~x.deferred
    BY <1>1 DEF Counts, Closing
  <1>5. Counts(x2)
    <2>1. x2.count = c /\ x2.state \in {"LOCAL_CLOSE", "CLOSE_ACKED"} /\ ~x2.deferred
      BY <1>3, <1>4 DEF StateAfterSendClose
    <2> QED BY <2>1 DEF Counts, Closing
  <1>6. ASSUME x.state = "ACTIVE" PROVE Stage(x2, y, near)
    <2>1. x2.state = "LOCAL_CLOSE" /\ k = "CloseReq" /\ Len(w2) - 1 = Len(w)
      BY <1>2, <1>3, <1>6 DEF StateAfterSendClose, CloseKind
    <2>2. Open(x, y, near) \/ Begun(y, x, near)
      BY <1>6 DEF Stage, OneWay, Open, Crossed, BothAcked, Over, Begun, Asked, Answers, LastAck, Gone
    <2>3. Open(x, y, near) => Begun(x2, y, near)
      BY <1>2, <1>3, <1>6, <2>1 DEF Open, Begun, Connects
    <2>4. Begun(y, x, near) => Crossed(x2, y)
      BY <1>2, <1>3, <1>6, <2>1 DEF Crossed, Begun, Connects
    <2> QED BY <2>2, <2>3, <2>4 DEF Stage, OneWay
  <1>7. ASSUME x.state = "REMOTE_CLOSE" PROVE Stage(x2, y, near)
    <2>1. x2.state = "CLOSE_ACKED" /\ k = "CloseAck"
      BY <1>3, <1>7 DEF StateAfterSendClose, CloseKind
    <2>2. Asked(y, x)
      BY <1>7 DEF Stage, OneWay, Open, Opens, Crossed, BothAcked, Over, Begun, Asked, Answers, LastAck, Gone
    <2>3. Answers(y, x2)
      BY <1>2, <1>3, <2>1, <2>2 DEF Answers, Asked
    <2> QED BY <2>3 DEF Stage, OneWay
  <1> QED BY <1>1, <1>5, <1>6, <1>7

\* Send
SendStep(x, x2, near) ==
    /\ ~x.quiet
    /\ Becomes(x, x2, IF x.state = "INACTIVE" /\ ~near THEN "ACTIVE" ELSE x.state,
               Append(x.wire, "Message"), x.count, x.deferred)

LEMMA SendsMessage ==
    ASSUME NEW x, NEW y \in Ends, NEW near \in BOOLEAN, NEW x2,
           SendStep(x, x2, near), Stage(x, y, near), Counts(x)
    PROVE  Stage(x2, y, near) /\ Counts(x2)
  <1>s. PICK s2 : s2 = IF x.state = "INACTIVE" /\ ~near THEN "ACTIVE" ELSE x.state
    OBVIOUS
  <1>w. PICK w2 : w2 = Append(x.wire, "Message")
    OBVIOUS
  <1>0. Becomes(x, x2, s2, w2, x.count, x.deferred) /\ ~x.quiet
    BY <1>s, <1>w DEF SendStep
  <1> USE <1>s, <1>w, <1>0
  <1> DEFINE w == x.wire
  <1>1. w \in Seq(Packets) /\ "Message" \in Packets
    BY DEF Becomes, Ends, Packets
  <1>2. /\ Len(w2) = Len(w) + 1 /\ Len(w) \in Nat /\ w2 # << >>
        /\ Messages(w) => Messages(w2)
    <2>1. w2 = Append(w, "Message")
      OBVIOUS
    <2> HIDE DEF w
    <2> QED BY <1>1, <2>1, WireGrows
  <1>3. /\ x2.state = s2 /\ x2.wire = w2 /\ x2.count = x.count
        /\ x2.quiet = x.quiet /\ x2.deferred = x.deferred
    BY DEF Becomes
  <1>4. x.state # "INACTIVE_CLOSED"
    BY DEF Counts
  <1>5. Open(x, y, near) \/ Begun(y, x, near) \/ Asked(y, x)
    BY DEF Stage, OneWay, Crossed, BothAcked, Over, Begun, Asked, Answers, LastAck, Gone
  <1>6. ~x.deferred
    BY <1>5 DEF Open, Opens, Begun, Asked, Counts
  <1>7. Counts(x2)
    BY <1>3, <1>4, <1>6 DEF Counts, Closing
  <1>8. ASSUME x.state \in {"INACTIVE", "ACTIVE"}, Connects(x, near)
        PROVE  /\ Opens(x2) /\ Connects(x2, near)
               /\ \A n : Reaches(x, near, n) => Reaches(x2, near, n)
    <2>1. CASE near
      BY <1>2, <1>3, <1>6, <1>8, <2>1 DEF Opens, Connects, Reaches
    <2>2. CASE ~near
      <3>1. x2.state = "ACTIVE"
        BY <1>3, <1>8, <2>2
      <3> QED BY <1>2, <1>3, <1>6, <1>8, <3>1 DEF Opens, Connects, Reaches
    <2> QED BY <2>1, <2>2
  <1>9. ASSUME Open(x, y, near) PROVE Open(x2, y, near)
    <2>1. x.state \in {"INACTIVE", "ACTIVE"}
      BY <1>4, <1>9 DEF Open, Opens
    <2>2. ASSUME x2.state = "ACTIVE" PROVE Reaches(y, near, Len(w2))
      BY <1>2, <1>3, <1>9, <2>2 DEF Open, Reaches
    <2>3. Connects(x, near) /\ (y.state = "ACTIVE" => Reaches(x, near, Len(y.wire)))
      BY <1>9 DEF Open
    <2>4. Opens(x2) /\ Connects(x2, near) /\ (y.state = "ACTIVE" => Reaches(x2, near, Len(y.wire)))
      BY <1>8, <2>1, <2>3
    <2> QED BY <1>3, <1>9, <2>2, <2>4 DEF Open
  <1>10. ASSUME Begun(y, x, near) PROVE Begun(y, x2, near)
    <2>1. x.state \in {"INACTIVE", "ACTIVE"}
      BY <1>4, <1>10 DEF Begun, Opens
    <2>2. Connects(x, near) /\ Reaches(x, near, Len(y.wire) - 1)
      BY <1>10 DEF Begun
    <2>3. Opens(x2) /\ Connects(x2, near) /\ Reaches(x2, near, Len(y.wire) - 1)
      BY <1>8, <2>1, <2>2
    <2> QED BY <1>10, <2>3 DEF Begun
  <1>11. Asked(y, x) => Asked(y, x2)
    BY <1>2, <1>3 DEF Asked
  <1> QED BY <1>5, <1>7, <1>9, <1>10, <1>11 DEF Stage, OneWay

\* PG_Close_VCs finds a connection that is not in use.
UnusedStep(x, x2) ==
    /\ x.state = "INACTIVE" /\ x.quiet
    /\ Becomes(x, x2, "INACTIVE_CLOSED", x.wire, x.count, x.deferred)

LEMMA MarksUnused ==
    ASSUME NEW x, NEW y \in Ends, NEW near \in BOOLEAN, NEW x2,
           UnusedStep(x, x2), Stage(x, y, near), Counts(x)
    PROVE  Stage(x2, y, near) /\ Counts(x2)
  <1> USE DEF UnusedStep
  <1>1. /\ x2.state = "INACTIVE_CLOSED" /\ x2.wire = x.wire /\ x2.count = x.count
        /\ x2.quiet /\ x2.deferred = x.deferred
    BY DEF Becomes
  <1>2. Counts(x2)
    BY <1>1 DEF Counts, Closing
  <1>3. Open(x, y, near) \/ Over(x, y) \/ Begun(y, x, near) \/ LastAck(x, y)
    BY DEF Stage, OneWay, Crossed, BothAcked, Over, Begun, Asked, Answers, LastAck, Gone
  <1>4. /\ Open(x, y, near) => Open(x2, y, near)
        /\ Begun(y, x, near) => Begun(y, x2, near)
    BY <1>1 DEF Open, Begun, Opens, Connects, Reaches
  <1>5. (Over(x, y) => Over(x2, y)) /\ (LastAck(x, y) => LastAck(x2, y))
    BY <1>1 DEF Over, LastAck, Gone
  <1> QED BY <1>2, <1>3, <1>4, <1>5 DEF Stage, OneWay

\* Packet m arrives at x.
Takes(y, y2, m) ==
    /\ y.wire # << >> /\ Head(y.wire) = m
    /\ Becomes(y, y2, y.state, Tail(y.wire), y.count, y.deferred)

\* Recv_Message
MessageStep(x, x2, near) ==
    Becomes(x, x2,
            IF ~near /\ x.state \in {"INACTIVE", "INACTIVE_CLOSED"} THEN "ACTIVE" ELSE x.state,
            x.wire, x.count, x.deferred)

LEMMA GetsMessage ==
    ASSUME NEW x, NEW y, NEW near \in BOOLEAN, NEW x2, NEW y2,
           MessageStep(x, x2, near), Takes(y, y2, "Message"),
           Stage(x, y, near), Counts(x), Counts(y)
    PROVE  /\ Stage(x2, y2, near) /\ Counts(x2) /\ Counts(y2)
           /\ x.state \notin {"REMOTE_CLOSE", "CLOSE_ACKED", "CLOSED"}
  <1>s. PICK s2 :
            s2 = IF ~near /\ x.state \in {"INACTIVE", "INACTIVE_CLOSED"} THEN "ACTIVE" ELSE x.state
    OBVIOUS
  <1>0. /\ Becomes(x, x2, s2, x.wire, x.count, x.deferred)
        /\ Becomes(y, y2, y.state, Tail(y.wire), y.count, y.deferred)
        /\ y.wire # << >> /\ Head(y.wire) = "Message"
    BY <1>s DEF MessageStep, Takes
  <1> USE <1>s, <1>0
  <1>1. /\ x2.state = s2 /\ x2.wire = x.wire /\ x2.count = x.count
        /\ x2.quiet = x.quiet /\ x2.deferred = x.deferred
        /\ y2.state = y.state /\ y2.wire = Tail(y.wire) /\ y2.count = y.count
        /\ y2.quiet = y.quiet /\ y2.deferred = y.deferred
    BY DEF Becomes
  <1> DEFINE w == y.wire  w2 == y2.wire
  <1>2. /\ Len(w2) = Len(w) - 1 /\ Len(w) \in Nat \ {0} /\ w # << >>
        /\ Messages(w) => Messages(w2)
        /\ \A k \in {"CloseReq", "CloseAck"} : EndsIn(w, k) => EndsIn(w2, k)
        /\ EndsInBoth(w) => EndsInBoth(w2)
        /\ ~OneAck(w)
    <2>1. w \in Seq(Packets) /\ w # << >> /\ w2 = Tail(w) /\ Head(w) = "Message"
      BY <1>1 DEF Becomes, Ends
    <2>2. PICK m : m = Head(w)
      OBVIOUS
    <2> HIDE DEF w, w2
    <2>3. Len(w2) = Len(w) - 1 /\ Len(w) \in Nat \ {0}
      BY <2>1, <2>2, WireShrinks
    <2>4. m = "Message"
      BY <2>1, <2>2
    <2>5. ~OneAck(w)
      BY <2>1, <2>2, <2>4, WireShrinks
    <2>6. Messages(w) => Messages(w2)
      BY <2>1, <2>2, <2>4, WireShrinks
    <2>7. EndsInBoth(w) => EndsInBoth(w2)
      BY <2>1, <2>2, <2>4, WireShrinks
    <2>8. EndsIn(w, "CloseReq") => EndsIn(w2, "CloseReq")
      BY <2>1, <2>2, <2>4, WireShrinks
    <2>9. EndsIn(w, "CloseAck") => EndsIn(w2, "CloseAck")
      BY <2>1, <2>2, <2>4, WireShrinks
    <2> QED BY <2>1, <2>3, <2>5, <2>6, <2>7, <2>8, <2>9
  <1>3. Counts(y2)
    BY <1>1 DEF Counts
  <1>4. \/ Open(x, y, near) \/ Begun(x, y, near) \/ Begun(y, x, near) \/ Asked(x, y)
        \/ Crossed(x, y) \/ Answers(x, y)
    BY <1>2 DEF Stage, OneWay, BothAcked, Over, Asked, Answers, LastAck
  <1>5. x.state \notin {"REMOTE_CLOSE", "CLOSE_ACKED", "CLOSED"}
    BY <1>4 DEF Open, Opens, Begun, Asked, Crossed, Answers
  <1>6. ASSUME Opens(x), Connects(x, near)
        PROVE  /\ Opens(x2) /\ Counts(x2) /\ Connects(x2, near)
               /\ ~near => x2.state = "ACTIVE"
               /\ near => x2.state = x.state
    <2>1. x.count = 0 /\ ~x.deferred
      BY <1>6 DEF Opens, Counts, Closing
    <2>2. CASE near
      BY <1>1, <1>6, <2>2 DEF Opens, Connects, Counts
    <2>3. CASE ~near
      <3>1. x2.state = "ACTIVE"
        BY <1>1, <1>6, <2>3 DEF Opens
      <3>2. Opens(x2) /\ Counts(x2)
        BY <1>1, <2>1, <3>1 DEF Opens, Counts, Closing
      <3>3. Connects(x2, near)
        BY <1>1, <1>6, <3>1 DEF Connects
      <3> QED BY <2>3, <3>1, <3>2, <3>3
    <2> QED BY <2>2, <2>3
  <1>7. ASSUME Open(x, y, near) PROVE Open(x2, y2, near) /\ Counts(x2)
    <2>1. Opens(x2) /\ Counts(x2) /\ Connects(x2, near) /\ Opens(y2) /\ Connects(y2, near)
      BY <1>1, <1>2, <1>6, <1>7 DEF Open, Opens, Connects
    <2>2. x2.state = "ACTIVE" => Reaches(y2, near, Len(x2.wire))
      BY <1>1, <1>2, <1>6, <1>7 DEF Open, Connects, Reaches
    <2>3. y2.state = "ACTIVE" => Reaches(x2, near, Len(y2.wire))
      BY <1>1, <1>2, <1>6, <1>7 DEF Open, Connects, Reaches
    <2> QED BY <2>1, <2>2, <2>3 DEF Open
  <1>8. ASSUME Begun(y, x, near) PROVE Begun(y2, x2, near) /\ Counts(x2)
    <2>1. Opens(x2) /\ Counts(x2) /\ Connects(x2, near)
      BY <1>6, <1>8 DEF Begun
    <2>2. Reaches(x2, near, Len(y2.wire) - 1)
      BY <1>6, <1>8 DEF Begun, Reaches
    <2> QED BY <1>1, <1>2, <1>8, <2>1, <2>2 DEF Begun
  <1>9. ASSUME x.state = "LOCAL_CLOSE" PROVE Counts(x2) /\ x2.state = x.state
    BY <1>1, <1>9 DEF Counts
  <1>10. ASSUME Begun(x, y, near) PROVE Begun(x2, y2, near) /\ Counts(x2)
    BY <1>1, <1>2, <1>9, <1>10 DEF Begun, Opens, Connects, Reaches
  <1>11. Asked(x, y) => Asked(x2, y2) /\ Counts(x2)
    BY <1>1, <1>2, <1>9 DEF Asked
  <1>12. Crossed(x, y) => Crossed(x2, y2) /\ Counts(x2)
    BY <1>1, <1>2, <1>9 DEF Crossed
  <1>13. Answers(x, y) => Answers(x2, y2) /\ Counts(x2)
    BY <1>1, <1>2, <1>9 DEF Answers
  <1> QED BY <1>3, <1>4, <1>5, <1>7, <1>8, <1>10, <1>11, <1>12, <1>13 DEF Stage, OneWay

\* What an end puts on the wire when it answers a CLOSE packet.
Reply(w, s) == IF Answered(s) THEN Append(w, "CloseAck") ELSE w
Pending(x, c) == x.count + IF Answered(x.state) THEN c ELSE 0

\* PktHandler_Close with ack FALSE
ReqStep(x, x2, n2) ==
    Becomes(x, x2, StateAfterReq(x.state), Reply(x.wire, x.state), n2, x.deferred)

LEMMA GetsReq ==
    ASSUME NEW x, NEW y, NEW near \in BOOLEAN, NEW c \in {0, 1}, NEW x2, NEW y2, NEW n2,
           ReqStep(x, x2, n2), n2 = Pending(x, c), Takes(y, y2, "CloseReq"),
           Stage(x, y, near), Counts(x), Counts(y)
    PROVE  /\ Stage(x2, y2, near) /\ Counts(x2) /\ Counts(y2)
           /\ x.state \in {"ACTIVE", "LOCAL_CLOSE"}
  <1>w. PICK w2 : w2 = Reply(x.wire, x.state)
    OBVIOUS
  <1>0. /\ Becomes(x, x2, StateAfterReq(x.state), w2, n2, x.deferred)
        /\ n2 = x.count + IF Answered(x.state) THEN c ELSE 0
        /\ Becomes(y, y2, y.state, Tail(y.wire), y.count, y.deferred)
        /\ y.wire # << >> /\ Head(y.wire) = "CloseReq"
    BY <1>w DEF ReqStep, Takes, Pending
  <1> USE <1>w, <1>0
  <1>1. /\ x2.state = StateAfterReq(x.state) /\ x2.wire = w2 /\ x2.count = n2
        /\ x2.quiet = x.quiet /\ x2.deferred = x.deferred
        /\ y2.state = y.state /\ y2.wire = Tail(y.wire) /\ y2.count = y.count
        /\ y2.quiet = y.quiet /\ y2.deferred = y.deferred
    BY DEF Becomes
  <1> DEFINE w == y.wire  v2 == y2.wire  v == x.wire
  <1>2. /\ Len(w) \in Nat \ {0} /\ w # << >>
        /\ ~Messages(w) /\ ~OneAck(w)
        /\ EndsIn(w, "CloseReq") => Len(w) = 1 /\ v2 = << >>
        /\ ~EndsIn(w, "CloseAck")
        /\ EndsInBoth(w) => OneAck(v2)
    <2>1. w \in Seq(Packets) /\ w # << >> /\ v2 = Tail(w) /\ Head(w) = "CloseReq"
      BY <1>1 DEF Becomes, Ends
    <2> HIDE DEF w, v2
    <2> QED BY <2>1, WireShrinks
  <1>3. Counts(y2)
    BY <1>1 DEF Counts
  <1>4. x.count \in Nat
    BY DEF Becomes, Ends
  <1>5. Begun(y, x, near) \/ Crossed(x, y) \/ Answers(x, y)
    BY <1>2 DEF Stage, OneWay, Open, Connects, Begun, BothAcked, Over, Asked, Answers, LastAck
  <1>6. ASSUME Begun(y, x, near)
        PROVE  Asked(y2, x2) /\ Counts(x2) /\ x.state = "ACTIVE"
    <2>0. EndsIn(w, "CloseReq") /\ Reaches(x, near, Len(w) - 1) /\ Connects(x, near)
      BY <1>6 DEF Begun
    <2>1. x.state = "ACTIVE" /\ Messages(x.wire) /\ y.quiet /\ y.state = "LOCAL_CLOSE" /\ v2 = << >>
      <3>0. Len(w) = 1
        BY <1>2, <2>0
      <3>1. x.state = "ACTIVE"
        <4>1. ~(Len(w) - 1 >= 1)
          BY <3>0
        <4>2. x.state = "ACTIVE" \/ (~near /\ Len(w) - 1 >= 1)
          BY <2>0 DEF Reaches
        <4> QED BY <4>1, <4>2
      <3>2. Messages(x.wire) /\ v2 = << >>
        BY <1>2, <2>0 DEF Connects
      <3> QED BY <1>6, <3>1, <3>2 DEF Begun
    <2>2. x2.state = "REMOTE_CLOSE" /\ x2.wire = x.wire /\ x2.count = x.count
      BY <1>1, <1>4, <2>1 DEF StateAfterReq, Reply, Answered
    <2>3. Counts(x2)
      BY <1>1, <2>1, <2>2 DEF Counts, Closing
    <2> QED BY <1>1, <2>1, <2>2, <2>3 DEF Asked
  <1>7. ASSUME x.state = "LOCAL_CLOSE"
        PROVE  x2.state = "CLOSE_ACKED" /\ x2.wire = Append(x.wire, "CloseAck") /\ Counts(x2)
    <2>1. x2.state = "CLOSE_ACKED" /\ x2.wire = Append(x.wire, "CloseAck") /\ x2.count = x.count + c
      BY <1>1, <1>7 DEF StateAfterReq, Reply, Answered
    <2>2. x.count <= 1 /\ ~x.deferred
      BY <1>7 DEF Counts
    <2>3. Counts(x2)
      BY <1>1, <1>4, <2>1, <2>2 DEF Counts, Closing
    <2> QED BY <2>1, <2>3
  <1>8. ASSUME NEW k, k = Append(v, "CloseAck")
        PROVE  /\ EndsIn(v, "CloseReq") => EndsInBoth(k)
               /\ v = << >> => OneAck(k)
    <2>1. v \in Seq(Packets) /\ "CloseAck" \in Packets
      BY DEF Becomes, Ends, Packets
    <2> HIDE DEF v
    <2> QED BY <1>8, <2>1, WireGrows
  <1>9. ASSUME Crossed(x, y) PROVE Answers(y2, x2) /\ Counts(x2) /\ x.state = "LOCAL_CLOSE"
    <2>1. /\ x.state = "LOCAL_CLOSE" /\ y.state = "LOCAL_CLOSE" /\ x.quiet /\ y.quiet
          /\ EndsIn(v, "CloseReq") /\ v2 = << >>
      BY <1>2, <1>9 DEF Crossed
    <2>2. EndsInBoth(x2.wire)
      BY <1>7, <1>8, <2>1
    <2> QED BY <1>1, <1>7, <2>1, <2>2 DEF Answers
  <1>10. ASSUME Answers(x, y) PROVE BothAcked(x2, y2) /\ Counts(x2) /\ x.state = "LOCAL_CLOSE"
    <2>1. /\ x.state = "LOCAL_CLOSE" /\ y.state = "CLOSE_ACKED" /\ x.quiet /\ y.quiet
          /\ v = << >> /\ OneAck(v2)
      BY <1>2, <1>10 DEF Answers
    <2>2. OneAck(x2.wire)
      BY <1>7, <1>8, <2>1
    <2> QED BY <1>1, <1>7, <2>1, <2>2 DEF BothAcked
  <1> QED BY <1>3, <1>5, <1>6, <1>9, <1>10 DEF Stage, OneWay

\* PktHandler_Close with ack TRUE: the end is terminated, or waits for its completions.
AckStep(x, x2, n2) ==
    \/ n2 = 0 /\ Becomes(x, x2, "INACTIVE", Reply(x.wire, x.state), n2, x.deferred)
    \/ n2 # 0 /\ Becomes(x, x2, "CLOSED", Reply(x.wire, x.state), n2, TRUE)

LEMMA GetsAck ==
    ASSUME NEW x, NEW y, NEW near \in BOOLEAN, NEW c \in {0, 1}, NEW x2, NEW y2, NEW n2,
           AckStep(x, x2, n2), n2 = Pending(x, c), Takes(y, y2, "CloseAck"),
           Stage(x, y, near), Counts(x), Counts(y)
    PROVE  /\ Stage(x2, y2, near) /\ Counts(x2) /\ Counts(y2)
           /\ x.state \in {"LOCAL_CLOSE", "CLOSE_ACKED"}
  <1> DEFINE s2 == x2.state  d2 == x2.deferred
  <1>w. PICK w2 : w2 = Reply(x.wire, x.state)
    OBVIOUS
  <1>0. /\ Becomes(x, x2, s2, w2, n2, d2)
        /\ \/ n2 = 0 /\ s2 = "INACTIVE" /\ d2 = x.deferred
           \/ n2 # 0 /\ s2 = "CLOSED" /\ d2 = TRUE
        /\ n2 = x.count + IF Answered(x.state) THEN c ELSE 0
        /\ Becomes(y, y2, y.state, Tail(y.wire), y.count, y.deferred)
        /\ y.wire # << >> /\ Head(y.wire) = "CloseAck"
    BY <1>w DEF AckStep, Takes, Becomes, Pending
  <1> USE <1>w, <1>0
  <1>1. /\ x2.state = s2 /\ x2.wire = w2 /\ x2.count = n2
        /\ x2.quiet = x.quiet /\ x2.deferred = d2
        /\ y2.state = y.state /\ y2.wire = Tail(y.wire) /\ y2.count = y.count
        /\ y2.quiet = y.quiet /\ y2.deferred = y.deferred
    BY DEF Becomes
  <1> DEFINE w == y.wire  v2 == y2.wire  v == x.wire
  <1>2. /\ w # << >> /\ ~Messages(w) /\ ~EndsIn(w, "CloseReq") /\ ~EndsInBoth(w)
        /\ EndsIn(w, "CloseAck") => v2 = << >>
        /\ OneAck(w) => v2 = << >>
    <2>1. w \in Seq(Packets) /\ w # << >> /\ v2 = Tail(w) /\ Head(w) = "CloseAck"
      BY <1>1 DEF Becomes, Ends
    <2> HIDE DEF w, v2
    <2> QED BY <2>1, WireShrinks
  <1>3. Counts(y2)
    BY <1>1 DEF Counts
  <1>4. x.count \in Nat
    BY DEF Becomes, Ends
  <1>5. Answers(x, y) \/ BothAcked(x, y) \/ LastAck(y, x)
    BY <1>2 DEF Stage, OneWay, Open, Connects, Begun, Crossed, Over, Asked, Answers, LastAck
  <1>6. x.state \in {"LOCAL_CLOSE", "CLOSE_ACKED"} /\ x.quiet
    BY <1>5 DEF Answers, BothAcked, LastAck
  <1>7. Gone(x2) /\ Counts(x2)
    <2>1. n2 \in Nat /\ n2 <= 2
      BY <1>4, <1>6 DEF Answered, Counts
    <2>2. s2 \in {"CLOSED", "INACTIVE"} /\ x2.quiet
      BY <1>1, <1>6
    <2>3. Counts(x2)
      BY <1>1, <2>1, <2>2 DEF Counts, Closing
    <2> QED BY <1>1, <2>2, <2>3 DEF Gone
  <1>8. ASSUME Answers(x, y) PROVE LastAck(x2, y2)
    <2>1. x.state = "LOCAL_CLOSE" /\ y.state = "CLOSE_ACKED" /\ y.quiet /\ v = << >> /\ v2 = << >>
      BY <1>2, <1>8 DEF Answers
    <2>2. x2.wire = Append(v, "CloseAck")
      BY <1>1, <2>1 DEF Reply, Answered
    <2>3. OneAck(x2.wire)
      <3>1. v \in Seq(Packets) /\ "CloseAck" \in Packets
        BY DEF Becomes, Ends, Packets
      <3> HIDE DEF v
      <3> QED BY <2>1, <2>2, <3>1, WireGrows
    <2> QED BY <1>1, <1>7, <2>1, <2>3 DEF LastAck
  <1>9. ASSUME BothAcked(x, y) PROVE LastAck(x2, y2)
    <2>1. x.state = "CLOSE_ACKED" /\ y.state = "CLOSE_ACKED" /\ y.quiet /\ OneAck(v) /\ v2 = << >>
      BY <1>2, <1>9 DEF BothAcked
    <2>2. x2.wire = v
      BY <1>1, <2>1 DEF Reply, Answered
    <2> QED BY <1>1, <1>7, <2>1, <2>2 DEF LastAck
  <1>10. ASSUME LastAck(y, x) PROVE Over(x2, y2)
    <2>1. x.state = "CLOSE_ACKED" /\ Gone(y) /\ v = << >> /\ v2 = << >>
      BY <1>2, <1>10 DEF LastAck
    <2>2. x2.wire = v
      BY <1>1, <2>1 DEF Reply, Answered
    <2> QED BY <1>1, <1>7, <2>1, <2>2 DEF Over, Gone
  <1> QED BY <1>3, <1>5, <1>6, <1>7, <1>8, <1>9, <1>10 DEF Stage, OneWay

\* Process_send
CompletionStep(x, x2) ==
    /\ x.count > 0
    /\ Becomes(x, x2, IF x.deferred /\ x.count = 1 THEN "INACTIVE" ELSE x.state,
               x.wire, x.count - 1, x.deferred)

LEMMA Completes ==
    ASSUME NEW x, NEW y \in Ends, NEW near \in BOOLEAN, NEW x2,
           CompletionStep(x, x2), Stage(x, y, near), Counts(x)
    PROVE  /\ Stage(x2, y, near) /\ Counts(x2)
           /\ x.deferred => x.state = "CLOSED"
  <1> DEFINE s2 == x2.state  n2 == x2.count
  <1>0. /\ Becomes(x, x2, s2, x.wire, n2, x.deferred) /\ n2 = x.count - 1 /\ x.count > 0
        /\ s2 = IF x.deferred /\ n2 = 0 THEN "INACTIVE" ELSE x.state
    <2>1. x.count \in Nat /\ (x.count = 1 <=> x.count - 1 = 0)
      BY DEF CompletionStep, Becomes, Ends
    <2> QED BY <2>1 DEF CompletionStep, Becomes
  <1> USE <1>0
  <1>1. /\ x2.state = s2 /\ x2.wire = x.wire /\ x2.count = n2
        /\ x2.quiet = x.quiet /\ x2.deferred = x.deferred
    BY DEF Becomes
  <1>2. x.count \in Nat /\ n2 \in Nat /\ Closing(x.state)
    BY DEF Becomes, Ends, Counts
  <1>3. x.deferred => x.state = "CLOSED"
    BY <1>2 DEF Counts, Closing
  <1>4. CASE x.deferred
    <2>1. Counts(x2)
      BY <1>1, <1>2, <1>3, <1>4 DEF Counts, Closing
    <2>2. (Over(x, y) \/ LastAck(x, y)) /\ s2 \in {"CLOSED", "INACTIVE"}
      BY <1>3, <1>4 DEF Stage, OneWay, Open, Opens, Crossed, BothAcked, Over, Begun, Asked, Answers, LastAck
    <2>3. (Over(x, y) => Over(x2, y)) /\ (LastAck(x, y) => LastAck(x2, y))
      BY <1>1, <2>2 DEF Over, LastAck, Gone
    <2> QED BY <1>3, <2>1, <2>2, <2>3 DEF Stage, OneWay
  <1>5. CASE ~x.deferred
    <2>1. x2.state = x.state /\ x.state \in {"LOCAL_CLOSE", "CLOSE_ACKED"}
      BY <1>1, <1>2, <1>5 DEF Counts, Closing
    <2>2. Counts(x2)
      BY <1>1, <1>2, <1>5, <2>1 DEF Counts, Closing
    <2>3. /\ Open(x, y, near) => Open(x2, y, near)
          /\ Crossed(x, y) => Crossed(x2, y)
          /\ BothAcked(x, y) => BothAcked(x2, y)
          /\ Over(x, y) => Over(x2, y)
      BY <1>1, <2>1 DEF Open, Opens, Connects, Reaches, Crossed, BothAcked, Over, Gone
    <2>4. /\ OneWay(x, y, near) => OneWay(x2, y, near)
          /\ OneWay(y, x, near) => OneWay(y, x2, near)
      BY <1>1, <2>1 DEF OneWay, Begun, Asked, Answers, LastAck, Opens, Connects, Reaches, Gone
    <2> QED BY <1>3, <2>2, <2>3, <2>4 DEF Stage
  <1> QED BY <1>4, <1>5

\* Programs stop sending.
Later(x, x2) ==
    /\ x2.state = x.state /\ x2.wire = x.wire /\ x2.count = x.count /\ x2.deferred = x.deferred
    /\ x.quiet => x2.quiet

LEMMA StopsSending ==
    ASSUME NEW x, NEW y, NEW near, NEW x2, NEW y2, Later(x, x2), Later(y, y2),
           Stage(x, y, near), Counts(x)
    PROVE  Stage(x2, y2, near) /\ Counts(x2)
  <1>1. Counts(x2)
    BY DEF Later, Counts
  <1>2. /\ Open(x, y, near) => Open(x2, y2, near)
        /\ Crossed(x, y) => Crossed(x2, y2)
        /\ BothAcked(x, y) => BothAcked(x2, y2)
        /\ Over(x, y) => Over(x2, y2)
    BY DEF Later, Open, Opens, Connects, Reaches, Crossed, BothAcked, Over, Gone
  <1>3. /\ OneWay(x, y, near) => OneWay(x2, y2, near)
        /\ OneWay(y, x, near) => OneWay(y2, x2, near)
    BY DEF Later, OneWay, Begun, Asked, Answers, LastAck, Opens, Connects, Reaches, Gone
  <1> QED BY <1>1, <1>2, <1>3 DEF Stage
-----------------------------------------------------------------------------
(* Steps of the specification. *)

LEMMA EndTypes ==
    ASSUME Types, NEW p \in Procs, NEW q \in Procs
    PROVE  /\ End(p, q) \in Ends
           /\ Near(p, q) \in BOOLEAN /\ Near(q, p) = Near(p, q)
  <1>1. End(p, q) \in Ends
    BY DEF Types, PerPair, Ends, End, NoMoreSends
  <1>2. Near(q, p) = Near(p, q)
    BY PairsAssumption DEF Near, Symmetric
  <1>3. Near(p, q) \in BOOLEAN
    BY DEF Near
  <1> QED BY <1>1, <1>2, <1>3

\* The ends of one connection take a step, all others may only stop sending.
LEMMA PairStep ==
    ASSUME Types, PairsInv, NEW p \in Procs, NEW q \in Procs, p # q,
           Stage(End(p, q)', End(q, p)', Near(p, q)), Counts(End(p, q)'), Counts(End(q, p)'),
           \A i, j \in Procs : i # j /\ ~(i = p /\ j = q) /\ ~(i = q /\ j = p)
                => Later(End(i, j), End(i, j)')
    PROVE  PairsInv'
  <1>1. SUFFICES ASSUME NEW i \in Procs, NEW j \in Procs, i # j
                 PROVE  Stage(End(i, j)', End(j, i)', Near(i, j)) /\ Counts(End(i, j)')
    BY DEF PairsInv, Near
  <1>2. CASE i = p /\ j = q
    BY <1>2
  <1>3. CASE i = q /\ j = p
    BY <1>3, EndTypes, StageSymmetric
  <1>4. CASE ~(i = p /\ j = q) /\ ~(i = q /\ j = p)
    <2>1. Later(End(i, j), End(i, j)') /\ Later(End(j, i), End(j, i)')
      BY <1>1, <1>4
    <2>2. Stage(End(i, j), End(j, i), Near(i, j)) /\ Counts(End(i, j))
      BY <1>1 DEF PairsInv
    <2> QED BY <2>1, <2>2, StopsSending
  <1> QED BY <1>2, <1>3, <1>4

LEMMA SameProgram ==
    ASSUME UNCHANGED <<phase, mayDisconnect>>
    PROVE  \A i, j \in Procs : NoMoreSends(i, j)' = NoMoreSends(i, j)
  BY DEF NoMoreSends

\* Only programs move on.
LEMMA OnlyStops ==
    ASSUME Types, PairsInv, UNCHANGED vcVars,
           \A i, j \in Procs : NoMoreSends(i, j) => NoMoreSends(i, j)'
    PROVE  PairsInv'
  <1>1. \A i, j \in Procs : Later(End(i, j), End(i, j)')
    BY DEF Later, End, vcVars
  <1>2. ASSUME NEW i \in Procs, NEW j \in Procs, i # j
        PROVE  Stage(End(i, j)', End(j, i)', Near(i, j)) /\ Counts(End(i, j)')
    <2>1. Stage(End(i, j), End(j, i), Near(i, j)) /\ Counts(End(i, j))
      BY <1>2 DEF PairsInv
    <2> QED BY <1>1, <2>1, StopsSending
  <1> QED BY <1>2 DEF PairsInv, Near

LEMMA PutPair ==
    ASSUME NEW S, NEW f \in [Procs -> [Procs -> S]], NEW p \in Procs, NEW q \in Procs, NEW v,
           NEW f2, f2 = [f EXCEPT ![p][q] = v]
    PROVE  f2[p][q] = v /\ \A i, j \in Procs : ~(i = p /\ j = q) => f2[i][j] = f[i][j]
  OBVIOUS

\* p begins to close its connection with q, and has told its program so.
LEMMA SendCloseKeeps ==
    ASSUME Types, PairsInv, NEW p \in Procs, NEW q \in Procs, p # q, SendClose(p, q),
           ToBeClosed(vcState[p][q]), NoMoreSends(p, q), UNCHANGED <<phase, progVars>>,
           Types'
    PROVE  PairsInv'
  <1>1. \A i, j \in Procs : NoMoreSends(i, j)' = NoMoreSends(i, j)
    BY SameProgram DEF progVars
  <1> DEFINE x == End(p, q)  y == End(q, p)  x2 == End(p, q)'  y2 == End(q, p)'
             c == Counted(p, q)  k == CloseKind(x.state)
  <1>2. /\ x \in Ends /\ y \in Ends /\ x2 \in Ends /\ Near(p, q) \in BOOLEAN
    <2>1. x2 \in Ends
      BY DEF Types, PerPair, Ends, End, NoMoreSends
    <2> QED BY <2>1, EndTypes
  <1>3. c \in {0, 1}
    BY DEF Counted
  <1>4. /\ vcState' = [vcState EXCEPT ![p][q] = StateAfterSendClose(x.state)]
        /\ wire' = [wire EXCEPT ![p][q] = Append(x.wire, k)]
        /\ uncompleted' = [uncompleted EXCEPT ![p][q] = x.count + c]
        /\ disconnect' = disconnect
    BY DEF SendClose, Put, End
  <1>5. /\ vcState \in [Procs -> [Procs -> States]] /\ wire \in [Procs -> [Procs -> Seq(Packets)]]
        /\ uncompleted \in [Procs -> [Procs -> Nat]]
    BY DEF Types, PerPair
  <1>6. ToBeClosed(x.state) /\ x.quiet /\ Stage(x, y, Near(p, q)) /\ Counts(x) /\ Counts(y)
    BY DEF End, PairsInv
  <1>7. /\ vcState'[p][q] = StateAfterSendClose(x.state) /\ wire'[p][q] = Append(x.wire, k)
        /\ uncompleted'[p][q] = x.count + c
    <2> HIDE DEF x, k, c
    <2> QED BY <1>4, <1>5, PutPair
  <1>8. \A i, j \in Procs : ~(i = p /\ j = q) =>
            vcState'[i][j] = vcState[i][j] /\ wire'[i][j] = wire[i][j] /\ uncompleted'[i][j] = uncompleted[i][j]
    <2> HIDE DEF x, k, c
    <2> QED BY <1>4, <1>5, PutPair
  <1>9. CloseStep(x, x2, c)
    BY <1>1, <1>2, <1>4, <1>6, <1>7 DEF Becomes, End, CloseStep
  <1>10. \A i, j \in Procs : i # j /\ ~(i = p /\ j = q) => End(i, j)' = End(i, j)
    BY <1>1, <1>4, <1>8 DEF End
  <1>11. y2 = y
    BY <1>10
  <1> HIDE DEF x, y, x2, y2, c
  <1>13. Stage(x2, y, Near(p, q)) /\ Counts(x2)
    BY <1>2, <1>3, <1>6, <1>9, BeginsClose
  <1>14. \A i, j \in Procs : i # j /\ ~(i = p /\ j = q) /\ ~(i = q /\ j = p)
            => Later(End(i, j), End(i, j)')
    BY <1>10 DEF Later
  <1> QED BY <1>6, <1>11, <1>13, <1>14, PairStep DEF x, y, x2, y2

\* The program at p sends q a message.
LEMMA SendKeeps ==
    ASSUME Types, PairsInv, PhasesInv, NEW p \in Procs, NEW q \in Procs, p # q, Send(p, q), Types'
    PROVE  PairsInv'
  <1> DEFINE x == End(p, q)  y == End(q, p)  x2 == End(p, q)'  y2 == End(q, p)'  near == Near(p, q)
             s2 == IF x.state = "INACTIVE" /\ ~near THEN "ACTIVE" ELSE x.state
  <1>1. \A i, j \in Procs : NoMoreSends(i, j)' = NoMoreSends(i, j)
    BY SameProgram DEF Send
  <1>2. x \in Ends /\ y \in Ends /\ x2 \in Ends /\ near \in BOOLEAN
    <2>1. x2 \in Ends
      BY DEF Types, PerPair, Ends, End, NoMoreSends
    <2> QED BY <2>1, EndTypes
  <1>3. ~x.quiet
    BY DEF Send, End, NoMoreSends, Finishing
  <1>4. Stage(x, y, near) /\ Counts(x) /\ Counts(y)
    BY DEF PairsInv
  <1>5. /\ vcState \in [Procs -> [Procs -> States]] /\ wire \in [Procs -> [Procs -> Seq(Packets)]]
        /\ UNCHANGED <<uncompleted, disconnect>>
    BY DEF Types, PerPair, Send
  <1>6. wire' = [wire EXCEPT ![p][q] = Append(x.wire, "Message")]
    BY DEF Send, Put, End
  <1>7. /\ wire'[p][q] = Append(x.wire, "Message")
        /\ \A i, j \in Procs : ~(i = p /\ j = q) => wire'[i][j] = wire[i][j]
    <2> HIDE DEF x
    <2> QED BY <1>5, <1>6, PutPair
  <1>8. vcState'[p][q] = s2 /\ \A i, j \in Procs : ~(i = p /\ j = q) => vcState'[i][j] = vcState[i][j]
    <2>1. CASE x.state = "INACTIVE" /\ ~near
      <3>1. vcState' = [vcState EXCEPT ![p][q] = "ACTIVE"]
        BY <2>1 DEF Send, End, Near
      <3> QED BY <1>5, <2>1, <3>1, PutPair
    <2>2. CASE ~(x.state = "INACTIVE" /\ ~near)
      <3>1. vcState' = vcState
        BY <2>2 DEF Send, End, Near
      <3> QED BY <2>2, <3>1 DEF End
    <2> QED BY <2>1, <2>2
  <1>9. SendStep(x, x2, near)
    BY <1>1, <1>2, <1>3, <1>5, <1>7, <1>8 DEF Becomes, End, SendStep
  <1>10. \A i, j \in Procs : i # j /\ ~(i = p /\ j = q) => End(i, j)' = End(i, j)
    BY <1>1, <1>5, <1>7, <1>8 DEF End
  <1>11. y2 = y
    BY <1>10
  <1> HIDE DEF x, y, x2, y2
  <1>12. Stage(x2, y, near) /\ Counts(x2)
    BY <1>2, <1>4, <1>9, SendsMessage
  <1>13. \A i, j \in Procs : i # j /\ ~(i = p /\ j = q) /\ ~(i = q /\ j = p)
            => Later(End(i, j), End(i, j)')
    BY <1>10 DEF Later
  <1> QED BY <1>4, <1>11, <1>12, <1>13, PairStep DEF x, y, x2, y2

\* p marks a connection that it does not use.
LEMMA UnusedKeeps ==
    ASSUME Types, PairsInv, NEW p \in Procs, NEW q \in Procs, p # q,
           vcState[p][q] = "INACTIVE", vcState' = [vcState EXCEPT ![p][q] = "INACTIVE_CLOSED"],
           UNCHANGED <<phase, progVars, disconnect, wire, uncompleted>>,
           NoMoreSends(p, q), Types'
    PROVE  PairsInv'
  <1> DEFINE x == End(p, q)  y == End(q, p)  x2 == End(p, q)'  y2 == End(q, p)'  near == Near(p, q)
  <1>1. \A i, j \in Procs : NoMoreSends(i, j)' = NoMoreSends(i, j)
    BY SameProgram DEF progVars
  <1>2. x \in Ends /\ y \in Ends /\ x2 \in Ends /\ near \in BOOLEAN
    <2>1. x2 \in Ends
      BY DEF Types, PerPair, Ends, End, NoMoreSends
    <2> QED BY <2>1, EndTypes
  <1>3. Stage(x, y, near) /\ Counts(x) /\ Counts(y)
    BY DEF PairsInv
  <1>4. vcState \in [Procs -> [Procs -> States]]
    BY DEF Types, PerPair
  <1>5. /\ vcState'[p][q] = "INACTIVE_CLOSED"
        /\ \A i, j \in Procs : ~(i = p /\ j = q) => vcState'[i][j] = vcState[i][j]
    BY <1>4, PutPair
  <1>6. UnusedStep(x, x2)
    BY <1>1, <1>2, <1>5 DEF Becomes, End, UnusedStep
  <1>7. \A i, j \in Procs : i # j /\ ~(i = p /\ j = q) => End(i, j)' = End(i, j)
    BY <1>1, <1>5 DEF End
  <1>8. y2 = y
    BY <1>7
  <1> HIDE DEF x, y, x2, y2
  <1>9. Stage(x2, y, near) /\ Counts(x2)
    BY <1>2, <1>3, <1>6, MarksUnused
  <1>10. \A i, j \in Procs : i # j /\ ~(i = p /\ j = q) /\ ~(i = q /\ j = p)
            => Later(End(i, j), End(i, j)')
    BY <1>7 DEF Later
  <1> QED BY <1>3, <1>8, <1>9, <1>10, PairStep DEF x, y, x2, y2

\* p polls the completion of a CLOSE packet.
LEMMA ProcessSendKeeps ==
    ASSUME Types, PairsInv, NEW p \in Procs, NEW q \in Procs, p # q, Process_send(p, q), Types'
    PROVE  /\ PairsInv'
           /\ \/ UNCHANGED <<vcState, closeOps>>
              \/ vcState[p][q] = "CLOSED" /\ Terminated(p, q)
  <1> DEFINE x == End(p, q)  y == End(q, p)  x2 == End(p, q)'  y2 == End(q, p)'  near == Near(p, q)
             s2 == IF x.deferred /\ x.count = 1 THEN "INACTIVE" ELSE x.state
  <1>1. \A i, j \in Procs : NoMoreSends(i, j)' = NoMoreSends(i, j)
    BY SameProgram DEF Process_send, progVars
  <1>2. x \in Ends /\ y \in Ends /\ x2 \in Ends /\ near \in BOOLEAN
    <2>1. x2 \in Ends
      BY DEF Types, PerPair, Ends, End, NoMoreSends
    <2> QED BY <2>1, EndTypes
  <1>3. Stage(x, y, near) /\ Counts(x) /\ Counts(y)
    BY DEF PairsInv
  <1>4. /\ vcState \in [Procs -> [Procs -> States]] /\ uncompleted \in [Procs -> [Procs -> Nat]]
        /\ UNCHANGED <<wire, disconnect>> /\ x.count > 0 /\ x.count \in Nat
        /\ pendingOps = uncompleted
    BY DEF Types, PerPair, Process_send, End
  <1>5. /\ uncompleted' = [uncompleted EXCEPT ![p][q] = x.count - 1]
        /\ pendingOps' = uncompleted'
    BY <1>4 DEF Process_send, End
  <1>6. /\ uncompleted'[p][q] = x.count - 1
        /\ \A i, j \in Procs : ~(i = p /\ j = q) => uncompleted'[i][j] = uncompleted[i][j]
    <2> HIDE DEF x
    <2> QED BY <1>4, <1>5, PutPair
  <1>7. MayTerminate(p, q, pendingOps'[p][q]) <=> x.count = 1
    BY <1>4, <1>5, <1>6 DEF MayTerminate
  <1>8. IF x.deferred /\ x.count = 1 THEN Terminated(p, q) ELSE UNCHANGED <<vcState, closeOps>>
    BY <1>7 DEF Process_send, Deferred, End
  <1>9. vcState'[p][q] = s2 /\ \A i, j \in Procs : ~(i = p /\ j = q) => vcState'[i][j] = vcState[i][j]
    <2>1. CASE x.deferred /\ x.count = 1
      <3>1. vcState' = [vcState EXCEPT ![p][q] = "INACTIVE"]
        BY <1>8, <2>1 DEF Terminated
      <3> QED BY <1>4, <2>1, <3>1, PutPair
    <2>2. CASE ~(x.deferred /\ x.count = 1)
      <3>1. vcState' = vcState
        BY <1>8, <2>2
      <3> QED BY <2>2, <3>1 DEF End
    <2> QED BY <2>1, <2>2
  <1>10. CompletionStep(x, x2)
    BY <1>1, <1>2, <1>4, <1>6, <1>9 DEF Becomes, End, CompletionStep
  <1>11. \A i, j \in Procs : i # j /\ ~(i = p /\ j = q) => End(i, j)' = End(i, j)
    BY <1>1, <1>4, <1>6, <1>9 DEF End
  <1>12. y2 = y
    BY <1>11
  <1>13. x.state = vcState[p][q]
    BY DEF End
  <1> HIDE DEF x, y, x2, y2
  <1>14. Stage(x2, y, near) /\ Counts(x2) /\ (x.deferred => x.state = "CLOSED")
    BY <1>2, <1>3, <1>10, Completes
  <1>15. \A i, j \in Procs : i # j /\ ~(i = p /\ j = q) /\ ~(i = q /\ j = p)
            => Later(End(i, j), End(i, j)')
    BY <1>11 DEF Later
  <1>16. PairsInv'
    BY <1>3, <1>12, <1>14, <1>15, PairStep DEF x, y, x2, y2
  <1> QED BY <1>8, <1>13, <1>14, <1>16

LEMMA PutTwo ==
    ASSUME NEW S, NEW f \in [Procs -> [Procs -> S]], NEW p \in Procs, NEW q \in Procs, p # q,
           NEW a, NEW b, NEW f2, f2 = [f EXCEPT ![q][p] = a, ![p][q] = b]
    PROVE  /\ f2[q][p] = a /\ f2[p][q] = b
           /\ \A i, j \in Procs : ~(i = p /\ j = q) /\ ~(i = q /\ j = p) => f2[i][j] = f[i][j]
  OBVIOUS

\* What a packet that p handles tells of the state of its connection with q.
Fits(m, s) ==
    /\ m = "CloseReq" => s \in {"ACTIVE", "LOCAL_CLOSE"}
    /\ m = "CloseAck" => s \in {"LOCAL_CLOSE", "CLOSE_ACKED"}
    /\ m = "Message" => s \notin {"REMOTE_CLOSE", "CLOSE_ACKED", "CLOSED"}

\* Process p gets a message from q.
LEMMA RecvMessageKeeps ==
    ASSUME Types, PairsInv, NEW p \in Procs, NEW q \in Procs, p # q,
           wire[q][p] # << >>, Head(wire[q][p]) = "Message", Recv_Message(p, q),
           UNCHANGED <<phase, turn, progVars>>, Types'
    PROVE  PairsInv' /\ Fits("Message", vcState[p][q])
  <1> DEFINE x == End(p, q)  y == End(q, p)  x2 == End(p, q)'  y2 == End(q, p)'  near == Near(p, q)
             s2 == IF ~near /\ x.state \in {"INACTIVE", "INACTIVE_CLOSED"} THEN "ACTIVE" ELSE x.state
  <1>1. \A i, j \in Procs : NoMoreSends(i, j)' = NoMoreSends(i, j)
    BY SameProgram DEF progVars
  <1>2. x \in Ends /\ y \in Ends /\ x2 \in Ends /\ y2 \in Ends /\ near \in BOOLEAN
    <2>1. x2 \in Ends /\ y2 \in Ends
      BY DEF Types, PerPair, Ends, End, NoMoreSends
    <2> QED BY <2>1, EndTypes
  <1>3. Stage(x, y, near) /\ Counts(x) /\ Counts(y)
    BY DEF PairsInv
  <1>4. /\ vcState \in [Procs -> [Procs -> States]] /\ wire \in [Procs -> [Procs -> Seq(Packets)]]
        /\ UNCHANGED <<uncompleted, disconnect>>
        /\ wire' = [wire EXCEPT ![q][p] = Tail(y.wire)]
    BY DEF Types, PerPair, Recv_Message, End
  <1>5. /\ wire'[q][p] = Tail(y.wire)
        /\ \A i, j \in Procs : ~(i = q /\ j = p) => wire'[i][j] = wire[i][j]
    <2> HIDE DEF y
    <2> QED BY <1>4, PutPair
  <1>6. vcState'[p][q] = s2 /\ \A i, j \in Procs : ~(i = p /\ j = q) => vcState'[i][j] = vcState[i][j]
    <2>1. CASE ~near /\ x.state \in {"INACTIVE", "INACTIVE_CLOSED"}
      <3>1. vcState' = [vcState EXCEPT ![p][q] = "ACTIVE"]
        BY <2>1 DEF Recv_Message, End, Near
      <3> QED BY <1>4, <2>1, <3>1, PutPair
    <2>2. CASE ~(~near /\ x.state \in {"INACTIVE", "INACTIVE_CLOSED"})
      <3>1. vcState' = vcState
        BY <2>2 DEF Recv_Message, End, Near
      <3> QED BY <2>2, <3>1 DEF End
    <2> QED BY <2>1, <2>2
  <1>7. MessageStep(x, x2, near)
    BY <1>1, <1>2, <1>4, <1>5, <1>6 DEF Becomes, End, MessageStep
  <1>8. Takes(y, y2, "Message")
    BY <1>1, <1>2, <1>4, <1>5, <1>6 DEF Becomes, End, Takes
  <1>9. \A i, j \in Procs : ~(i = p /\ j = q) /\ ~(i = q /\ j = p) => End(i, j)' = End(i, j)
    BY <1>1, <1>4, <1>5, <1>6 DEF End
  <1>10. x.state = vcState[p][q]
    BY DEF End
  <1> HIDE DEF x, y, x2, y2
  <1>11. /\ Stage(x2, y2, near) /\ Counts(x2) /\ Counts(y2)
         /\ x.state \notin {"REMOTE_CLOSE", "CLOSE_ACKED", "CLOSED"}
    BY <1>2, <1>3, <1>7, <1>8, GetsMessage
  <1>12. \A i, j \in Procs : i # j /\ ~(i = p /\ j = q) /\ ~(i = q /\ j = p)
            => Later(End(i, j), End(i, j)')
    BY <1>9 DEF Later
  <1>13. PairsInv'
    BY <1>11, <1>12, PairStep DEF x, y, x2, y2
  <1> QED BY <1>10, <1>11, <1>13 DEF Fits

\* Process p handles a CLOSE packet from q.
LEMMA PktCloseKeeps ==
    ASSUME Types, PairsInv, NEW p \in Procs, NEW q \in Procs, p # q, NEW kind,
           wire[q][p] # << >>, Head(wire[q][p]) = kind, kind \in {"CloseReq", "CloseAck"},
           PktHandler_Close(p, q, kind), UNCHANGED <<phase, turn, progVars>>, Types'
    PROVE  PairsInv' /\ Fits(kind, vcState[p][q])
  <1> DEFINE x == End(p, q)  y == End(q, p)  x2 == End(p, q)'  y2 == End(q, p)'  near == Near(p, q)
             c == Counted(p, q)  n2 == Pending(x, c)  d2 == disconnect'[p][q]
             r == Reply(x.wire, x.state)
  <1>1. \A i, j \in Procs : NoMoreSends(i, j)' = NoMoreSends(i, j)
    BY SameProgram DEF progVars
  <1>2. x \in Ends /\ y \in Ends /\ x2 \in Ends /\ y2 \in Ends /\ near \in BOOLEAN
    <2>1. x2 \in Ends /\ y2 \in Ends
      BY DEF Types, PerPair, Ends, End, NoMoreSends
    <2> QED BY <2>1, EndTypes
  <1>3. Stage(x, y, near) /\ Counts(x) /\ Counts(y)
    BY DEF PairsInv
  <1>4. c \in {0, 1} /\ x.count \in Nat
    BY <1>2 DEF Counted, Ends
  <1>5. /\ vcState \in [Procs -> [Procs -> States]] /\ wire \in [Procs -> [Procs -> Seq(Packets)]]
        /\ uncompleted \in [Procs -> [Procs -> Nat]] /\ disconnect \in [Procs -> [Procs -> BOOLEAN]]
        /\ pendingOps = uncompleted
    BY DEF Types, PerPair
  <1>6. n2 = x.count + (IF Answered(vcState[p][q]) THEN Counted(p, q) ELSE 0)
    BY DEF Pending, End
  <1>7. uncompleted' = [uncompleted EXCEPT ![p][q] = n2]
    BY <1>6 DEF PktHandler_Close, End
  <1>8. /\ uncompleted'[p][q] = n2
        /\ \A i, j \in Procs : ~(i = p /\ j = q) => uncompleted'[i][j] = uncompleted[i][j]
    <2> HIDE DEF n2
    <2> QED BY <1>5, <1>7, PutPair
  <1>9. /\ wire'[q][p] = Tail(y.wire) /\ wire'[p][q] = r
        /\ \A i, j \in Procs : ~(i = p /\ j = q) /\ ~(i = q /\ j = p) => wire'[i][j] = wire[i][j]
    <2>1. CASE Answered(vcState[p][q])
      <3>1. wire' = [wire EXCEPT ![q][p] = Tail(y.wire), ![p][q] = r]
        <4>1. r = Append(wire[p][q], "CloseAck")
          BY <2>1 DEF Reply, End
        <4>2. wire' = [wire EXCEPT ![q][p] = Tail(@), ![p][q] = Append(@, "CloseAck")]
          BY <2>1 DEF PktHandler_Close
        <4> QED BY <1>5, <4>1, <4>2 DEF End
      <3> HIDE DEF y, r
      <3> QED BY <1>5, <3>1, PutTwo
    <2>2. CASE ~Answered(vcState[p][q])
      <3>1. wire' = [wire EXCEPT ![q][p] = Tail(y.wire), ![p][q] = r]
        <4>1. r = wire[p][q]
          BY <2>2 DEF Reply, End
        <4>2. wire' = [wire EXCEPT ![q][p] = Tail(@), ![p][q] = @]
          BY <2>2 DEF PktHandler_Close
        <4> QED BY <1>5, <4>1, <4>2 DEF End
      <3> HIDE DEF y, r
      <3> QED BY <1>5, <3>1, PutTwo
    <2> QED BY <2>1, <2>2
  <1>10. Takes(y, y2, kind) \/ ~(\A i, j \in Procs : ~(i = p /\ j = q) =>
                                    vcState'[i][j] = vcState[i][j] /\ disconnect'[i][j] = disconnect[i][j])
    BY <1>1, <1>2, <1>8, <1>9 DEF Becomes, End, Takes
  <1>11. MayTerminate(p, q, n2) <=> n2 = 0
    BY DEF MayTerminate
  <1>12. CASE kind = "CloseReq"
    <2>1. vcState' = [vcState EXCEPT ![p][q] = StateAfterReq(x.state)] /\ UNCHANGED disconnect
      BY <1>12 DEF PktHandler_Close, End
    <2>2. vcState'[p][q] = StateAfterReq(x.state)
          /\ \A i, j \in Procs : ~(i = p /\ j = q) => vcState'[i][j] = vcState[i][j]
      <3> HIDE DEF x
      <3> QED BY <1>5, <2>1, PutPair
    <2>3. ReqStep(x, x2, n2)
      BY <1>1, <1>2, <1>8, <1>9, <2>1, <2>2 DEF Becomes, End, ReqStep
    <2>4. Takes(y, y2, "CloseReq")
      BY <1>10, <1>12, <2>1, <2>2
    <2>5. \A i, j \in Procs : ~(i = p /\ j = q) /\ ~(i = q /\ j = p) => End(i, j)' = End(i, j)
      BY <1>1, <1>8, <1>9, <2>1, <2>2 DEF End
    <2>6. x.state = vcState[p][q] /\ n2 = Pending(x, c)
      BY DEF End
    <2> HIDE DEF x, y, x2, y2, n2, c
    <2>7. /\ Stage(x2, y2, near) /\ Counts(x2) /\ Counts(y2)
          /\ x.state \in {"ACTIVE", "LOCAL_CLOSE"}
      BY <1>2, <1>3, <1>4, <2>3, <2>4, <2>6, GetsReq
    <2>8. \A i, j \in Procs : i # j /\ ~(i = p /\ j = q) /\ ~(i = q /\ j = p)
             => Later(End(i, j), End(i, j)')
      BY <2>5 DEF Later
    <2>9. PairsInv'
      BY <2>7, <2>8, PairStep DEF x, y, x2, y2
    <2> QED BY <1>12, <2>6, <2>7, <2>9 DEF Fits
  <1>13. CASE kind = "CloseAck"
    <2>0. \/ n2 = 0 /\ vcState' = [vcState EXCEPT ![p][q] = "INACTIVE"] /\ UNCHANGED disconnect
          \/ /\ n2 # 0 /\ vcState' = [vcState EXCEPT ![p][q] = "CLOSED"]
             /\ disconnect' = [disconnect EXCEPT ![p][q] = TRUE]
      <3>1. pendingOps[p][q] + (IF Answered(vcState[p][q]) THEN Counted(p, q) ELSE 0) = n2
        BY <1>5 DEF Pending, End
      <3>2. \/ MayTerminate(p, q, n2) /\ Terminated(p, q) /\ UNCHANGED disconnect
            \/ /\ ~MayTerminate(p, q, n2) /\ vcState' = [vcState EXCEPT ![p][q] = "CLOSED"]
               /\ disconnect' = [disconnect EXCEPT ![p][q] = TRUE]
        <4> HIDE DEF n2
        <4> QED BY <1>13, <3>1 DEF PktHandler_Close
      <3> QED BY <1>11, <3>2 DEF Terminated
    <2>1. /\ \/ n2 = 0 /\ vcState'[p][q] = "INACTIVE" /\ disconnect'[p][q] = x.deferred
             \/ n2 # 0 /\ vcState'[p][q] = "CLOSED" /\ disconnect'[p][q] = TRUE
          /\ \A i, j \in Procs : ~(i = p /\ j = q) =>
                vcState'[i][j] = vcState[i][j] /\ disconnect'[i][j] = disconnect[i][j]
      <3>1. CASE n2 = 0 /\ vcState' = [vcState EXCEPT ![p][q] = "INACTIVE"] /\ UNCHANGED disconnect
        BY <1>5, <3>1, PutPair DEF End
      <3>2. CASE /\ n2 # 0 /\ vcState' = [vcState EXCEPT ![p][q] = "CLOSED"]
                 /\ disconnect' = [disconnect EXCEPT ![p][q] = TRUE]
        BY <1>5, <3>2, PutPair
      <3> QED BY <2>0, <3>1, <3>2
    <2>3. AckStep(x, x2, n2)
      BY <1>1, <1>2, <1>8, <1>9, <2>1 DEF Becomes, End, AckStep
    <2>4. Takes(y, y2, "CloseAck")
      BY <1>10, <1>13, <2>1
    <2>5. \A i, j \in Procs : ~(i = p /\ j = q) /\ ~(i = q /\ j = p) => End(i, j)' = End(i, j)
      BY <1>1, <1>8, <1>9, <2>1 DEF End
    <2>6. x.state = vcState[p][q] /\ n2 = Pending(x, c)
      BY DEF End
    <2> HIDE DEF x, y, x2, y2, n2, c
    <2>7. /\ Stage(x2, y2, near) /\ Counts(x2) /\ Counts(y2)
          /\ x.state \in {"LOCAL_CLOSE", "CLOSE_ACKED"}
      BY <1>2, <1>3, <1>4, <2>3, <2>4, <2>6, GetsAck
    <2>8. \A i, j \in Procs : i # j /\ ~(i = p /\ j = q) /\ ~(i = q /\ j = p)
             => Later(End(i, j), End(i, j)')
      BY <2>5 DEF Later
    <2>9. PairsInv'
      BY <2>7, <2>8, PairStep DEF x, y, x2, y2
    <2> QED BY <1>13, <2>6, <2>7, <2>9 DEF Fits
  <1> QED BY <1>12, <1>13
-----------------------------------------------------------------------------
(* Whose turn it is in a loop. *)

\* The loop takes the peers in the order of their distance, never the process itself.
LEMMA Wraps ==
    ASSUME NEW n \in Nat, n > 1, NEW p \in 0 .. n - 1, NEW t \in 1 .. n - 1
    PROVE  (p + t) % n = IF p + t < n THEN p + t ELSE p + t - n
  <1> DEFINE s == p + t  d == s \div n  m == s % n
  <1>1. s \in Nat /\ s < 2 * n
    OBVIOUS
  <1>2. s \in Int /\ n \in Int /\ n > 0
    OBVIOUS
  <1> HIDE DEF s
  <1>3. d \in Int /\ m \in 0 .. n - 1 /\ s = n * d + m
    BY <1>2
  <1> HIDE DEF d, m
  <1>4. d = 0 \/ d = 1
    <2>1. CASE d >= 2
      <3>1. n * d >= n * 2
        BY <1>3, <2>1
      <3> QED BY <1>1, <1>3, <3>1
    <2>2. CASE d <= -1
      <3>1. n * d <= -n
        BY <1>3, <2>2
      <3> QED BY <1>1, <1>3, <3>1
    <2> QED BY <2>1, <2>2, <1>3
  <1>5. m = IF s < n THEN s ELSE s - n
    BY <1>1, <1>3, <1>4
  <1> QED BY <1>5 DEF s, m

LEMMA CurrentPeer ==
    ASSUME Types, NEW p \in Procs, ~LoopDone(p)
    PROVE  /\ Current(p) \in Procs \ {p} /\ Distance(p, Current(p)) = turn[p]
           /\ turn[p] \in 1 .. NumProcs - 1
           /\ \A q \in Procs : q # p /\ Distance(p, q) = turn[p] => q = Current(p)
  <1>1. turn[p] \in 1 .. NumProcs - 1 /\ NumProcs \in Nat /\ NumProcs > 1
    BY PairsAssumption DEF Types, LoopDone
  <1>2. p \in 0 .. NumProcs - 1
    BY DEF Procs
  <1>3. Current(p) = IF p + turn[p] < NumProcs THEN p + turn[p] ELSE p + turn[p] - NumProcs
    BY <1>1, <1>2, Wraps DEF Current
  <1> QED BY <1>1, <1>2, <1>3 DEF Procs, Distance

\* The distances from a process are those its loops take.
LEMMA Distances ==
    ASSUME NEW p \in Procs, NEW q \in Procs, p # q
    PROVE  Distance(p, q) \in 1 .. NumProcs - 1
  BY PairsAssumption DEF Procs, Distance
-----------------------------------------------------------------------------
(* What the programs and the loops do. *)

\* SendClose and the handler of CLOSE packets keep the types.
LEMMA SendCloseTypes ==
    ASSUME Types, NEW p \in Procs, NEW q \in Procs, SendClose(p, q)
    PROVE  /\ vcState' \in PerPair(States) /\ closeOps' \in [Procs -> Int]
           /\ uncompleted' \in PerPair(Nat) /\ pendingOps' = uncompleted'
           /\ disconnect' = disconnect /\ wire' \in PerPair(Seq(Packets))
  <1>1. CloseKind(vcState[p][q]) \in Packets /\ StateAfterSendClose(vcState[p][q]) \in States
        /\ Counted(p, q) \in Nat
    BY DEF CloseKind, StateAfterSendClose, Packets, States, Counted
  <1>2. wire' \in PerPair(Seq(Packets))
    <2>1. wire[p][q] \in Seq(Packets)
      BY DEF Types, PerPair
    <2>2. Append(wire[p][q], CloseKind(vcState[p][q])) \in Seq(Packets)
      BY <1>1, <2>1
    <2> QED BY <2>2 DEF SendClose, Put, Types, PerPair
  <1>3. vcState' = [vcState EXCEPT ![p][q] = StateAfterSendClose(vcState[p][q])]
    BY DEF SendClose
  <1>4. vcState' \in PerPair(States)
    BY <1>1, <1>3 DEF Types, PerPair
  <1>5. closeOps' \in [Procs -> Int]
    BY DEF SendClose, Types
  <1>6. uncompleted' \in PerPair(Nat)
    BY <1>1 DEF SendClose, Types, PerPair
  <1>7. pendingOps' = uncompleted' /\ disconnect' = disconnect
    BY DEF SendClose, Types
  <1> QED BY <1>2, <1>4, <1>5, <1>6, <1>7

LEMMA TerminatedTypes ==
    ASSUME Types, NEW p \in Procs, NEW q \in Procs, Terminated(p, q)
    PROVE  vcState' \in PerPair(States) /\ closeOps' \in [Procs -> Int]
  BY DEF Types, Terminated, PerPair, States

LEMMA PktCloseTypes ==
    ASSUME Types, NEW p \in Procs, NEW q \in Procs, NEW kind, wire[q][p] # << >>, p # q,
           PktHandler_Close(p, q, kind)
    PROVE  /\ vcState' \in PerPair(States) /\ closeOps' \in [Procs -> Int]
           /\ uncompleted' \in PerPair(Nat) /\ pendingOps' = uncompleted'
           /\ disconnect' \in PerPair(BOOLEAN) /\ wire' \in PerPair(Seq(Packets))
  <1>1. Counted(p, q) \in Nat /\ StateAfterReq(vcState[p][q]) \in States
    BY DEF Counted, StateAfterReq, States
  <1>2. wire' \in PerPair(Seq(Packets))
    <2>1. wire[p][q] \in Seq(Packets) /\ wire[q][p] \in Seq(Packets) /\ "CloseAck" \in Packets
      BY DEF Types, PerPair, Packets
    <2>2. Append(wire[p][q], "CloseAck") \in Seq(Packets) /\ Tail(wire[q][p]) \in Seq(Packets)
      BY <2>1
    <2>3. CASE Answered(vcState[p][q])
      BY <2>1, <2>2, <2>3 DEF PktHandler_Close, Types, PerPair
    <2>4. CASE ~Answered(vcState[p][q])
      BY <2>1, <2>2, <2>4 DEF PktHandler_Close, Types, PerPair
    <2> QED BY <2>3, <2>4
  <1>3. uncompleted' \in PerPair(Nat) /\ pendingOps' = uncompleted'
    <2>1. CASE Answered(vcState[p][q])
      BY <1>1, <2>1 DEF PktHandler_Close, Types, PerPair
    <2>2. CASE ~Answered(vcState[p][q])
      BY <1>1, <2>2 DEF PktHandler_Close, Types, PerPair
    <2> QED BY <2>1, <2>2
  <1>4. \/ vcState' = [vcState EXCEPT ![p][q] = StateAfterReq(vcState[p][q])] /\ UNCHANGED <<closeOps, disconnect>>
        \/ Terminated(p, q) /\ UNCHANGED disconnect
        \/ /\ vcState' = [vcState EXCEPT ![p][q] = "CLOSED"] /\ UNCHANGED closeOps
           /\ disconnect' = [disconnect EXCEPT ![p][q] = TRUE]
    BY DEF PktHandler_Close
  <1>5. /\ vcState' \in PerPair(States) /\ closeOps' \in [Procs -> Int]
        /\ disconnect' \in PerPair(BOOLEAN)
    <2>1. CASE vcState' = [vcState EXCEPT ![p][q] = StateAfterReq(vcState[p][q])]
               /\ UNCHANGED <<closeOps, disconnect>>
      BY <1>1, <2>1 DEF Types, PerPair
    <2>2. CASE Terminated(p, q) /\ UNCHANGED disconnect
      BY <2>2, TerminatedTypes DEF Types
    <2>3. CASE /\ vcState' = [vcState EXCEPT ![p][q] = "CLOSED"] /\ UNCHANGED closeOps
               /\ disconnect' = [disconnect EXCEPT ![p][q] = TRUE]
      <3>1. "CLOSED" \in States
        BY DEF States
      <3> QED BY <2>3, <3>1 DEF Types, PerPair
    <2> QED BY <1>4, <2>1, <2>2, <2>3
  <1> QED BY <1>2, <1>3, <1>5

\* Every step keeps the types.
LEMMA TypesNext ==
    ASSUME Types, [Next]_vars
    PROVE  Types'
  <1>0. CASE UNCHANGED vars
    BY <1>0 DEF vars, vcVars, progVars, Types
  <1>1. ASSUME NEW p \in Procs, Comm_disconnect(p) \/ Finalize(p) \/ EndFlush(p)
        PROVE  Types'
    <2>1. 1 \in 1 .. NumProcs
      BY PairsAssumption
    <2>2. phase' \in [Procs -> Phases] /\ turn' \in [Procs -> 1 .. NumProcs]
          /\ mayDisconnect' \in [Procs -> BOOLEAN] /\ UNCHANGED <<vcVars, sent>>
      BY <1>1, <2>1 DEF Types, Comm_disconnect, Finalize, EndFlush, Phases, progVars
    <2> QED BY <2>2 DEF Types, vcVars
  <1>2. ASSUME NEW p \in Procs, EndLoop(p) \/ WaitForClose(p)
        PROVE  Types'
    <2>1. phase' \in [Procs -> Phases] /\ UNCHANGED <<turn, vcVars, progVars>>
      BY <1>2 DEF Types, EndLoop, WaitForClose, Phases
    <2> QED BY <2>1 DEF Types, vcVars, progVars
  <1>3. ASSUME NEW p \in Procs, VCRT_Release(p) \/ PG_Close_VCs(p)
        PROVE  Types'
    <2>1. ~LoopDone(p) /\ turn' = [turn EXCEPT ![p] = @ + 1] /\ UNCHANGED <<phase, progVars>>
      BY <1>3 DEF VCRT_Release, PG_Close_VCs
    <2>2. Current(p) \in Procs /\ turn[p] + 1 \in 1 .. NumProcs
      BY <2>1, CurrentPeer, PairsAssumption
    <2>3. turn' \in [Procs -> 1 .. NumProcs]
      BY <2>1, <2>2 DEF Types
    <2>4. \/ SendClose(p, Current(p))
          \/ UNCHANGED vcVars
          \/ /\ vcState' = [vcState EXCEPT ![p][Current(p)] = "INACTIVE_CLOSED"]
             /\ UNCHANGED <<closeOps, pendingOps, disconnect, wire, uncompleted>>
      BY <1>3 DEF VCRT_Release, PG_Close_VCs, vcVars
    <2>5. /\ vcState' \in PerPair(States) /\ closeOps' \in [Procs -> Int]
          /\ uncompleted' \in PerPair(Nat) /\ pendingOps' = uncompleted'
          /\ disconnect' = disconnect /\ wire' \in PerPair(Seq(Packets))
      <3>1. CASE SendClose(p, Current(p))
        BY <2>2, <3>1, SendCloseTypes
      <3>2. CASE UNCHANGED vcVars
        BY <3>2 DEF vcVars, Types
      <3>3. CASE /\ vcState' = [vcState EXCEPT ![p][Current(p)] = "INACTIVE_CLOSED"]
                 /\ UNCHANGED <<closeOps, pendingOps, disconnect, wire, uncompleted>>
        <4>1. vcState' \in PerPair(States)
          BY <2>2, <3>3 DEF Types, PerPair, States
        <4> QED BY <3>3, <4>1 DEF Types
      <3> QED BY <2>4, <3>1, <3>2, <3>3
    <2> QED BY <2>1, <2>3, <2>5 DEF Types, progVars
  <1>4. ASSUME NEW p \in Procs, NEW q \in Procs \ {p}, Send(p, q)
        PROVE  Types'
    <2>1. vcState' \in PerPair(States)
      <3>1. vcState' = vcState \/ vcState' = [vcState EXCEPT ![p][q] = "ACTIVE"]
        BY <1>4 DEF Send
      <3>2. "ACTIVE" \in States
        BY DEF States
      <3>3. CASE vcState' = vcState
        BY <3>3 DEF Types
      <3>4. CASE vcState' = [vcState EXCEPT ![p][q] = "ACTIVE"]
        BY <3>2, <3>4 DEF Types, PerPair
      <3> QED BY <3>1, <3>3, <3>4
    <2>2. wire' \in PerPair(Seq(Packets))
      <3>1. wire[p][q] \in Seq(Packets) /\ "Message" \in Packets
        BY DEF Types, PerPair, Packets
      <3>2. Append(wire[p][q], "Message") \in Seq(Packets)
        BY <3>1
      <3> QED BY <1>4, <3>2 DEF Send, Put, Types, PerPair
    <2>3. sent' \subseteq Pairs
      <3>1. <<p, q>> \in Pairs
        BY <1>4, PairsAssumption DEF Send
      <3> QED BY <1>4, <3>1 DEF Send, Types
    <2>4. UNCHANGED <<phase, turn, closeOps, pendingOps, disconnect, uncompleted, mayDisconnect>>
      BY <1>4 DEF Send
    <2> QED BY <2>1, <2>2, <2>3, <2>4 DEF Types
  <1>5. ASSUME NEW p \in Procs, NEW q \in Procs \ {p}, Receive(p, q)
        PROVE  Types'
    <2>1. wire[q][p] # << >> /\ UNCHANGED <<phase, turn, progVars>>
          /\ (Recv_Message(p, q) \/ PktHandler_Close(p, q, Head(wire[q][p])))
      BY <1>5 DEF Receive
    <2>2. CASE Recv_Message(p, q)
      <3>1. vcState' \in PerPair(States)
        <4>1. vcState' = vcState \/ vcState' = [vcState EXCEPT ![p][q] = "ACTIVE"]
          BY <2>2 DEF Recv_Message
        <4>2. "ACTIVE" \in States
          BY DEF States
        <4>3. CASE vcState' = vcState
          BY <4>3 DEF Types
        <4>4. CASE vcState' = [vcState EXCEPT ![p][q] = "ACTIVE"]
          BY <4>2, <4>4 DEF Types, PerPair
        <4> QED BY <4>1, <4>3, <4>4
      <3>2. wire' \in PerPair(Seq(Packets))
        <4>1. Tail(wire[q][p]) \in Seq(Packets)
          BY <2>1 DEF Types, PerPair
        <4> QED BY <2>2, <4>1 DEF Recv_Message, Types, PerPair
      <3>3. UNCHANGED <<closeOps, pendingOps, disconnect, uncompleted>>
        BY <2>2 DEF Recv_Message
      <3> QED BY <2>1, <3>1, <3>2, <3>3 DEF Types, progVars
    <2>3. CASE PktHandler_Close(p, q, Head(wire[q][p]))
      <3>1. /\ vcState' \in PerPair(States) /\ closeOps' \in [Procs -> Int]
            /\ uncompleted' \in PerPair(Nat) /\ pendingOps' = uncompleted'
            /\ disconnect' \in PerPair(BOOLEAN) /\ wire' \in PerPair(Seq(Packets))
        BY <2>1, <2>3, PktCloseTypes
      <3> QED BY <2>1, <3>1 DEF Types, progVars
    <2> QED BY <2>1, <2>2, <2>3
  <1>6. ASSUME NEW p \in Procs, NEW q \in Procs \ {p}, Process_send(p, q)
        PROVE  Types'
    <2>1. uncompleted[p][q] \in Nat /\ uncompleted[p][q] > 0 /\ pendingOps = uncompleted
      BY <1>6 DEF Process_send, Types, PerPair
    <2>2. uncompleted' \in PerPair(Nat) /\ pendingOps' = uncompleted'
      BY <1>6, <2>1 DEF Process_send, Types, PerPair
    <2>3. Terminated(p, q) \/ UNCHANGED <<vcState, closeOps>>
      BY <1>6 DEF Process_send
    <2>4. vcState' \in PerPair(States) /\ closeOps' \in [Procs -> Int]
      BY <2>3, TerminatedTypes DEF Types
    <2>5. UNCHANGED <<phase, turn, disconnect, wire, progVars>>
      BY <1>6 DEF Process_send
    <2> QED BY <2>2, <2>4, <2>5 DEF Types, progVars
  <1> QED BY <1>0, <1>1, <1>2, <1>3, <1>4, <1>5, <1>6 DEF Next

\* A process that has given up the communicator, or finalizes, sends no more.
LEMMA PhasesNext ==
    ASSUME Types, PhasesInv, [Next]_vars
    PROVE  /\ PhasesInv'
           /\ \A i, j \in Procs : NoMoreSends(i, j) => NoMoreSends(i, j)'
  <1> DEFINE Moves(p) == /\ \A i \in Procs \ {p} : phase'[i] = phase[i] /\ mayDisconnect'[i] = mayDisconnect[i]
                         /\ mayDisconnect'[p] \in BOOLEAN /\ (mayDisconnect'[p] => mayDisconnect[p])
                         /\ phase[p] \in Finishing => phase'[p] \in Finishing
                         /\ phase'[p] \in {"disconnecting", "disconnectWait"} => ~mayDisconnect'[p]
  <1>1. UNCHANGED <<phase, mayDisconnect>> \/ \E p \in Procs : Moves(p)
    <2>1. ASSUME NEW p \in Procs, Comm_disconnect(p)
          PROVE  Moves(p)
      BY <2>1 DEF Comm_disconnect, Types, Finishing
    <2>2. ASSUME NEW p \in Procs, Finalize(p)
          PROVE  Moves(p)
      BY <2>2 DEF Finalize, Types, Finishing, progVars
    <2>3. ASSUME NEW p \in Procs, EndLoop(p)
          PROVE  Moves(p)
      BY <2>3 DEF EndLoop, Types, Finishing, progVars, PhasesInv
    <2>4. ASSUME NEW p \in Procs, EndFlush(p)
          PROVE  Moves(p)
      BY <2>4 DEF EndFlush, Types, Finishing, progVars
    <2>5. ASSUME NEW p \in Procs, WaitForClose(p)
          PROVE  Moves(p)
      BY <2>5 DEF WaitForClose, Types, Finishing, progVars
    <2>6. ASSUME NEW p \in Procs,
                 \/ VCRT_Release(p) \/ PG_Close_VCs(p)
                 \/ \E q \in Procs \ {p} : Send(p, q) \/ Receive(p, q) \/ Process_send(p, q)
          PROVE  UNCHANGED <<phase, mayDisconnect>>
      BY <2>6 DEF VCRT_Release, PG_Close_VCs, Send, Receive, Process_send, progVars
    <2>7. CASE UNCHANGED vars
      BY <2>7 DEF vars, progVars
    <2> HIDE DEF Moves
    <2> QED BY <2>1, <2>2, <2>3, <2>4, <2>5, <2>6, <2>7 DEF Next
  <1>2. CASE UNCHANGED <<phase, mayDisconnect>>
    BY <1>2, SameProgram DEF PhasesInv
  <1>3. ASSUME NEW p \in Procs, Moves(p)
        PROVE  PhasesInv' /\ \A i, j \in Procs : NoMoreSends(i, j) => NoMoreSends(i, j)'
    BY <1>3 DEF PhasesInv, NoMoreSends
  <1> QED BY <1>1, <1>2, <1>3

\* What a packet on its way tells of the connection's other end.
LEMMA HeadFits ==
    ASSUME Types, PairsInv
    PROVE  PacketsExpected
  <1> SUFFICES ASSUME NEW p \in Procs, NEW q \in Procs, p # q, wire[q][p] # << >>
               PROVE  Fits(Head(wire[q][p]), vcState[p][q])
    BY DEF PacketsExpected, Fits
  <1> DEFINE x == End(p, q)  y == End(q, p)  near == Near(p, q)
  <1>1. x \in Ends /\ y \in Ends
    BY EndTypes
  <1>2. Stage(x, y, near)
    BY DEF PairsInv
  <1>3. x.state = vcState[p][q] /\ y.wire = wire[q][p]
    BY DEF End
  <1> HIDE DEF x, y, near
  <1>4. PICK w : w = y.wire
    OBVIOUS
  <1>5. PICK m : m = Head(w)
    OBVIOUS
  <1>6. PICK w2 : w2 = Tail(w)
    OBVIOUS
  <1>7. w \in Seq(Packets) /\ w # << >>
    BY <1>1, <1>3, <1>4 DEF Ends
  <1>8. /\ m \in Packets
        /\ m = "Message" => ~OneAck(w)
        /\ m # "Message" =>
              /\ ~Messages(w)
              /\ \A k \in {"CloseReq", "CloseAck"} : EndsIn(w, k) => m = k /\ Len(w) = 1
              /\ EndsInBoth(w) => m = "CloseReq"
              /\ OneAck(w) => m = "CloseAck"
    BY <1>5, <1>6, <1>7, WireShrinks
  <1>9. Fits(m, x.state)
    <2>1. CASE Open(x, y, near)
      BY <1>4, <1>7, <1>8, <2>1 DEF Open, Opens, Connects, Fits, Packets
    <2>2. CASE Crossed(x, y)
      BY <1>4, <1>7, <1>8, <2>2 DEF Crossed, Fits, Packets
    <2>3. CASE BothAcked(x, y)
      BY <1>4, <1>7, <1>8, <2>3 DEF BothAcked, Fits, Packets
    <2>4. CASE Over(x, y)
      BY <1>4, <1>7, <2>4 DEF Over
    <2>5. CASE OneWay(x, y, near)
      BY <1>4, <1>7, <1>8, <2>5 DEF OneWay, Begun, Asked, Answers, LastAck, Opens, Connects, Fits, Packets
    <2>6. CASE OneWay(y, x, near)
      <3>1. CASE Begun(y, x, near)
        <4>1. m # "Message" => m = "CloseReq" /\ Len(w) = 1
          BY <1>4, <1>8, <3>1 DEF Begun
        <4>2. m # "Message" => x.state = "ACTIVE"
          <5>1. Reaches(x, near, Len(w) - 1)
            BY <1>4, <3>1 DEF Begun
          <5>2. SUFFICES ASSUME Len(w) = 1 PROVE x.state = "ACTIVE"
            BY <4>1
          <5>3. ~(Len(w) - 1 >= 1)
            BY <5>2
          <5> QED BY <5>1, <5>3 DEF Reaches
        <4>3. x.state \notin {"REMOTE_CLOSE", "CLOSE_ACKED", "CLOSED"}
          BY <3>1 DEF Begun, Opens
        <4> QED BY <4>1, <4>2, <4>3 DEF Fits
      <3>2. CASE Asked(y, x)
        BY <1>4, <1>7, <3>2 DEF Asked
      <3>3. CASE Answers(y, x)
        BY <1>4, <1>7, <3>3 DEF Answers
      <3>4. CASE LastAck(y, x)
        BY <1>4, <1>7, <1>8, <3>4 DEF LastAck, Fits, Packets
      <3> QED BY <2>6, <3>1, <3>2, <3>3, <3>4 DEF OneWay
    <2> QED BY <1>2, <2>1, <2>2, <2>3, <2>4, <2>5, <2>6 DEF Stage
  <1> QED BY <1>3, <1>4, <1>5, <1>9
-----------------------------------------------------------------------------
(* The stages of all connections. *)

LEMMA LoopKeeps ==
    ASSUME Types, PairsInv, PhasesInv, NEW p \in Procs, VCRT_Release(p) \/ PG_Close_VCs(p), Types'
    PROVE  PairsInv'
  <1> DEFINE q == Current(p)
  <1>1. ~LoopDone(p) /\ UNCHANGED <<phase, progVars>>
    BY DEF VCRT_Release, PG_Close_VCs
  <1>2. q \in Procs /\ p # q
    BY <1>1, CurrentPeer
  <1>4. NoMoreSends(p, q) \/ (phase[p] = "disconnecting" /\ <<p, q>> \notin Dynamic)
    BY DEF VCRT_Release, PG_Close_VCs, NoMoreSends, Finishing, PhasesInv
  <1>5. \/ NoMoreSends(p, q) /\ ToBeClosed(vcState[p][q]) /\ SendClose(p, q)
        \/ NoMoreSends(p, q) /\ vcState[p][q] = "INACTIVE"
           /\ vcState' = [vcState EXCEPT ![p][q] = "INACTIVE_CLOSED"]
           /\ UNCHANGED <<closeOps, pendingOps, disconnect, wire, uncompleted>>
        \/ UNCHANGED vcVars
    BY <1>4 DEF VCRT_Release, PG_Close_VCs, vcVars, NoMoreSends, Finishing
  <1> HIDE DEF q
  <1>6. CASE NoMoreSends(p, q) /\ ToBeClosed(vcState[p][q]) /\ SendClose(p, q)
    BY <1>1, <1>2, <1>6, SendCloseKeeps
  <1>7. CASE /\ NoMoreSends(p, q) /\ vcState[p][q] = "INACTIVE"
             /\ vcState' = [vcState EXCEPT ![p][q] = "INACTIVE_CLOSED"]
             /\ UNCHANGED <<closeOps, pendingOps, disconnect, wire, uncompleted>>
    BY <1>1, <1>2, <1>7, UnusedKeeps
  <1>8. CASE UNCHANGED vcVars
    <2>1. \A i, j \in Procs : NoMoreSends(i, j) => NoMoreSends(i, j)'
      BY <1>1, SameProgram DEF progVars
    <2> QED BY <1>8, <2>1, OnlyStops
  <1> QED BY <1>5, <1>6, <1>7, <1>8

LEMMA PairsNext ==
    ASSUME Types, PairsInv, PhasesInv, [Next]_vars
    PROVE  PairsInv'
  <1>1. Types'
    BY TypesNext
  <1>2. CASE UNCHANGED vcVars
    BY <1>2, PhasesNext, OnlyStops
  <1>3. ASSUME NEW p \in Procs,
               Comm_disconnect(p) \/ Finalize(p) \/ EndLoop(p) \/ EndFlush(p) \/ WaitForClose(p)
        PROVE  UNCHANGED vcVars
    BY <1>3 DEF Comm_disconnect, Finalize, EndLoop, EndFlush, WaitForClose
  <1>4. ASSUME NEW p \in Procs, NEW q \in Procs \ {p}, Receive(p, q)
        PROVE  PairsInv'
    <2>1. wire[q][p] # << >> /\ UNCHANGED <<phase, turn, progVars>>
      BY <1>4 DEF Receive
    <2>2. CASE Head(wire[q][p]) = "Message"
      <3>1. Recv_Message(p, q)
        BY <1>4, <2>2 DEF Receive
      <3> QED BY <1>1, <2>1, <2>2, <3>1, RecvMessageKeeps
    <2>3. CASE Head(wire[q][p]) # "Message"
      <3>1. PktHandler_Close(p, q, Head(wire[q][p]))
        BY <1>4, <2>3 DEF Receive
      <3>2. wire[q][p] \in Seq(Packets)
        BY DEF Types, PerPair
      <3>3. Head(wire[q][p]) \in {"CloseReq", "CloseAck"}
        BY <2>1, <2>3, <3>2 DEF Packets
      <3> QED BY <1>1, <2>1, <3>1, <3>3, PktCloseKeeps
    <2> QED BY <2>2, <2>3
  <1>5. CASE UNCHANGED vars
    BY <1>2, <1>5 DEF vars
  <1> QED BY <1>1, <1>2, <1>3, <1>4, <1>5, LoopKeeps, SendKeeps, ProcessSendKeeps DEF Next

\* Nothing is connected, or what is connected at start-up is on both sides.
LEMMA StartsOpen ==
    ASSUME Init
    PROVE  Types /\ PairsInv /\ PhasesInv
  <1>1. 1 \in 1 .. NumProcs
    BY PairsAssumption
  <1>2. Types
    <2>1. vcState \in PerPair(States)
      BY DEF Init, PerPair, States
    <2>2. /\ phase \in [Procs -> Phases] /\ turn \in [Procs -> 1 .. NumProcs]
          /\ closeOps \in [Procs -> Int]
          /\ sent \subseteq Pairs /\ mayDisconnect \in [Procs -> BOOLEAN]
      BY <1>1 DEF Init, Phases
    <2>3. /\ uncompleted \in PerPair(Nat) /\ pendingOps = uncompleted
          /\ disconnect \in PerPair(BOOLEAN) /\ wire \in PerPair(Seq(Packets))
      BY DEF Init, PerPair, OnAll
    <2> QED BY <2>1, <2>2, <2>3 DEF Types
  <1>3. PhasesInv
    BY DEF Init, PhasesInv
  <1>4. ASSUME NEW p \in Procs, NEW q \in Procs, p # q
        PROVE  Stage(End(p, q), End(q, p), Near(p, q)) /\ Counts(End(p, q))
    <2> DEFINE x == End(p, q)  y == End(q, p)  near == Near(p, q)
    <2>1. /\ x.state = (IF <<p, q>> \in InitActive THEN "ACTIVE" ELSE "INACTIVE")
          /\ x.wire = << >> /\ x.deferred = FALSE /\ x.count = 0
          /\ y.state = (IF <<q, p>> \in InitActive THEN "ACTIVE" ELSE "INACTIVE")
          /\ y.wire = << >> /\ y.deferred = FALSE
      BY DEF Init, End, OnAll
    <2>2. <<p, q>> \in InitActive <=> <<q, p>> \in InitActive
      BY PairsAssumption DEF Symmetric
    <2> HIDE DEF x, y, near
    <2>3. Open(x, y, near)
      BY <2>1, <2>2, NothingSent DEF Open, Opens, Connects, Reaches
    <2>4. Counts(x)
      BY <2>1 DEF Counts, Closing
    <2> QED BY <2>3, <2>4 DEF x, y, near, Stage
  <1> QED BY <1>2, <1>3, <1>4 DEF PairsInv

\* However the closes of the two ends cross, whatever the program sends, the two ends of
\* every connection are at one of the stages.
THEOREM StagesOfClosing == Spec => [](Types /\ PairsInv /\ PhasesInv)
  <1>1. Types /\ PairsInv /\ PhasesInv /\ [Next]_vars => Types' /\ PairsInv' /\ PhasesInv'
    BY TypesNext, PairsNext, PhasesNext
  <1> QED BY <1>1, StartsOpen, PTL DEF Spec

\* MPIDI_CH3_PktHandler_Close never meets a connection in a state it does not expect, and
\* no message arrives on one whose other end has begun to close it.
THEOREM PacketsAlwaysExpected == Spec => []PacketsExpected
  BY StagesOfClosing, HeadFits, PTL
-----------------------------------------------------------------------------
(* MPIDI_Outstanding_close_ops *)

\* The state of p's connection with q becomes s, and closeOps follows.
Weight(s) == IF Closing(s) THEN 1 ELSE 0
Changes(p, q, s) ==
    /\ vcState' = [vcState EXCEPT ![p][q] = s]
    /\ closeOps' = [closeOps EXCEPT ![p] = @ + Weight(s) - Weight(vcState[p][q])]

LEMMA FewProcs == ASSUME NEW p \in Procs
                  PROVE  IsFiniteSet(Procs \ {p}) /\ Cardinality(Procs \ {p}) = NumProcs - 1
  <1>1. 0 \in Int /\ NumProcs - 1 \in Int /\ NumProcs \in Nat /\ NumProcs > 1
    BY PairsAssumption
  <1>2. IsFiniteSet(Procs) /\ Cardinality(Procs) = NumProcs
    <2>1. IsFiniteSet(0 .. NumProcs - 1) /\ Cardinality(0 .. NumProcs - 1) =
             IF 0 > NumProcs - 1 THEN 0 ELSE (NumProcs - 1) - 0 + 1
      BY ONLY <1>1, FS_Interval
    <2> QED BY <1>1, <2>1 DEF Procs
  <1> QED BY <1>2, FS_RemoveElement

LEMMA BeginsFinite ==
    ASSUME NEW p \in Procs
    PROVE  /\ IsFiniteSet(Begins(p)) /\ Cardinality(Begins(p)) \in 0 .. NumProcs - 1
           /\ Cardinality(Begins(p)) = 0 => Begins(p) = {}
  <1>1. Begins(p) \subseteq Procs \ {p}
    BY DEF Begins
  <1>2. IsFiniteSet(Begins(p)) /\ Cardinality(Begins(p)) <= NumProcs - 1
    <2>1. PICK S : S = Procs \ {p}
      OBVIOUS
    <2>2. PICK T : T = Begins(p)
      OBVIOUS
    <2>3. IsFiniteSet(S) /\ Cardinality(S) = NumProcs - 1 /\ T \in SUBSET S
      BY <1>1, <2>1, <2>2, FewProcs
    <2>4. IsFiniteSet(T) /\ Cardinality(T) <= Cardinality(S)
      BY ONLY <2>3, FS_Subset
    <2> QED BY <2>2, <2>3, <2>4
  <1>3. Cardinality(Begins(p)) \in Nat
    BY <1>2, FS_CardinalityType
  <1>4. Cardinality(Begins(p)) = 0 <=> Begins(p) = {}
    BY <1>2, FS_EmptySet
  <1> QED BY <1>2, <1>3, <1>4, PairsAssumption

LEMMA ChangesCount ==
    ASSUME Types, \A i \in Procs : closeOps[i] = Cardinality(Begins(i)),
           NEW p \in Procs, NEW q \in Procs, p # q, NEW s \in States, Changes(p, q, s)
    PROVE  \A i \in Procs : closeOps'[i] = Cardinality(Begins(i)')
  <1> DEFINE b == Begins(p)  b2 == Begins(p)'
  <1>1. vcState \in [Procs -> [Procs -> States]] /\ closeOps \in [Procs -> Int]
    BY DEF Types, PerPair
  <1>2. vcState'[p][q] = s /\ \A i, j \in Procs : ~(i = p /\ j = q) => vcState'[i][j] = vcState[i][j]
    BY <1>1, PutPair DEF Changes
  <1>3. \A i \in Procs : i # p => closeOps'[i] = closeOps[i] /\ Begins(i)' = Begins(i)
    BY <1>1, <1>2 DEF Changes, Begins
  <1>4. closeOps'[p] = closeOps[p] + Weight(s) - Weight(vcState[p][q])
    BY <1>1 DEF Changes
  <1>5. IsFiniteSet(b) /\ Cardinality(b) \in Int
    BY BeginsFinite
  <1>6. closeOps[p] = Cardinality(b)
    OBVIOUS
  <1>7. closeOps'[p] = Cardinality(b2)
    <2>1. CASE Closing(s) /\ Closing(vcState[p][q])
      <3>1. b2 = b
        BY <1>2, <2>1 DEF Begins
      <3> QED BY <1>4, <1>5, <1>6, <2>1, <3>1 DEF Weight
    <2>2. CASE Closing(s) /\ ~Closing(vcState[p][q])
      <3>1. b2 = b \cup {q} /\ q \notin b
        BY <1>2, <2>2 DEF Begins
      <3> HIDE DEF b, b2
      <3>2. Cardinality(b2) = Cardinality(b) + 1
        BY <1>5, <3>1, FS_AddElement
      <3> QED BY <1>4, <1>5, <1>6, <2>2, <3>2 DEF Weight
    <2>3. CASE ~Closing(s) /\ Closing(vcState[p][q])
      <3>1. b2 = b \ {q} /\ q \in b
        BY <1>2, <2>3 DEF Begins
      <3> HIDE DEF b, b2
      <3>2. Cardinality(b2) = Cardinality(b) - 1
        BY <1>5, <3>1, FS_RemoveElement
      <3> QED BY <1>4, <1>5, <1>6, <2>3, <3>2 DEF Weight
    <2>4. CASE ~Closing(s) /\ ~Closing(vcState[p][q])
      <3>1. b2 = b
        BY <1>2, <2>4 DEF Begins
      <3> QED BY <1>4, <1>5, <1>6, <2>4, <3>1 DEF Weight
    <2> QED BY <2>1, <2>2, <2>3, <2>4
  <1> QED BY <1>3, <1>7

\* A close that is begun counts one, one that is terminated counts one less, and nothing
\* else does.
LEMMA StateSteps ==
    ASSUME Types, PairsInv, [Next]_vars
    PROVE  \/ UNCHANGED <<vcState, closeOps>>
           \/ \E p, q \in Procs : p # q /\ \E s \in States : Changes(p, q, s)
  <1> DEFINE Some == \E p, q \in Procs : p # q /\ \E s \in States : Changes(p, q, s)
  <1>1. \A p \in Procs : closeOps[p] \in Int
    BY DEF Types
  <1>2. ASSUME NEW p \in Procs, NEW q \in Procs, p # q, NEW s \in States,
               vcState' = [vcState EXCEPT ![p][q] = s], UNCHANGED closeOps,
               Closing(s) <=> Closing(vcState[p][q])
        PROVE  Some
    <2>1. closeOps' = [closeOps EXCEPT ![p] = @ + Weight(s) - Weight(vcState[p][q])]
      <3>1. closeOps \in [Procs -> Int] /\ closeOps[p] + Weight(s) - Weight(vcState[p][q]) = closeOps[p]
        BY <1>2 DEF Types, Weight
      <3> QED BY <1>2, <3>1
    <2>2. Changes(p, q, s)
      BY <1>2, <2>1 DEF Changes
    <2> QED BY <1>2, <2>2
  <1>3. ASSUME NEW p \in Procs, NEW q \in Procs, p # q, Closing(vcState[p][q]), Terminated(p, q)
        PROVE  Some
    <2>1. Weight(vcState[p][q]) = 1 /\ Weight("INACTIVE") = 0 /\ "INACTIVE" \in States
      BY <1>3 DEF Weight, Closing, States
    <2>2. closeOps' = [closeOps EXCEPT ![p] = @ + Weight("INACTIVE") - Weight(vcState[p][q])]
      <3>1. closeOps[p] + Weight("INACTIVE") - Weight(vcState[p][q]) = closeOps[p] - 1
        BY <1>1, <2>1
      <3> QED BY <1>3, <3>1 DEF Terminated
    <2>3. Changes(p, q, "INACTIVE")
      BY <1>3, <2>2 DEF Changes, Terminated
    <2> QED BY <1>3, <2>1, <2>3
  <1>4. ASSUME NEW p \in Procs, NEW q \in Procs, p # q, ToBeClosed(vcState[p][q]), SendClose(p, q)
        PROVE  Some
    <2> DEFINE s == StateAfterSendClose(vcState[p][q])
    <2>1. Weight(vcState[p][q]) = 0 /\ Weight(s) = 1 /\ s \in States
      BY <1>4 DEF Weight, Closing, States, StateAfterSendClose, ToBeClosed
    <2>2. vcState' = [vcState EXCEPT ![p][q] = s] /\ closeOps' = [closeOps EXCEPT ![p] = @ + 1]
      BY <1>4 DEF SendClose
    <2> HIDE DEF s
    <2>3. closeOps' = [closeOps EXCEPT ![p] = @ + Weight(s) - Weight(vcState[p][q])]
      BY <1>1, <2>1, <2>2 DEF Types
    <2>4. Changes(p, q, s)
      BY <2>2, <2>3 DEF Changes
    <2> QED BY <1>4, <2>1, <2>4
  <1>5. PacketsExpected
    BY HeadFits
  <1> HIDE DEF Some
  <1>6. ASSUME NEW p \in Procs, VCRT_Release(p) \/ PG_Close_VCs(p)
        PROVE  UNCHANGED <<vcState, closeOps>> \/ Some
    <2> DEFINE q == Current(p)
    <2>1. q \in Procs /\ p # q
      BY <1>6, CurrentPeer DEF VCRT_Release, PG_Close_VCs
    <2>2. \/ ToBeClosed(vcState[p][q]) /\ SendClose(p, q)
          \/ /\ vcState[p][q] = "INACTIVE" /\ UNCHANGED closeOps
             /\ vcState' = [vcState EXCEPT ![p][q] = "INACTIVE_CLOSED"]
          \/ UNCHANGED <<vcState, closeOps>>
      BY <1>6 DEF VCRT_Release, PG_Close_VCs, vcVars
    <2> HIDE DEF q
    <2>3. "INACTIVE_CLOSED" \in States /\ ~Closing("INACTIVE_CLOSED") /\ ~Closing("INACTIVE")
      BY DEF States, Closing
    <2> QED BY <1>2, <1>4, <2>1, <2>2, <2>3
  <1>7. ASSUME NEW p \in Procs, NEW q \in Procs \ {p}, Send(p, q)
        PROVE  UNCHANGED <<vcState, closeOps>> \/ Some
    <2>1. UNCHANGED closeOps /\ \/ UNCHANGED vcState
                                \/ vcState[p][q] = "INACTIVE" /\ vcState' = [vcState EXCEPT ![p][q] = "ACTIVE"]
      BY <1>7 DEF Send
    <2>2. "ACTIVE" \in States /\ ~Closing("ACTIVE") /\ ~Closing("INACTIVE")
      BY DEF States, Closing
    <2> QED BY <1>2, <2>1, <2>2
  <1>8. ASSUME NEW p \in Procs, NEW q \in Procs \ {p}, Receive(p, q)
        PROVE  UNCHANGED <<vcState, closeOps>> \/ Some
    <2>1. CASE Recv_Message(p, q)
      <3>1. UNCHANGED closeOps /\ \/ UNCHANGED vcState
                                  \/ /\ vcState[p][q] \in {"INACTIVE", "INACTIVE_CLOSED"}
                                     /\ vcState' = [vcState EXCEPT ![p][q] = "ACTIVE"]
        BY <2>1 DEF Recv_Message
      <3>2. /\ "ACTIVE" \in States /\ ~Closing("ACTIVE")
            /\ vcState[p][q] \in {"INACTIVE", "INACTIVE_CLOSED"} => ~Closing(vcState[p][q])
        BY DEF States, Closing
      <3> QED BY <1>2, <3>1, <3>2
    <2>2. CASE Head(wire[q][p]) # "Message"
      <3> DEFINE s == StateAfterReq(vcState[p][q])
      <3>1. wire[q][p] # << >> /\ PktHandler_Close(p, q, Head(wire[q][p]))
        BY <1>8, <2>2 DEF Receive
      <3>2. \/ /\ Head(wire[q][p]) = "CloseReq" /\ UNCHANGED closeOps
               /\ vcState' = [vcState EXCEPT ![p][q] = s]
            \/ Head(wire[q][p]) = "CloseAck" /\ Terminated(p, q)
            \/ /\ Head(wire[q][p]) = "CloseAck" /\ UNCHANGED closeOps
               /\ vcState' = [vcState EXCEPT ![p][q] = "CLOSED"]
        BY <3>1 DEF PktHandler_Close
      <3>3. /\ Head(wire[q][p]) = "CloseReq" => s \in States /\ (Closing(s) <=> Closing(vcState[p][q]))
            /\ Head(wire[q][p]) = "CloseAck" => Closing(vcState[p][q])
            /\ Closing("CLOSED") /\ "CLOSED" \in States
        BY <1>5, <3>1 DEF PacketsExpected, StateAfterReq, Closing, States
      <3> HIDE DEF s
      <3> QED BY <1>2, <1>3, <3>2, <3>3
    <2>3. Recv_Message(p, q) \/ Head(wire[q][p]) # "Message"
      BY <1>8 DEF Receive
    <2> QED BY <2>1, <2>2, <2>3
  <1>9. ASSUME NEW p \in Procs, NEW q \in Procs \ {p}, Process_send(p, q)
        PROVE  UNCHANGED <<vcState, closeOps>> \/ Some
    <2>1. UNCHANGED <<vcState, closeOps>> \/ (vcState[p][q] = "CLOSED" /\ Terminated(p, q))
      BY <1>9, TypesNext, ProcessSendKeeps
    <2>2. Closing("CLOSED")
      BY DEF Closing
    <2> QED BY <1>3, <2>1, <2>2
  <1>10. ASSUME \/ UNCHANGED vars
                \/ \E p \in Procs : Comm_disconnect(p) \/ Finalize(p) \/ EndLoop(p) \/ EndFlush(p)
                                    \/ WaitForClose(p)
         PROVE  UNCHANGED <<vcState, closeOps>>
    BY <1>10 DEF vars, vcVars, Comm_disconnect, Finalize, EndLoop, EndFlush, WaitForClose
  <1>11. UNCHANGED <<vcState, closeOps>> \/ Some
    BY <1>6, <1>7, <1>8, <1>9, <1>10 DEF Next
  <1> QED BY <1>11 DEF Some

\* A process sends nothing to itself.
LEMMA OpsNext ==
    ASSUME Types, PairsInv, OpsInv, [Next]_vars
    PROVE  OpsInv'
  <1> DEFINE Idle == \A i \in Procs : uncompleted'[i][i] = uncompleted[i][i] /\ wire'[i][i] = wire[i][i]
  <1>1. \A i \in Procs : closeOps'[i] = Cardinality(Begins(i)')
    <2>1. \A i \in Procs : closeOps[i] = Cardinality(Begins(i))
      BY DEF OpsInv
    <2>2. CASE UNCHANGED <<vcState, closeOps>>
      BY <2>1, <2>2 DEF Begins
    <2>3. CASE \E p, q \in Procs : p # q /\ \E s \in States : Changes(p, q, s)
      BY <2>1, <2>3, ChangesCount
    <2> QED BY <2>2, <2>3, StateSteps
  <1>2. wire \in [Procs -> [Procs -> Seq(Packets)]] /\ uncompleted \in [Procs -> [Procs -> Nat]]
    BY DEF Types, PerPair
  <1>3. Idle
    <2>1. ASSUME NEW p \in Procs, NEW q \in Procs, p # q, SendClose(p, q)
          PROVE  Idle
      BY <1>2, <2>1 DEF SendClose, Put
    <2>2. ASSUME NEW p \in Procs, VCRT_Release(p) \/ PG_Close_VCs(p)
          PROVE  Idle
      <3>1. Current(p) \in Procs /\ p # Current(p)
        BY <2>2, CurrentPeer DEF VCRT_Release, PG_Close_VCs
      <3>2. SendClose(p, Current(p)) \/ UNCHANGED <<wire, uncompleted>>
        BY <2>2 DEF VCRT_Release, PG_Close_VCs, vcVars
      <3> QED BY <2>1, <3>1, <3>2
    <2>3. ASSUME NEW p \in Procs, NEW q \in Procs \ {p}, Send(p, q)
          PROVE  Idle
      BY <1>2, <2>3 DEF Send, Put
    <2>4. ASSUME NEW p \in Procs, NEW q \in Procs \ {p}, Receive(p, q)
          PROVE  Idle
      <3>1. CASE Recv_Message(p, q)
        BY <1>2, <3>1 DEF Recv_Message
      <3>2. CASE PktHandler_Close(p, q, Head(wire[q][p]))
        <4>1. \A i \in Procs : wire'[i][i] = wire[i][i]
          BY <1>2, <3>2 DEF PktHandler_Close
        <4>2. \A i \in Procs : uncompleted'[i][i] = uncompleted[i][i]
          BY <1>2, <3>2 DEF PktHandler_Close
        <4> QED BY <4>1, <4>2
      <3> QED BY <2>4, <3>1, <3>2 DEF Receive
    <2>5. ASSUME NEW p \in Procs, NEW q \in Procs \ {p}, Process_send(p, q)
          PROVE  Idle
      BY <1>2, <2>5 DEF Process_send
    <2>6. ASSUME \/ UNCHANGED vars
                 \/ \E p \in Procs : Comm_disconnect(p) \/ Finalize(p) \/ EndLoop(p) \/ EndFlush(p)
                                     \/ WaitForClose(p)
          PROVE  Idle
      BY <2>6 DEF vars, vcVars, Comm_disconnect, Finalize, EndLoop, EndFlush, WaitForClose
    <2> HIDE DEF Idle
    <2> QED BY <2>2, <2>3, <2>4, <2>5, <2>6 DEF Next
  <1> QED BY <1>1, <1>3 DEF OpsInv

LEMMA OpsInit == ASSUME Init PROVE OpsInv
  <1>1. ASSUME NEW p \in Procs
        PROVE  closeOps[p] = Cardinality(Begins(p)) /\ uncompleted[p][p] = 0 /\ wire[p][p] = << >>
    <2>1. \A q \in Procs : vcState[p][q] \in {"ACTIVE", "INACTIVE"}
      BY DEF Init
    <2>2. Begins(p) = {}
      BY <2>1 DEF Begins, Closing
    <2>3. Cardinality({}) = 0
      BY FS_EmptySet
    <2>4. closeOps[p] = 0 /\ uncompleted[p][p] = 0 /\ wire[p][p] = << >>
      BY DEF Init, OnAll
    <2> QED BY <2>2, <2>3, <2>4
  <1> QED BY <1>1 DEF OpsInv

\* MPIDI_Outstanding_close_ops is at any time the number of closes that the process has
\* begun and that are not terminated: the end of MPIDI_CH3U_VC_WaitForClose is neither
\* early nor lost.
THEOREM OpsCountCloses == Spec => []OpsInv
  <1>1. (Types /\ PairsInv /\ PhasesInv) /\ OpsInv /\ [Next]_vars => OpsInv'
    BY OpsNext
  <1>2. Init => OpsInv
    BY OpsInit
  <1> QED BY <1>1, <1>2, StagesOfClosing, PTL DEF Spec

\* At most as many closes are outstanding as there are peers, and at most two CLOSE packets
\* of one end.
THEOREM TypeCorrect == Spec => []TypeOK
  <1>1. Types /\ PairsInv /\ PhasesInv /\ OpsInv => TypeOK
    <2> SUFFICES ASSUME Types, PairsInv, PhasesInv, OpsInv PROVE TypeOK
      OBVIOUS
    <2>1. closeOps \in [Procs -> 0 .. NumProcs - 1]
      BY BeginsFinite DEF Types, OpsInv
    <2>2. \A p, q \in Procs : uncompleted[p][q] \in 0 .. 2
      <3> SUFFICES ASSUME NEW p \in Procs, NEW q \in Procs PROVE uncompleted[p][q] \in 0 .. 2
        OBVIOUS
      <3>1. uncompleted[p][q] \in Nat
        BY DEF Types, PerPair
      <3>2. CASE p = q
        BY <3>2 DEF OpsInv
      <3>3. CASE p # q
        <4>1. uncompleted[p][q] <= 2
          BY <3>3 DEF PairsInv, Counts, End
        <4> QED BY <3>1, <4>1
      <3> QED BY <3>2, <3>3
    <2>3. uncompleted \in PerPair(0 .. 2)
      BY <2>2 DEF Types, PerPair
    <2> QED BY <2>1, <2>3 DEF Types, TypeOK
  <1> QED BY <1>1, StagesOfClosing, OpsCountCloses, PTL
-----------------------------------------------------------------------------
(* The end of MPID_Finalize, when all that is sent is received. *)

NoMessage(w) == \A i \in 1 .. Len(w) : w[i] # "Message"

LEMMA NoMessageKeeps ==
    ASSUME NEW w \in Seq(Packets), NoMessage(w)
    PROVE  /\ w # << >> => NoMessage(Tail(w)) /\ Head(w) # "Message"
           /\ \A m \in Packets \ {"Message"} : NoMessage(Append(w, m))
  BY DEF NoMessage

\* Only Send puts a message on a wire.
LEMMA WireSteps ==
    ASSUME Types, [Next]_vars, NEW p \in Procs, NEW q \in Procs, p # q
    PROVE  \/ wire'[p][q] = wire[p][q]
           \/ wire[p][q] # << >> /\ wire'[p][q] = Tail(wire[p][q])
           \/ \E m \in Packets \ {"Message"} : wire'[p][q] = Append(wire[p][q], m)
           \/ Send(p, q)
  <1> DEFINE Fine == \/ wire'[p][q] = wire[p][q]
                     \/ wire[p][q] # << >> /\ wire'[p][q] = Tail(wire[p][q])
                     \/ \E m \in Packets \ {"Message"} : wire'[p][q] = Append(wire[p][q], m)
                     \/ Send(p, q)
  <1>1. wire \in [Procs -> [Procs -> Seq(Packets)]]
    BY DEF Types, PerPair
  <1>2. ASSUME NEW i \in Procs, NEW j \in Procs, i # j, SendClose(i, j)
        PROVE  Fine
    <2>1. CloseKind(vcState[i][j]) \in Packets \ {"Message"}
      BY DEF CloseKind, Packets
    <2>2. wire' = [wire EXCEPT ![i][j] = Append(wire[i][j], CloseKind(vcState[i][j]))]
      BY <1>1, <1>2 DEF SendClose, Put
    <2>3. PICK v : v = Append(wire[i][j], CloseKind(vcState[i][j]))
      OBVIOUS
    <2>4. wire'[i][j] = v /\ \A k, l \in Procs : ~(k = i /\ l = j) => wire'[k][l] = wire[k][l]
      BY <1>1, <2>2, <2>3, PutPair
    <2> QED BY <2>1, <2>3, <2>4
  <1>3. ASSUME NEW i \in Procs, VCRT_Release(i) \/ PG_Close_VCs(i)
        PROVE  Fine
    <2>1. Current(i) \in Procs /\ i # Current(i)
      BY <1>3, CurrentPeer DEF VCRT_Release, PG_Close_VCs
    <2>2. SendClose(i, Current(i)) \/ UNCHANGED wire
      BY <1>3 DEF VCRT_Release, PG_Close_VCs, vcVars
    <2> QED BY <1>2, <2>1, <2>2
  <1>4. ASSUME NEW i \in Procs, NEW j \in Procs \ {i}, Send(i, j)
        PROVE  Fine
    <2>1. CASE i = p /\ j = q
      BY <1>4, <2>1
    <2>2. CASE ~(i = p /\ j = q)
      <3>1. wire'[p][q] = wire[p][q]
        BY <1>1, <1>4, <2>2 DEF Send, Put
      <3> QED BY <3>1
    <2> QED BY <2>1, <2>2
  <1>5. ASSUME NEW i \in Procs, NEW j \in Procs \ {i}, Receive(i, j)
        PROVE  Fine
    <2>1. wire[j][i] # << >>
      BY <1>5 DEF Receive
    <2>2. CASE Recv_Message(i, j)
      <3>1. CASE j = p /\ i = q
        BY <1>1, <2>1, <2>2, <3>1 DEF Recv_Message
      <3>2. CASE ~(j = p /\ i = q)
        <4>1. wire'[p][q] = wire[p][q]
          BY <1>1, <2>2, <3>2 DEF Recv_Message
        <4> QED BY <4>1
      <3> QED BY <3>1, <3>2
    <2>3. CASE PktHandler_Close(i, j, Head(wire[j][i]))
      <3>1. PICK a : a = Tail(wire[j][i])
        OBVIOUS
      <3>2. PICK b : b = IF Answered(vcState[i][j]) THEN Append(wire[i][j], "CloseAck") ELSE wire[i][j]
        OBVIOUS
      <3>3. wire' = [wire EXCEPT ![j][i] = a, ![i][j] = b]
        <4>1. CASE Answered(vcState[i][j])
          BY <1>1, <2>3, <3>1, <3>2, <4>1 DEF PktHandler_Close
        <4>2. CASE ~Answered(vcState[i][j])
          BY <1>1, <2>3, <3>1, <3>2, <4>2 DEF PktHandler_Close
        <4> QED BY <4>1, <4>2
      <3>4. /\ wire'[j][i] = a /\ wire'[i][j] = b
            /\ \A k, l \in Procs : ~(k = i /\ l = j) /\ ~(k = j /\ l = i) => wire'[k][l] = wire[k][l]
        BY <1>1, <3>3, PutTwo
      <3>5. CASE j = p /\ i = q
        BY <2>1, <3>1, <3>4, <3>5
      <3>6. CASE i = p /\ j = q
        <4>1. "CloseAck" \in Packets \ {"Message"}
          BY DEF Packets
        <4> QED BY <3>2, <3>4, <3>6, <4>1
      <3>7. CASE ~(i = p /\ j = q) /\ ~(j = p /\ i = q)
        BY <3>4, <3>7
      <3> QED BY <3>5, <3>6, <3>7
    <2> QED BY <1>5, <2>2, <2>3 DEF Receive
  <1>6. ASSUME NEW i \in Procs, NEW j \in Procs \ {i}, Process_send(i, j)
        PROVE  Fine
    BY <1>6 DEF Process_send
  <1>7. ASSUME \/ UNCHANGED vars
               \/ \E i \in Procs : Comm_disconnect(i) \/ Finalize(i) \/ EndLoop(i) \/ EndFlush(i)
                                   \/ WaitForClose(i)
        PROVE  Fine
    BY <1>7 DEF vars, vcVars, Comm_disconnect, Finalize, EndLoop, EndFlush, WaitForClose
  <1> HIDE DEF Fine
  <1>8. Fine
    BY <1>3, <1>4, <1>5, <1>6, <1>7 DEF Next
  <1> QED BY <1>8 DEF Fine

\* How the main thread of a process moves on.
LEMMA PhaseSteps ==
    ASSUME Types, [Next]_vars, NEW p \in Procs
    PROVE  \/ phase'[p] = phase[p]
           \/ phase'[p] \notin Finishing \cup {"done"}
           \/ Finalize(p) /\ phase'[p] \in {"releasing", "flush"}
           \/ EndLoop(p) /\ phase[p] = "releasing" /\ phase'[p] = "flush"
           \/ EndLoop(p) /\ phase[p] = "closing" /\ phase'[p] = "closeWait" /\ turn[p] = NumProcs
           \/ EndFlush(p) /\ phase[p] = "flush" /\ phase'[p] = "closing" /\ turn'[p] = 1
           \/ phase[p] = "closeWait" /\ phase'[p] = "done" /\ closeOps[p] = 0 /\ UNCHANGED vcVars
  <1> DEFINE Fine == \/ phase'[p] = phase[p]
                     \/ phase'[p] \notin Finishing \cup {"done"}
                     \/ Finalize(p) /\ phase'[p] \in {"releasing", "flush"}
                     \/ EndLoop(p) /\ phase[p] = "releasing" /\ phase'[p] = "flush"
                     \/ EndLoop(p) /\ phase[p] = "closing" /\ phase'[p] = "closeWait" /\ turn[p] = NumProcs
                     \/ EndFlush(p) /\ phase[p] = "flush" /\ phase'[p] = "closing" /\ turn'[p] = 1
                     \/ phase[p] = "closeWait" /\ phase'[p] = "done" /\ closeOps[p] = 0 /\ UNCHANGED vcVars
  <1>1. phase \in [Procs -> Phases] /\ turn \in [Procs -> 1 .. NumProcs]
    BY DEF Types
  <1>2. ASSUME NEW i \in Procs, i # p,
               Comm_disconnect(i) \/ Finalize(i) \/ EndLoop(i) \/ EndFlush(i) \/ WaitForClose(i)
        PROVE  Fine
    <2>1. phase'[p] = phase[p]
      BY <1>1, <1>2 DEF Comm_disconnect, Finalize, EndLoop, EndFlush, WaitForClose
    <2> QED BY <2>1
  <1>3. ASSUME Comm_disconnect(p) PROVE Fine
    BY <1>1, <1>3 DEF Comm_disconnect, Finishing
  <1>4. ASSUME Finalize(p) PROVE Fine
    <2>1. phase'[p] \in {"releasing", "flush"}
      BY <1>1, <1>4 DEF Finalize
    <2> QED BY <1>4, <2>1
  <1>5. ASSUME EndLoop(p) PROVE Fine
    <2>1. \/ phase'[p] = "disconnectWait"
          \/ phase[p] = "releasing" /\ phase'[p] = "flush"
          \/ phase[p] = "closing" /\ phase'[p] = "closeWait" /\ turn[p] = NumProcs
      BY <1>1, <1>5 DEF EndLoop, LoopDone
    <2> QED BY <1>5, <2>1 DEF Finishing
  <1>6. ASSUME EndFlush(p) PROVE Fine
    <2>1. phase[p] = "flush" /\ phase'[p] = "closing" /\ turn'[p] = 1
      BY <1>1, <1>6 DEF EndFlush
    <2> QED BY <1>6, <2>1
  <1>7. ASSUME WaitForClose(p) PROVE Fine
    <2>1. /\ phase'[p] = "run" \/ (phase[p] = "closeWait" /\ phase'[p] = "done")
          /\ closeOps[p] = 0 /\ UNCHANGED vcVars
      BY <1>1, <1>7 DEF WaitForClose
    <2> QED BY <2>1 DEF Finishing
  <1>8. ASSUME \/ UNCHANGED vars
               \/ \E i \in Procs : VCRT_Release(i) \/ PG_Close_VCs(i)
               \/ \E i \in Procs : \E j \in Procs \ {i} : Send(i, j) \/ Receive(i, j) \/ Process_send(i, j)
        PROVE  Fine
    <2>1. phase' = phase
      BY <1>8 DEF vars, VCRT_Release, PG_Close_VCs, Send, Receive, Process_send
    <2> QED BY <2>1
  <1>9. ASSUME NEW i \in Procs,
               Comm_disconnect(i) \/ Finalize(i) \/ EndLoop(i) \/ EndFlush(i) \/ WaitForClose(i)
        PROVE  Fine
    <2> HIDE DEF Fine
    <2>1. CASE i # p
      BY <1>2, <1>9, <2>1
    <2>2. CASE i = p
      <3>1. Comm_disconnect(p) \/ Finalize(p) \/ EndLoop(p) \/ EndFlush(p) \/ WaitForClose(p)
        BY <1>9, <2>2
      <3> QED BY <1>3, <1>4, <1>5, <1>6, <1>7, <3>1
    <2> QED BY <2>1, <2>2
  <1> HIDE DEF Fine
  <1>10. \/ \E i \in Procs : Comm_disconnect(i) \/ Finalize(i) \/ EndLoop(i) \/ EndFlush(i) \/ WaitForClose(i)
         \/ \/ UNCHANGED vars
            \/ \E i \in Procs : VCRT_Release(i) \/ PG_Close_VCs(i)
            \/ \E i \in Procs : \E j \in Procs \ {i} : Send(i, j) \/ Receive(i, j) \/ Process_send(i, j)
    BY DEF Next
  <1>11. Fine
    BY <1>8, <1>9, <1>10
  <1> QED BY <1>11 DEF Fine

LEMMA NothingToGetNext ==
    ASSUME Types, NothingToGet, Unmatched = {}, [Next]_vars
    PROVE  NothingToGet'
  <1> SUFFICES ASSUME NEW p \in Procs, NEW q \in Procs, p # q, (phase[p] \in Finishing)'
               PROVE  NoMessage(wire'[q][p])
    BY DEF NothingToGet, NoMessage
  <1>1. wire[q][p] \in Seq(Packets)
    BY DEF Types, PerPair
  <1>2. phase[p] \in Finishing \/ Finalize(p)
    BY PhaseSteps DEF Finishing
  <1>3. NoMessage(wire[q][p])
    <2>1. CASE phase[p] \in Finishing
      BY <2>1 DEF NothingToGet, NoMessage
    <2>2. CASE Finalize(p)
      <3>1. GotAll(p, q)
        BY <2>2 DEF Finalize
      <3>2. \A i \in DOMAIN wire[q][p] : wire[q][p][i] # "Message"
        BY <3>1 DEF GotAll
      <3>3. DOMAIN wire[q][p] = 1 .. Len(wire[q][p])
        BY <1>1
      <3> QED BY <3>2, <3>3 DEF NoMessage
    <2> QED BY <1>2, <2>1, <2>2
  <1>4. ~Send(q, p)
    <2>1. ASSUME Send(q, p) PROVE FALSE
      <3>1. phase[p] = "run" /\ phase' = phase
        BY <2>1 DEF Send, Receives
      <3> QED BY <3>1 DEF Finishing
    <2> QED BY <2>1
  <1> QED BY <1>1, <1>3, <1>4, NoMessageKeeps, WireSteps

\* How the state of p's end changes once its last loop has passed it, and when it does.
LEMMA LastStates ==
    ASSUME Types, PairsInv, NothingToGet, NEW p \in Procs, NEW q \in Procs, p # q, [Next]_vars,
           phase[p] \in {"closing", "closeWait", "done"}, phase'[p] = phase[p]
    PROVE  \/ vcState'[p][q] = vcState[p][q]
           \/ vcState'[p][q] \notin {"ACTIVE", "REMOTE_CLOSE"}
           \/ vcState[p][q] \in {"ACTIVE", "REMOTE_CLOSE"}
  <1> DEFINE Fine == \/ vcState'[p][q] = vcState[p][q]
                     \/ vcState'[p][q] \notin {"ACTIVE", "REMOTE_CLOSE"}
                     \/ vcState[p][q] \in {"ACTIVE", "REMOTE_CLOSE"}
  <1>1. vcState \in [Procs -> [Procs -> States]]
    BY DEF Types, PerPair
  <1>2. ASSUME NEW i \in Procs, NEW j \in Procs, NEW s, vcState' = [vcState EXCEPT ![i][j] = s],
               i = p /\ j = q => (s \in {"ACTIVE", "REMOTE_CLOSE"} => vcState[p][q] \in {"ACTIVE", "REMOTE_CLOSE"})
        PROVE  Fine
    <2>1. vcState'[i][j] = s /\ \A k, l \in Procs : ~(k = i /\ l = j) => vcState'[k][l] = vcState[k][l]
      BY <1>1, <1>2, PutPair
    <2> QED BY <1>2, <2>1
  <1>3. ASSUME vcState' = vcState
        PROVE  Fine
    BY <1>3
  <1> HIDE DEF Fine
  <1>4. ASSUME NEW i \in Procs, VCRT_Release(i) \/ PG_Close_VCs(i)
        PROVE  Fine
    <2>1. Current(i) \in Procs /\ i # Current(i)
      BY <1>4, CurrentPeer DEF VCRT_Release, PG_Close_VCs
    <2>2. PICK j \in Procs : j = Current(i)
      BY <2>1
    <2>3. \/ SendClose(i, j)
          \/ vcState' = [vcState EXCEPT ![i][j] = "INACTIVE_CLOSED"]
          \/ UNCHANGED vcState
      BY <1>4, <2>2 DEF VCRT_Release, PG_Close_VCs, vcVars
    <2>4. CASE SendClose(i, j)
      <3>1. vcState' = [vcState EXCEPT ![i][j] = StateAfterSendClose(vcState[i][j])]
        BY <2>4 DEF SendClose
      <3>2. StateAfterSendClose(vcState[i][j]) \notin {"ACTIVE", "REMOTE_CLOSE"}
        BY DEF StateAfterSendClose
      <3> QED BY <1>2, <3>1, <3>2
    <2> QED BY <1>2, <1>3, <2>3, <2>4
  <1>5. ASSUME NEW i \in Procs, NEW j \in Procs \ {i}, Send(i, j)
        PROVE  Fine
    <2>1. i # p
      BY <1>5 DEF Send
    <2>2. vcState' = vcState \/ vcState' = [vcState EXCEPT ![i][j] = "ACTIVE"]
      BY <1>5 DEF Send
    <2> QED BY <1>2, <1>3, <2>1, <2>2
  <1>6. ASSUME NEW i \in Procs, NEW j \in Procs \ {i}, Receive(i, j)
        PROVE  Fine
    <2>1. wire[j][i] # << >> /\ wire[j][i] \in Seq(Packets)
      BY <1>6 DEF Receive, Types, PerPair
    <2>2. CASE Recv_Message(i, j)
      <3>1. vcState' = vcState \/ vcState' = [vcState EXCEPT ![i][j] = "ACTIVE"]
        BY <2>2 DEF Recv_Message
      <3>2. CASE ~(i = p /\ j = q)
        BY <1>2, <1>3, <3>1, <3>2
      <3>3. CASE i = p /\ j = q
        <4>1. NoMessage(wire[q][p])
          BY DEF NothingToGet, NoMessage, Finishing
        <4>2. Head(wire[q][p]) # "Message"
          BY <2>1, <3>3, <4>1, NoMessageKeeps
        <4>3. PktHandler_Close(p, q, Head(wire[q][p]))
          BY <1>6, <3>3, <4>2 DEF Receive
        <4>4. CASE vcState' = vcState
          BY <1>3, <4>4
        <4>5. CASE vcState' = [vcState EXCEPT ![i][j] = "ACTIVE"]
          <5>1. vcState'[p][q] = "ACTIVE"
            BY <1>1, <3>3, <4>5
          <5>2. vcState'[p][q] # "ACTIVE"
            <6>1. \/ vcState' = [vcState EXCEPT ![p][q] = StateAfterReq(vcState[p][q])]
                  \/ vcState' = [vcState EXCEPT ![p][q] = "INACTIVE"]
                  \/ vcState' = [vcState EXCEPT ![p][q] = "CLOSED"]
              BY <4>3 DEF PktHandler_Close, Terminated
            <6>2. StateAfterReq(vcState[p][q]) # "ACTIVE"
              BY DEF StateAfterReq
            <6> QED BY <1>1, <6>1, <6>2
          <5> QED BY <5>1, <5>2
        <4> QED BY <3>1, <4>4, <4>5
      <3> QED BY <3>2, <3>3
    <2>3. CASE Head(wire[j][i]) # "Message"
      <3>1. PktHandler_Close(i, j, Head(wire[j][i]))
        BY <1>6, <2>3 DEF Receive
      <3>2. \/ /\ Head(wire[j][i]) = "CloseReq"
               /\ vcState' = [vcState EXCEPT ![i][j] = StateAfterReq(vcState[i][j])]
            \/ vcState' = [vcState EXCEPT ![i][j] = "INACTIVE"]
            \/ vcState' = [vcState EXCEPT ![i][j] = "CLOSED"]
        BY <3>1 DEF PktHandler_Close, Terminated
      <3>3. Head(wire[j][i]) = "CloseReq" => vcState[i][j] \in {"ACTIVE", "LOCAL_CLOSE"}
        BY <2>1, HeadFits DEF PacketsExpected
      <3>4. vcState[i][j] = "LOCAL_CLOSE" => StateAfterReq(vcState[i][j]) \notin {"ACTIVE", "REMOTE_CLOSE"}
        BY DEF StateAfterReq
      <3> QED BY <1>2, <3>2, <3>3, <3>4
    <2> QED BY <1>6, <2>2, <2>3 DEF Receive
  <1>7. ASSUME NEW i \in Procs, NEW j \in Procs \ {i}, Process_send(i, j)
        PROVE  Fine
    <2>1. vcState' = vcState \/ vcState' = [vcState EXCEPT ![i][j] = "INACTIVE"]
      BY <1>7 DEF Process_send, Terminated
    <2> QED BY <1>2, <1>3, <2>1
  <1>8. ASSUME \/ UNCHANGED vars
               \/ \E i \in Procs : Comm_disconnect(i) \/ Finalize(i) \/ EndLoop(i) \/ EndFlush(i)
                                   \/ WaitForClose(i)
        PROVE  Fine
    <2>1. vcState' = vcState
      BY <1>8 DEF vars, vcVars, Comm_disconnect, Finalize, EndLoop, EndFlush, WaitForClose
    <2> QED BY <1>3, <2>1
  <1>9. Fine
    BY <1>4, <1>5, <1>6, <1>7, <1>8 DEF Next
  <1> QED BY <1>9 DEF Fine

\* Only its own loop moves the turn of a process that closes, and it leaves the peer it
\* takes closed or unused.
LEMMA LastTurns ==
    ASSUME Types, NEW p \in Procs, [Next]_vars, phase[p] = "closing", phase'[p] = "closing"
    PROVE  \/ turn'[p] = turn[p]
           \/ /\ ~LoopDone(p) /\ turn'[p] = turn[p] + 1
              /\ vcState'[p][Current(p)] \notin {"ACTIVE", "REMOTE_CLOSE"}
  <1> DEFINE Fine == \/ turn'[p] = turn[p]
                     \/ /\ ~LoopDone(p) /\ turn'[p] = turn[p] + 1
                        /\ vcState'[p][Current(p)] \notin {"ACTIVE", "REMOTE_CLOSE"}
  <1>1. /\ phase \in [Procs -> Phases] /\ turn \in [Procs -> 1 .. NumProcs]
        /\ vcState \in [Procs -> [Procs -> States]]
    BY DEF Types, PerPair
  <1>2. ASSUME PG_Close_VCs(p)
        PROVE  Fine
    <2>1. ~LoopDone(p) /\ turn'[p] = turn[p] + 1
      BY <1>1, <1>2 DEF PG_Close_VCs
    <2>2. Current(p) \in Procs /\ Current(p) # p
      BY <2>1, CurrentPeer
    <2>3. PICK q \in Procs : q = Current(p)
      BY <2>2
    <2>4. CASE ToBeClosed(vcState[p][q])
      <3>1. vcState' = [vcState EXCEPT ![p][q] = StateAfterSendClose(vcState[p][q])]
        BY <1>2, <2>3, <2>4 DEF PG_Close_VCs, SendClose
      <3>2. vcState'[p][q] \in {"LOCAL_CLOSE", "CLOSE_ACKED"}
        BY <1>1, <3>1 DEF StateAfterSendClose
      <3> QED BY <2>1, <2>3, <3>2
    <2>5. CASE ~ToBeClosed(vcState[p][q])
      <3>1. vcState' = vcState \/ vcState' = [vcState EXCEPT ![p][q] = "INACTIVE_CLOSED"]
        BY <1>2, <2>3, <2>5 DEF PG_Close_VCs
      <3>2. vcState'[p][q] = vcState[p][q] \/ vcState'[p][q] = "INACTIVE_CLOSED"
        BY <1>1, <3>1
      <3> QED BY <2>1, <2>3, <2>5, <3>2 DEF ToBeClosed
    <2> QED BY <2>4, <2>5
  <1>3. ASSUME NEW i \in Procs, i # p,
               \/ Comm_disconnect(i) \/ Finalize(i) \/ VCRT_Release(i) \/ PG_Close_VCs(i)
               \/ EndFlush(i)
        PROVE  Fine
    <2>1. turn'[p] = turn[p]
      BY <1>1, <1>3 DEF Comm_disconnect, Finalize, VCRT_Release, PG_Close_VCs, EndFlush
    <2> QED BY <2>1
  <1>4. ~(Comm_disconnect(p) \/ Finalize(p) \/ VCRT_Release(p) \/ EndFlush(p))
    BY DEF Comm_disconnect, Finalize, VCRT_Release, EndFlush
  <1>5. ASSUME \/ UNCHANGED vars
               \/ \E i \in Procs : EndLoop(i) \/ WaitForClose(i)
               \/ \E i \in Procs : \E j \in Procs \ {i} : Send(i, j) \/ Receive(i, j) \/ Process_send(i, j)
        PROVE  Fine
    <2>1. turn' = turn
      BY <1>5 DEF vars, EndLoop, WaitForClose, Send, Receive, Process_send
    <2> QED BY <2>1
  <1> HIDE DEF Fine
  <1>6. ASSUME NEW i \in Procs,
               \/ Comm_disconnect(i) \/ Finalize(i) \/ VCRT_Release(i) \/ PG_Close_VCs(i)
               \/ EndFlush(i)
        PROVE  Fine
    <2>1. i = p \/ i # p
      OBVIOUS
    <2> QED BY <1>2, <1>3, <1>4, <1>6, <2>1
  <1>7. \/ \E i \in Procs : \/ Comm_disconnect(i) \/ Finalize(i) \/ VCRT_Release(i) \/ PG_Close_VCs(i)
                            \/ EndFlush(i)
        \/ \/ UNCHANGED vars
           \/ \E i \in Procs : EndLoop(i) \/ WaitForClose(i)
           \/ \E i \in Procs : \E j \in Procs \ {i} : Send(i, j) \/ Receive(i, j) \/ Process_send(i, j)
    BY DEF Next
  <1>8. Fine
    BY <1>5, <1>6, <1>7
  <1> QED BY <1>8 DEF Fine

LEMMA LoopsCloseNext ==
    ASSUME Types, PairsInv, NothingToGet, LoopsClose, [Next]_vars
    PROVE  LoopsClose'
  <1> SUFFICES ASSUME NEW p \in Procs, NEW q \in Procs, p # q, Passed(p, q)'
               PROVE  vcState'[p][q] \notin {"ACTIVE", "REMOTE_CLOSE"}
    BY DEF LoopsClose
  <1>1. turn[p] \in 1 .. NumProcs /\ Distance(p, q) \in 1 .. NumProcs - 1 /\ NumProcs \in Nat
    BY Distances, PairsAssumption DEF Types
  <1>2. Distance(p, q)' = Distance(p, q)
    BY DEF Distance
  <1>3. \/ phase'[p] \in {"closeWait", "done"}
        \/ phase'[p] = "closing" /\ Distance(p, q) < turn'[p]
    BY <1>2 DEF Passed
  <1>4. ASSUME Passed(p, q), phase'[p] = phase[p]
        PROVE  vcState'[p][q] \notin {"ACTIVE", "REMOTE_CLOSE"}
    <2>1. vcState[p][q] \notin {"ACTIVE", "REMOTE_CLOSE"}
      BY <1>4 DEF LoopsClose
    <2>2. phase[p] \in {"closing", "closeWait", "done"}
      BY <1>4 DEF Passed
    <2> QED BY <1>4, <2>1, <2>2, LastStates
  <1>5. CASE phase'[p] = phase[p] /\ phase[p] = "closing"
    <2>1. CASE turn'[p] = turn[p]
      <3>1. Passed(p, q)
        BY <1>3, <1>5, <2>1 DEF Passed
      <3> QED BY <1>4, <1>5, <3>1
    <2>2. CASE /\ ~LoopDone(p) /\ turn'[p] = turn[p] + 1
               /\ vcState'[p][Current(p)] \notin {"ACTIVE", "REMOTE_CLOSE"}
      <3>1. Distance(p, q) < turn[p] \/ Distance(p, q) = turn[p]
        BY <1>1, <1>3, <1>5, <2>2
      <3>2. CASE Distance(p, q) < turn[p]
        BY <1>4, <1>5, <3>2 DEF Passed
      <3>3. CASE Distance(p, q) = turn[p]
        <4>1. q = Current(p)
          BY <2>2, <3>3, CurrentPeer
        <4> QED BY <2>2, <4>1
      <3> QED BY <3>1, <3>2, <3>3
    <2> QED BY <1>5, <2>1, <2>2, LastTurns
  <1>6. CASE phase'[p] = phase[p] /\ phase[p] \in {"closeWait", "done"}
    BY <1>4, <1>6 DEF Passed
  <1>7. CASE EndLoop(p) /\ phase[p] = "closing" /\ phase'[p] = "closeWait" /\ turn[p] = NumProcs
    <2>1. Passed(p, q) /\ vcState' = vcState
      BY <1>1, <1>7 DEF Passed, EndLoop, vcVars
    <2> QED BY <2>1 DEF LoopsClose
  <1>8. CASE phase[p] = "closeWait" /\ phase'[p] = "done" /\ UNCHANGED vcVars
    BY <1>8 DEF LoopsClose, Passed, vcVars
  <1>9. CASE phase[p] = "flush" /\ phase'[p] = "closing" /\ turn'[p] = 1
    BY <1>1, <1>3, <1>9
  <1> QED BY <1>3, <1>5, <1>6, <1>7, <1>8, <1>9, PhaseSteps DEF Finishing

\* A process that is done does nothing.
LEMMA DoneIdle ==
    ASSUME Types, NEW p \in Procs, [Next]_vars, phase[p] = "done"
    PROVE  closeOps'[p] = closeOps[p]
  <1>1. closeOps \in [Procs -> Int]
    BY DEF Types
  <1>2. ASSUME NEW i \in Procs, VCRT_Release(i) \/ PG_Close_VCs(i)
        PROVE  closeOps'[p] = closeOps[p]
    <2>1. i # p
      BY <1>2 DEF VCRT_Release, PG_Close_VCs
    <2> QED BY <1>1, <1>2, <2>1 DEF VCRT_Release, PG_Close_VCs, SendClose, vcVars
  <1>3. ASSUME NEW i \in Procs, NEW j \in Procs \ {i}, Receive(i, j) \/ Process_send(i, j)
        PROVE  closeOps'[p] = closeOps[p]
    <2>1. i # p
      BY <1>3 DEF Receive, Process_send, Polls
    <2>2. UNCHANGED closeOps \/ Terminated(i, j)
      BY <1>3 DEF Receive, Process_send, Recv_Message, PktHandler_Close
    <2> QED BY <1>1, <2>1, <2>2 DEF Terminated
  <1>4. ASSUME \/ UNCHANGED vars
               \/ \E i \in Procs : Comm_disconnect(i) \/ Finalize(i) \/ EndLoop(i) \/ EndFlush(i)
                                   \/ WaitForClose(i) \/ \E j \in Procs \ {i} : Send(i, j)
        PROVE  closeOps'[p] = closeOps[p]
    BY <1>4 DEF vars, vcVars, Comm_disconnect, Finalize, EndLoop, EndFlush, WaitForClose, Send
  <1> QED BY <1>2, <1>3, <1>4 DEF Next

LEMMA NothingToCloseNext ==
    ASSUME Types, NothingToClose, [Next]_vars
    PROVE  NothingToClose'
  <1> SUFFICES ASSUME NEW p \in Procs, phase'[p] = "done"
               PROVE  closeOps'[p] = 0
    BY DEF NothingToClose
  <1>1. CASE phase[p] = "done"
    BY <1>1, DoneIdle DEF NothingToClose
  <1>2. CASE phase[p] = "closeWait" /\ closeOps[p] = 0 /\ UNCHANGED vcVars
    BY <1>2 DEF vcVars
  <1> QED BY <1>1, <1>2, PhaseSteps

LEMMA LastInit == ASSUME Init PROVE LastInv
  <1>1. \A p \in Procs : phase[p] = "run"
    BY DEF Init
  <1> QED BY <1>1 DEF LastInv, NothingToGet, LoopsClose, NothingToClose, Passed, Finishing

\* A program that receives what is sent to it has received all of it when it finalizes.
THEOREM LastLoopCloses == Unmatched = {} => (Spec => []LastInv)
  <1> SUFFICES ASSUME Unmatched = {} PROVE Spec => []LastInv
    OBVIOUS
  <1>1. (Types /\ PairsInv /\ PhasesInv) /\ LastInv /\ [Next]_vars => LastInv'
    BY NothingToGetNext, LoopsCloseNext, NothingToCloseNext DEF LastInv
  <1>2. Init => LastInv
    BY LastInit
  <1> QED BY <1>1, <1>2, StagesOfClosing, PTL DEF Spec

\* A process that is done has no connection that is still open.
LEMMA DoneUnused ==
    ASSUME Types, PairsInv, OpsInv, LastInv, NEW p \in Procs, NEW q \in Procs, p # q,
           phase[p] = "done"
    PROVE  /\ vcState[p][q] \in {"INACTIVE", "INACTIVE_CLOSED"}
           /\ NoMessage(wire[q][p])
  <1>1. Cardinality(Begins(p)) = 0
    BY DEF OpsInv, LastInv, NothingToClose
  <1>2. ~Closing(vcState[p][q])
    BY <1>1, BeginsFinite DEF Begins
  <1>3. vcState[p][q] \notin {"ACTIVE", "REMOTE_CLOSE"} /\ vcState[p][q] \in States
    BY DEF LastInv, LoopsClose, Passed, Types, PerPair
  <1>4. NoMessage(wire[q][p])
    BY DEF LastInv, NothingToGet, NoMessage, Finishing
  <1> QED BY <1>2, <1>3, <1>4 DEF Closing, States

\* What is left at the other end of a connection that x does not use any more.
LEMMA OtherEnd ==
    ASSUME NEW x \in Ends, NEW y \in Ends, NEW near, Stage(x, y, near),
           x.state \in {"INACTIVE", "INACTIVE_CLOSED"}, NoMessage(y.wire)
    PROVE  /\ y.wire = << >>
           /\ y.state \in {"INACTIVE", "INACTIVE_CLOSED", "CLOSED"} \/ OneAck(x.wire)
  <1>1. y.wire \in Seq(Packets)
    BY DEF Ends
  <1>2. PICK w : w = y.wire
    OBVIOUS
  <1>3. w \in Seq(Packets) /\ Len(w) \in Nat /\ (w # << >> => Len(w) >= 1)
    BY <1>1, <1>2
  <1>4. NoMessage(w) /\ Messages(w) => w = << >>
    <2>1. NoMessage(w) /\ Messages(w) /\ Len(w) >= 1 => FALSE
      BY <1>3 DEF NoMessage, Messages
    <2> QED BY <1>3, <2>1
  <1>5. NoMessage(w) /\ EndsIn(w, "CloseReq") => ~(Len(w) - 1 >= 1)
    <2>1. Len(w) - 1 >= 1 => 1 \in 1 .. Len(w) - 1 /\ 1 \in 1 .. Len(w)
      BY <1>3
    <2> QED BY <2>1 DEF NoMessage, EndsIn, Before
  <1>6. CASE Open(x, y, near)
    <2>1. w = << >>
      BY <1>2, <1>4, <1>6 DEF Open, Connects
    <2>2. Len(w) = 0
      BY <2>1
    <2>3. y.state # "ACTIVE"
      <3>1. y.state = "ACTIVE" => Reaches(x, near, Len(w))
        BY <1>2, <1>6 DEF Open
      <3> QED BY <2>2, <3>1 DEF Reaches
    <2> QED BY <1>2, <1>6, <2>1, <2>3 DEF Open, Opens
  <1>7. CASE Over(x, y)
    BY <1>7 DEF Over, Gone
  <1>8. CASE LastAck(x, y)
    BY <1>8 DEF LastAck
  <1>9. CASE Begun(y, x, near)
    <2>1. EndsIn(w, "CloseReq") /\ Reaches(x, near, Len(w) - 1)
      BY <1>2, <1>9 DEF Begun
    <2> QED BY <1>2, <1>5, <2>1 DEF Reaches
  <1>10. ~Crossed(x, y) /\ ~BothAcked(x, y) /\ ~Begun(x, y, near) /\ ~Asked(x, y) /\ ~Answers(x, y)
    BY DEF Crossed, BothAcked, Begun, Asked, Answers
  <1>11. ~Asked(y, x) /\ ~Answers(y, x) /\ ~LastAck(y, x)
    BY DEF Asked, Answers, LastAck
  <1> QED BY <1>6, <1>7, <1>8, <1>9, <1>10, <1>11 DEF Stage, OneWay

LEMMA DoneLeaves ==
    ASSUME Types, PairsInv, OpsInv, LastInv
    PROVE  QuietWhenDone /\ PeersCanFinish
  <1>1. ASSUME NEW p \in Procs, NEW q \in Procs, p # q, phase[p] = "done"
        PROVE  /\ wire[q][p] = << >> /\ uncompleted[p][q] = 0
               /\ \/ vcState[q][p] \in {"INACTIVE", "INACTIVE_CLOSED", "CLOSED"}
                  \/ wire[p][q] # << >> /\ wire[p][q][Len(wire[p][q])] = "CloseAck"
    <2> DEFINE x == End(p, q)  y == End(q, p)  near == Near(p, q)
    <2>1. x \in Ends /\ y \in Ends
      BY <1>1, EndTypes
    <2>2. Stage(x, y, near) /\ Counts(x)
      BY <1>1 DEF PairsInv
    <2>3. /\ x.state = vcState[p][q] /\ x.wire = wire[p][q] /\ x.count = uncompleted[p][q]
          /\ y.state = vcState[q][p] /\ y.wire = wire[q][p]
      BY DEF End
    <2>4. x.state \in {"INACTIVE", "INACTIVE_CLOSED"} /\ NoMessage(y.wire)
      BY <1>1, <2>3, DoneUnused
    <2> HIDE DEF x, y, near
    <2>5. /\ y.wire = << >>
          /\ y.state \in {"INACTIVE", "INACTIVE_CLOSED", "CLOSED"} \/ OneAck(x.wire)
      BY <2>1, <2>2, <2>4, OtherEnd
    <2>6. x.count = 0
      BY <2>2, <2>4 DEF Counts, Closing
    <2>7. OneAck(wire[p][q]) => wire[p][q] # << >> /\ wire[p][q][Len(wire[p][q])] = "CloseAck"
      BY DEF OneAck
    <2> QED BY <2>3, <2>5, <2>6, <2>7
  <1>2. QuietWhenDone
    <2> SUFFICES ASSUME NEW p \in Procs, phase[p] = "done", NEW q \in Procs
                 PROVE  wire[q][p] = << >> /\ uncompleted[p][q] = 0
      BY DEF QuietWhenDone
    <2>1. CASE p = q
      BY <2>1 DEF OpsInv
    <2>2. CASE p # q
      BY <1>1, <2>2
    <2> QED BY <2>1, <2>2
  <1>3. PeersCanFinish
    BY <1>1 DEF PeersCanFinish
  <1> QED BY <1>2, <1>3

\* When every message is received, a process that has left MPID_Finalize needs nothing from
\* anybody: nothing is on its way to it, and none of its CLOSE packets is uncompleted.
THEOREM NothingComesLater == Unmatched = {} => (Spec => []QuietWhenDone)
  <1> SUFFICES ASSUME Unmatched = {} PROVE Spec => []QuietWhenDone
    OBVIOUS
  <1>1. Spec => []LastInv
    BY LastLoopCloses
  <1>2. (Types /\ PairsInv /\ PhasesInv) /\ OpsInv /\ LastInv => QuietWhenDone
    BY DoneLeaves
  <1> QED BY <1>1, <1>2, StagesOfClosing, OpsCountCloses, PTL

\* Nor does anybody need anything more from it: whoever still closes a connection with it
\* has the last CLOSE on the way.
THEOREM NobodyIsLeft == Unmatched = {} => (Spec => []PeersCanFinish)
  <1> SUFFICES ASSUME Unmatched = {} PROVE Spec => []PeersCanFinish
    OBVIOUS
  <1>1. Spec => []LastInv
    BY LastLoopCloses
  <1>2. (Types /\ PairsInv /\ PhasesInv) /\ OpsInv /\ LastInv => PeersCanFinish
    BY DoneLeaves
  <1> QED BY <1>1, <1>2, StagesOfClosing, OpsCountCloses, PTL
=============================================================================
