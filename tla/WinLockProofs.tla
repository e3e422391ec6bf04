---------------------------- MODULE WinLockProofs ----------------------------
(***************************************************************************)
(* Proofs about WinLock, for any epochs and any plans: the queue is        *)
(* satisfied whenever a release returns, whatever state the lock is in,    *)
(* and until a release marks the window unlocked under a lock (forgot) the *)
(* type and the counters of the window fit the epochs that hold its lock.  *)
(***************************************************************************)
EXTENDS WinLock, TLAPS, FiniteSetTheorems, SequenceTheorems

Windows == [type : Types, ref : Int, outstanding : Int, queue : Seq(Epochs),
            pc : {"out", "wait", "scan"}, pos : Nat \ {0}, temp : Nat, count : Nat]

Kinds == {"shared", "exclusive"}

SameLock(v, w) == v.type = w.type /\ v.ref = w.ref
SameWork(v, w) == v.queue = w.queue /\ v.outstanding = w.outstanding
SameLoop(v, w) == v.pc = w.pc /\ v.pos = w.pos /\ v.temp = w.temp /\ v.count = w.count

\* The queue holds the waiting epochs, each once.
QueueInv ==
    /\ \A i \in DOMAIN win.queue : stage[win.queue[i]] = "queued"
    /\ \A i, j \in DOMAIN win.queue : win.queue[i] = win.queue[j] => i = j

\* A release inside a release is answered by an iteration that is still to come.
RepeatInv ==
    /\ win.pc = "out" => win.count = 0
    /\ win.pc # "out" => win.temp <= win.count

\* The loop passes over what is not ready only.
PassedInv == win.pc = "scan" => \A i \in DOMAIN win.queue : i < win.pos => ~Ready(win.queue[i])

\* The data of a put comes after its packet.
DataInv == \A e \in data : stage[e] \in {"queued", "done"}

\* The invariant of the queue.
QInv == TypeOK /\ QueueInv /\ DataInv /\ RepeatInv /\ PassedInv /\ QueueSatisfied

Serving == {e \in Epochs : stage[e] = "serving"}
\* Earlier operations that the count holds, and those that it lacks.
Under == {e \in left : stage[e] \in {"serving", "done"}}
Early == {e \in Several \ left : stage[e] = "granted"}

\* outstanding_rma counts the operations under way, less those that were complete
\* before the packet of the last one was handled.
CountInv ==
    /\ win.outstanding = Cardinality(Serving) + Cardinality(Under) - Cardinality(Early)
    /\ \A e \in Several : stage[e] \in {"before", "requested", "queued"} => e \in left

\* The lock of window w fits the holders H.
Fits(w, H) ==
    /\ w.ref = Cardinality(H \ Exclusive)
    /\ w.type = "none" => H = {}
    /\ w.type = "shared" => H \cap Exclusive = {}
    /\ w.type = "exclusive" => H = {} \/ \E e \in Exclusive : H = {e}

\* The epochs that have released the lock before an operation of theirs was complete.
Late == {e \in left : stage[e] = "done"}

LateInv ==
    /\ Late # {} => win.type = "shared" \/ (win.type = "exclusive" /\ Holders = {})
    /\ win.pc = "scan" => Late = {}

\* The invariant of the lock.
LockInv == ~forgot => Fits(win, Holders) /\ LateInv

IInv == QInv /\ CountInv /\ LockInv
-----------------------------------------------------------------------------
(* Lemmas about the building blocks. *)

\* The entry at one place leaves the queue, the others keep their order.
LEMMA RemoveAtKeepsOrder ==
    ASSUME NEW q \in Seq(Epochs), NEW i \in DOMAIN q
    PROVE  /\ RemoveAt(q, i) \in Seq(Epochs)
           /\ Len(RemoveAt(q, i)) = Len(q) - 1
           /\ \A j \in DOMAIN RemoveAt(q, i) : RemoveAt(q, i)[j] = IF j < i THEN q[j] ELSE q[j + 1]
<1> DEFINE l == SubSeq(q, 1, i - 1)
           r == SubSeq(q, i + 1, Len(q))
<1>1. i \in 1 .. Len(q) /\ Len(q) \in Nat
    OBVIOUS
<1>2. l \in Seq(Epochs) /\ Len(l) = i - 1 /\ \A j \in 1 .. i - 1 : l[j] = q[j]
    BY <1>1
<1>3. r \in Seq(Epochs) /\ Len(r) = Len(q) - i /\ \A j \in 1 .. Len(q) - i : r[j] = q[i + j]
    BY <1>1
<1>4. RemoveAt(q, i) = l \o r
    BY DEF RemoveAt
<1> HIDE DEF l, r
<1>5. RemoveAt(q, i) \in Seq(Epochs) /\ Len(RemoveAt(q, i)) = Len(q) - 1
    BY <1>1, <1>2, <1>3, <1>4
<1>6. ASSUME NEW j \in DOMAIN RemoveAt(q, i)
      PROVE  RemoveAt(q, i)[j] = IF j < i THEN q[j] ELSE q[j + 1]
    <2>1. j \in 1 .. Len(q) - 1
        BY <1>5
    <2>2. CASE j < i
        BY <2>1, <2>2, <1>1, <1>2, <1>3, <1>4
    <2>3. CASE j >= i
        <3>1. (l \o r)[j] = r[j - (i - 1)]
            BY <2>1, <2>3, <1>1, <1>2, <1>3
        <3>2. j - (i - 1) \in 1 .. Len(q) - i /\ i + (j - (i - 1)) = j + 1
            BY <2>1, <2>3, <1>1
        <3>3. r[j - (i - 1)] = q[j + 1]
            BY <3>2, <1>3
        <3> QED BY <3>1, <3>3, <1>4, <2>3, <1>1, <2>1
    <2> QED BY <2>1, <2>2, <2>3, <1>1
<1> QED BY <1>5, <1>6

LEMMA LockKinds == \A x : LockType(x) \in Kinds
BY DEF LockType, Kinds

\* What a lock that is granted changes.
LEMMA AcquireEffect ==
    ASSUME NEW w \in Windows, NEW t \in Kinds, NEW a, a = Acquired(w, t)
    PROVE  /\ a \in Windows /\ a.type = t /\ a.ref = (IF t = "shared" THEN w.ref + 1 ELSE w.ref)
           /\ SameWork(a, w) /\ SameLoop(a, w)
<1> DEFINE n == IF t = "shared" THEN w.ref + 1 ELSE w.ref
<1>1. n \in Int /\ t \in Types
    BY DEF Windows, Kinds, Types
<1>2. a = [w EXCEPT !.type = t, !.ref = n]
    BY DEF Acquired
<1> HIDE DEF n
<1>3. a \in Windows /\ a.type = t /\ a.ref = n /\ SameWork(a, w) /\ SameLoop(a, w)
    BY <1>1, <1>2 DEF Windows, SameWork, SameLoop
<1> QED BY <1>3 DEF n

\* What the service of operations changes.
LEMMA ServeEffect ==
    ASSUME NEW w \in Windows, NEW n \in Int, NEW s, s = [w EXCEPT !.outstanding = w.outstanding + n]
    PROVE  /\ s \in Windows /\ s.outstanding = w.outstanding + n /\ s.queue = w.queue
           /\ SameLock(s, w) /\ SameLoop(s, w)
<1>1. w.outstanding + n \in Int
    BY DEF Windows
<1> QED BY <1>1 DEF Windows, SameLock, SameLoop

\* What an entry's departure changes.
LEMMA RemoveEffect ==
    ASSUME NEW w \in Windows, NEW i \in DOMAIN w.queue, NEW r,
           r = [w EXCEPT !.queue = RemoveAt(w.queue, i)]
    PROVE  /\ r \in Windows /\ r.queue = RemoveAt(w.queue, i) /\ r.outstanding = w.outstanding
           /\ SameLock(r, w) /\ SameLoop(r, w)
<1>1. w.queue \in Seq(Epochs)
    BY DEF Windows
<1>2. RemoveAt(w.queue, i) \in Seq(Epochs)
    BY <1>1, RemoveAtKeepsOrder
<1> QED BY <1>2 DEF Windows, SameLock, SameLoop

\* What MPIDI_CH3I_Release_lock changes up to its loop: the count of shared locks, and
\* then nothing, the call that is counted, or the call that begins.
LEMMA ReleaseEffect ==
    ASSUME NEW w \in Windows, NEW r, r = Release_lock(w)
    PROVE  /\ r \in Windows /\ SameWork(r, w) /\ r.type = w.type /\ r.pos = w.pos
           /\ r.ref = (IF w.type = "shared" THEN w.ref - 1 ELSE w.ref)
           /\ \/ r.ref # 0 /\ SameLoop(r, w)
              \/ /\ r.ref = 0 /\ w.pc # "out" /\ r.pc = w.pc
                 /\ r.temp = w.temp /\ r.count = w.count + 1
              \/ r.ref = 0 /\ w.pc = "out" /\ r.pc = "wait" /\ r.temp = w.count /\ r.count = w.count
<1> DEFINE n == IF w.type = "shared" THEN w.ref - 1 ELSE w.ref
           l == LessOne(w)
<1>1. n \in Int /\ w.count \in Nat /\ w.count + 1 \in Nat
    BY DEF Windows
<1>2. l = [w EXCEPT !.ref = n]
    BY DEF LessOne
<1>3. r = IF l.ref # 0 THEN l
          ELSE IF w.pc # "out" THEN [l EXCEPT !.count = @ + 1] ELSE [l EXCEPT !.pc = "wait", !.temp = w.count]
    BY DEF Release_lock
<1> HIDE DEF n, l
<1>4. /\ l \in Windows /\ SameWork(l, w) /\ SameLoop(l, w) /\ l.type = w.type /\ l.ref = n
    BY <1>1, <1>2 DEF Windows, SameWork, SameLoop
<1>5. CASE n # 0
    BY <1>3, <1>4, <1>5 DEF n, SameWork, SameLoop
<1>6. CASE n = 0 /\ w.pc # "out"
    <2>1. r = [l EXCEPT !.count = l.count + 1]
        BY <1>3, <1>4, <1>6
    <2>2. l.count = w.count
        BY <1>4 DEF SameLoop
    <2>3. /\ r \in Windows /\ SameWork(r, l) /\ r.type = l.type /\ r.ref = l.ref /\ r.pos = l.pos
          /\ r.pc = l.pc /\ r.temp = l.temp /\ r.count = w.count + 1
        BY <1>1, <1>4, <2>1, <2>2 DEF Windows, SameWork
    <2> QED BY <2>3, <1>4, <1>6 DEF n, SameWork, SameLoop
<1>7. CASE n = 0 /\ w.pc = "out"
    <2>1. r = [l EXCEPT !.pc = "wait", !.temp = w.count]
        BY <1>3, <1>4, <1>7
    <2>2. /\ r \in Windows /\ SameWork(r, l) /\ r.type = l.type /\ r.ref = l.ref /\ r.pos = l.pos
          /\ r.pc = "wait" /\ r.temp = w.count /\ r.count = l.count
        BY <1>1, <1>4, <2>1 DEF Windows, SameWork
    <2> QED BY <2>2, <1>4, <1>7 DEF n, SameWork, SameLoop
<1> QED BY <1>5, <1>6, <1>7

\* What the release of a put done in the loop changes.
LEMMA ReleaseInLoopEffect ==
    ASSUME NEW w \in Windows, NEW r, r = ReleasedInLoop(w)
    PROVE  /\ r \in Windows /\ SameWork(r, w) /\ SameLoop(r, w)
           /\ r.ref = (IF w.type = "shared" THEN w.ref - 1 ELSE w.ref)
           /\ r.type = IF r.ref = 0 THEN "none" ELSE w.type
<1> DEFINE n == IF w.type = "shared" THEN w.ref - 1 ELSE w.ref
           l == LessOne(w)
<1>1. n \in Int /\ "none" \in Types
    BY DEF Windows, Types
<1>2. l = [w EXCEPT !.ref = n]
    BY DEF LessOne
<1>3. r = IF l.ref = 0 THEN [l EXCEPT !.type = "none"] ELSE l
    BY DEF ReleasedInLoop
<1> HIDE DEF n, l
<1>4. /\ l \in Windows /\ SameWork(l, w) /\ SameLoop(l, w) /\ l.type = w.type /\ l.ref = n
    BY <1>1, <1>2 DEF Windows, SameWork, SameLoop
<1>5. CASE n = 0
    <2>1. r = [l EXCEPT !.type = "none"]
        BY <1>3, <1>4, <1>5
    <2>2. r \in Windows /\ SameWork(r, l) /\ SameLoop(r, l) /\ r.type = "none" /\ r.ref = l.ref
        BY <1>1, <1>4, <2>1 DEF Windows, SameWork, SameLoop
    <2> QED BY <2>2, <1>4, <1>5 DEF n, SameWork, SameLoop
<1>6. CASE n # 0
    BY <1>3, <1>4, <1>6 DEF n
<1> QED BY <1>5, <1>6

\* What the end of an iteration changes.
LEMMA EndEffect ==
    ASSUME NEW w \in Windows, NEW r, r = EndOfLoop(w)
    PROVE  /\ r \in Windows /\ SameWork(r, w) /\ SameLock(r, w)
           /\ \/ w.temp = w.count /\ r.pc = "out" /\ r.count = 0
              \/ w.temp # w.count /\ r.pc = "wait" /\ r.temp = w.temp + 1 /\ r.count = w.count
<1>1. w.temp + 1 \in Nat /\ 1 \in Nat \ {0} /\ 0 \in Nat
    BY DEF Windows
<1>2. CASE w.temp = w.count
    <2>1. r = [w EXCEPT !.pc = "out", !.pos = 1, !.count = 0]
        BY <1>2 DEF EndOfLoop
    <2> QED BY <2>1, <1>1, <1>2 DEF Windows, SameWork, SameLock
<1>3. CASE w.temp # w.count
    <2>1. r = [w EXCEPT !.pc = "wait", !.temp = w.temp + 1]
        BY <1>3 DEF EndOfLoop
    <2> QED BY <2>1, <1>1, <1>3 DEF Windows, SameWork, SameLock
<1> QED BY <1>2, <1>3

\* The parts of the state as the provers need them.
LEMMA Shape ==
    ASSUME TypeOK
    PROVE  /\ win \in Windows /\ win.queue \in Seq(Epochs)
           /\ plan \in Plans /\ stage \in [Epochs -> Stages] /\ data \subseteq Puts
           /\ left \subseteq Several /\ forgot \in BOOLEAN
           /\ Puts \subseteq Epochs /\ Several \subseteq Epochs
           /\ Several \cap (Puts \cup Gets \cup Local) = {}
<1>1. win \in Windows /\ plan \in Plans
    BY DEF TypeOK, Windows
<1>2. /\ Puts \subseteq Epochs /\ Several \subseteq Epochs
      /\ Several \cap (Puts \cup Gets \cup Local) = {}
    BY <1>1, EpochsAssumption DEF Puts, Several, Gets, Local
<1> QED BY <1>1, <1>2 DEF TypeOK, Windows

\* A step of one epoch.
LEMMA OneEpochMoves ==
    ASSUME TypeOK, UNCHANGED plan, NEW e \in Epochs, NEW s \in Stages, To(e, s)
    PROVE  /\ stage' \in [Epochs -> Stages] /\ stage'[e] = s
           /\ \A x \in Epochs : x # e => stage'[x] = stage[x]
BY DEF TypeOK, To

\* What the plan says does not change, nor, without new data, what is ready.
LEMMA SamePlan ==
    ASSUME UNCHANGED plan
    PROVE  /\ Exclusive' = Exclusive /\ Puts' = Puts /\ Gets' = Gets /\ Local' = Local
           /\ Several' = Several /\ Accs' = Accs
           /\ \A x : LockType(x)' = LockType(x)
           /\ data' = data => \A x : Ready(x)' <=> Ready(x)
BY DEF Exclusive, Puts, Gets, Local, Several, Accs, LockType, Ready

\* What may be granted beside a new holder could be granted before it.
LEMMA AcquireGrantsNoMore ==
    ASSUME NEW w, NEW v, NEW t \in Kinds, Grants(w, t), v.type = t
    PROVE  \A u \in Kinds : Grants(v, u) => Grants(w, u)
BY DEF Grants, Kinds

\* A step outside the scan keeps the queue satisfied if what it leaves in the queue was
\* there or cannot be granted, and it makes nothing grantable that was not.
LEMMA HandlerKeepsQInv ==
    ASSUME QInv, UNCHANGED <<plan, data>>, win' \in Windows, stage' \in [Epochs -> Stages],
           left' \subseteq Several, forgot' \in BOOLEAN, QueueInv', DataInv',
           win'.pc \in {"out", "wait"}, win'.pc = "out" => win.pc = "out" /\ win'.count = 0,
           win'.pc = "wait" => win'.temp <= win'.count,
           \A t \in Kinds : Grants(win', t) => Grants(win, t),
           \A i \in DOMAIN win'.queue :
              \/ \E j \in DOMAIN win.queue : win'.queue[i] = win.queue[j]
              \/ ~Grants(win, LockType(win'.queue[i]))
    PROVE  QInv'
<1>1. TypeOK'
    BY SamePlan DEF QInv, TypeOK, Windows
<1>2. RepeatInv' /\ PassedInv'
    BY DEF RepeatInv, PassedInv
<1>3. QueueSatisfied'
    <2> SUFFICES ASSUME win'.pc = "out", NEW i \in DOMAIN win'.queue, Ready(win'.queue[i]),
                        Grants(win', LockType(win'.queue[i]))
                 PROVE  FALSE
        BY SamePlan DEF QueueSatisfied, Grants
    <2>1. Grants(win, LockType(win'.queue[i]))
        BY LockKinds
    <2>2. PICK j \in DOMAIN win.queue : win'.queue[i] = win.queue[j]
        BY <2>1
    <2> QED BY <2>1, <2>2 DEF QInv, QueueSatisfied
<1> QED BY <1>1, <1>2, <1>3 DEF QInv

\* A handler that leaves the queue, the lock type and the loop alone.
LEMMA QuietHandlerKeepsQInv ==
    ASSUME QInv, UNCHANGED <<plan, data, forgot>>, win.pc \in {"out", "wait"},
           win' \in Windows, win'.queue = win.queue, win'.type = win.type, SameLoop(win', win),
           stage' \in [Epochs -> Stages], left' \subseteq Several, QueueInv', DataInv'
    PROVE  QInv'
<1>1. /\ win'.pc = win.pc /\ win'.count = win.count /\ win'.temp = win.temp
      /\ win.pc = "out" => win.count = 0
      /\ win.pc # "out" => win.temp <= win.count
    BY DEF SameLoop, QInv, RepeatInv
<1>2. \A t \in Kinds : Grants(win', t) => Grants(win, t)
    BY DEF Grants
<1>3. forgot' \in BOOLEAN
    BY DEF QInv, TypeOK
<1> QED BY <1>1, <1>2, <1>3, HandlerKeepsQInv

\* A release outside the scan.
LEMMA ReleaseKeepsQInv ==
    ASSUME QInv, UNCHANGED <<plan, data, forgot>>, win.pc \in {"out", "wait"},
           NEW w \in Windows, SameLoop(w, win), win' = Release_lock(w),
           stage' \in [Epochs -> Stages], left' \subseteq Several, QueueInv', DataInv',
           \A t \in Kinds : Grants(w, t) => Grants(win, t),
           \A i \in DOMAIN w.queue : \E j \in DOMAIN win.queue : w.queue[i] = win.queue[j]
    PROVE  QInv'
<1>1. /\ win' \in Windows /\ SameWork(win', w) /\ win'.type = w.type
      /\ \/ win'.ref # 0 /\ SameLoop(win', w)
         \/ /\ win'.ref = 0 /\ w.pc # "out" /\ win'.pc = w.pc
            /\ win'.temp = w.temp /\ win'.count = w.count + 1
         \/ win'.ref = 0 /\ w.pc = "out" /\ win'.pc = "wait" /\ win'.temp = w.count /\ win'.count = w.count
    BY ReleaseEffect
<1>2. /\ w.pc = win.pc /\ w.count = win.count /\ w.temp = win.temp
      /\ win.pc = "out" => win.count = 0
      /\ win.pc # "out" => win.temp <= win.count
      /\ win.temp \in Nat /\ win.count \in Nat
    BY DEF SameLoop, QInv, RepeatInv, TypeOK
<1>3. /\ win'.pc \in {"out", "wait"}
      /\ win'.pc = "out" => win.pc = "out" /\ win'.count = 0
      /\ win'.pc = "wait" => win'.temp <= win'.count
    BY <1>1, <1>2 DEF SameLoop
<1>4. \A t \in Kinds : Grants(win', t) => Grants(win, t)
    BY <1>1 DEF Grants
<1>5. \A i \in DOMAIN win'.queue : \E j \in DOMAIN win.queue : win'.queue[i] = win.queue[j]
    BY <1>1 DEF SameWork
<1>6. forgot' \in BOOLEAN
    BY DEF QInv, TypeOK
<1> QED BY <1>1, <1>3, <1>4, <1>5, <1>6, HandlerKeepsQInv

\* The queue keeps its entries while an epoch that is not queued moves.
LEMMA QueueKept ==
    ASSUME TypeOK, QueueInv, UNCHANGED plan, NEW e \in Epochs, NEW s \in Stages, To(e, s),
           stage[e] # "queued", win'.queue = win.queue
    PROVE  QueueInv'
<1>1. win.queue \in Seq(Epochs) /\ \A i \in DOMAIN win.queue : win.queue[i] \in Epochs
    BY DEF TypeOK
<1> QED BY <1>1, OneEpochMoves DEF QueueInv

\* An epoch joins the queue.
LEMMA QueueGrows ==
    ASSUME TypeOK, QueueInv, UNCHANGED plan, NEW e \in Epochs, To(e, "queued"),
           stage[e] # "queued", win'.queue = Append(win.queue, e)
    PROVE  QueueInv'
<1>1. win.queue \in Seq(Epochs) /\ \A i \in DOMAIN win.queue : win.queue[i] \in Epochs
    BY DEF TypeOK
<1>2. DOMAIN win'.queue = 1 .. Len(win.queue) + 1
      /\ \A i \in DOMAIN win'.queue : win'.queue[i] = IF i \in DOMAIN win.queue THEN win.queue[i] ELSE e
    BY <1>1
<1>3. \A i \in DOMAIN win'.queue : i \notin DOMAIN win.queue => i = Len(win.queue) + 1
    BY <1>1, <1>2
<1>4. \A x \in Epochs : stage'[x] = IF x = e THEN "queued" ELSE stage[x]
    BY OneEpochMoves DEF Stages
<1> QED BY <1>1, <1>2, <1>3, <1>4 DEF QueueInv

\* An epoch leaves the queue.
LEMMA QueueShrinks ==
    ASSUME TypeOK, QueueInv, UNCHANGED plan, NEW i \in DOMAIN win.queue, NEW s \in Stages,
           To(win.queue[i], s), win'.queue = RemoveAt(win.queue, i)
    PROVE  QueueInv'
<1> DEFINE q == win.queue
           r == RemoveAt(win.queue, i)
<1>1. q \in Seq(Epochs) /\ q[i] \in Epochs /\ i \in 1 .. Len(q)
    BY DEF TypeOK
<1>2. /\ r \in Seq(Epochs) /\ Len(r) = Len(q) - 1
      /\ \A j \in DOMAIN r : r[j] = IF j < i THEN q[j] ELSE q[j + 1]
    BY <1>1, RemoveAtKeepsOrder
<1>3. \A x \in Epochs : stage'[x] = IF x = q[i] THEN s ELSE stage[x]
    BY <1>1, OneEpochMoves
<1>4. /\ \A j \in DOMAIN q : stage[q[j]] = "queued"
      /\ \A j, k \in DOMAIN q : q[j] = q[k] => j = k
    BY DEF QueueInv
<1> HIDE DEF q, r
<1>5. ASSUME NEW j \in DOMAIN r PROVE j \in DOMAIN q /\ j + 1 \in DOMAIN q /\ j \in Int
    BY <1>1, <1>2
<1>6. ASSUME NEW j \in DOMAIN r PROVE r[j] \in Epochs /\ r[j] # q[i] /\ stage[r[j]] = "queued"
    <2>1. CASE j < i
        BY <2>1, <1>1, <1>2, <1>4, <1>5
    <2>2. CASE ~(j < i)
        <3>1. r[j] = q[j + 1] /\ j + 1 \in DOMAIN q /\ j + 1 # i
            BY <2>2, <1>1, <1>2, <1>5
        <3> QED BY <3>1, <1>1, <1>4
    <2> QED BY <2>1, <2>2
<1>7. ASSUME NEW j \in DOMAIN r, NEW k \in DOMAIN r, r[j] = r[k] PROVE j = k
    <2> DEFINE Place(n) == IF n < i THEN n ELSE n + 1
    <2>1. r[j] = q[Place(j)] /\ r[k] = q[Place(k)] /\ Place(j) \in DOMAIN q /\ Place(k) \in DOMAIN q
        BY <1>2, <1>5
    <2>2. Place(j) = Place(k)
        BY <2>1, <1>4, <1>7
    <2> QED BY <2>2, <1>5, <1>1
<1>8. win'.queue = r
    BY DEF r
<1> QED BY <1>3, <1>6, <1>7, <1>8 DEF QueueInv

\* The data that is there while one epoch moves.
LEMMA DataKept ==
    ASSUME TypeOK, DataInv, UNCHANGED <<plan, data>>, NEW e \in Epochs, NEW s \in Stages, To(e, s),
           stage[e] \notin {"queued", "done"} \/ s = "done" \/ e \notin Puts
    PROVE  DataInv'
<1>1. data \subseteq Puts /\ Puts \subseteq Epochs
    BY Shape
<1>2. stage'[e] = s /\ \A x \in Epochs : x # e => stage'[x] = stage[x]
    BY OneEpochMoves
<1> QED BY <1>1, <1>2 DEF DataInv

-----------------------------------------------------------------------------
(* The invariant of the queue. *)

LEMMA InitQInv == Init => QInv
<1> SUFFICES ASSUME Init PROVE QInv
    OBVIOUS
<1>1. win.queue = << >> /\ DOMAIN win.queue = {}
    BY DEF Init
<1>2. TypeOK
    <2>1. win \in Windows
        BY DEF Init, Windows, Types
    <2>2. stage \in [Epochs -> Stages] /\ data \subseteq Puts /\ left \subseteq Several /\ forgot \in BOOLEAN
        BY DEF Init, Stages
    <2> QED BY <2>1, <2>2 DEF Init, TypeOK, Windows
<1> QED BY <1>1, <1>2 DEF Init, QInv, QueueInv, DataInv, RepeatInv, PassedInv, QueueSatisfied

\* A lock that is granted outside the scan, with its operation or without.
LEMMA GrantKeepsQInv ==
    ASSUME QInv, UNCHANGED <<plan, data, left, forgot>>, win.pc \in {"out", "wait"},
           NEW e \in Epochs, stage[e] \notin {"queued", "done"}, Grants(win, LockType(e)),
           NEW a, a = Acquired(win, LockType(e)), NEW s \in Stages, To(e, s),
           win' = a \/ win' = Serve(a, 1)
    PROVE  QInv'
<1>1. TypeOK /\ QueueInv /\ DataInv /\ RepeatInv /\ win \in Windows /\ left' \subseteq Several /\ forgot' \in BOOLEAN
    BY Shape DEF QInv
<1>2. a \in Windows /\ a.type = LockType(e) /\ SameWork(a, win) /\ SameLoop(a, win)
    BY <1>1, LockKinds, AcquireEffect
<1>3. ASSUME win' = Serve(a, 1)
      PROVE  win' \in Windows /\ win'.queue = a.queue /\ win'.type = a.type /\ SameLoop(win', a)
    BY <1>2, <1>3, ServeEffect DEF Serve, SameLock
<1>4. /\ win' \in Windows /\ win'.queue = win.queue /\ win'.type = LockType(e)
      /\ SameLoop(win', win)
    BY <1>2, <1>3 DEF SameWork, SameLoop
<1>5. stage' \in [Epochs -> Stages]
    BY <1>1, OneEpochMoves
<1>6. QueueInv' /\ DataInv'
    BY <1>1, <1>4, QueueKept, DataKept
<1>7. \A t \in Kinds : Grants(win', t) => Grants(win, t)
    BY <1>4, LockKinds, AcquireGrantsNoMore
<1>8. /\ win'.pc = win.pc
      /\ win'.pc = "out" => win'.count = 0
      /\ win'.pc = "wait" => win'.temp <= win'.count
    BY <1>1, <1>4 DEF SameLoop, RepeatInv
<1> QED BY <1>1, <1>4, <1>5, <1>6, <1>7, <1>8, HandlerKeepsQInv

\* A request that joins the queue: nothing can be granted to it, or its data is awaited.
LEMMA EnqueueKeepsQInv ==
    ASSUME QInv, UNCHANGED <<plan, data, left, forgot>>, win.pc \in {"out", "wait"},
           NEW e \in Epochs, stage[e] = "requested", win' = Enqueued(win, e), To(e, "queued"),
           ~Grants(win, LockType(e)) \/ ~Ready(e)
    PROVE  QInv'
<1>1. TypeOK /\ QueueInv /\ DataInv /\ RepeatInv /\ win \in Windows /\ win.queue \in Seq(Epochs)
    BY Shape DEF QInv
<1>2. /\ win' \in Windows /\ win'.queue = Append(win.queue, e) /\ win'.type = win.type
      /\ SameLoop(win', win)
    <2>1. Append(win.queue, e) \in Seq(Epochs)
        BY <1>1
    <2> QED BY <2>1, <1>1 DEF Enqueued, Windows, SameLoop
<1>3. stage' \in [Epochs -> Stages] /\ QueueInv' /\ DataInv'
    BY <1>1, <1>2, OneEpochMoves, QueueGrows, DataKept DEF Stages
<1>4. TypeOK'
    BY <1>2, <1>3, SamePlan DEF QInv, TypeOK, Windows
<1>5. RepeatInv' /\ PassedInv'
    BY <1>1, <1>2 DEF RepeatInv, PassedInv, SameLoop
<1>6. QueueSatisfied'
    <2> SUFFICES ASSUME win.pc = "out", NEW i \in DOMAIN win'.queue, Ready(win'.queue[i])
                 PROVE  ~Grants(win, LockType(win'.queue[i]))
        BY <1>2, SamePlan DEF QueueSatisfied, Grants, SameLoop
    <2>1. win'.queue[i] = e \/ (i \in DOMAIN win.queue /\ win'.queue[i] = win.queue[i])
        BY <1>1, <1>2
    <2> QED BY <2>1 DEF QInv, QueueSatisfied
<1> QED BY <1>3, <1>4, <1>5, <1>6 DEF QInv

\* All data of a queued put is there.
LEMMA PutDataKeepsQInv ==
    ASSUME QInv, UNCHANGED plan, NEW e \in Epochs, SinglePutAccumComplete(e)
    PROVE  QInv'
<1>1. /\ TypeOK /\ QueueInv /\ DataInv /\ RepeatInv /\ PassedInv /\ QueueSatisfied
      /\ win \in Windows /\ win.queue \in Seq(Epochs) /\ left \subseteq Several
    BY Shape DEF QInv
<1>2. /\ win.pc \in {"out", "wait"} /\ stage[e] = "queued" /\ e \in Puts \ data
      /\ UNCHANGED <<left, forgot>> /\ "done" \in Stages
    BY DEF SinglePutAccumComplete, Polls, Stages
<1>3. ASSUME Grants(win, LockType(e)), NEW i \in DOMAIN win.queue, win.queue[i] = e,
             win' = Release_lock([Acquired(win, LockType(e)) EXCEPT !.queue = RemoveAt(@, i)]),
             To(e, "done"), UNCHANGED data
      PROVE  QInv'
    <2> DEFINE a == Acquired(win, LockType(e))
               w == [a EXCEPT !.queue = RemoveAt(@, i)]
    <2>1. a \in Windows /\ a.type = LockType(e) /\ SameWork(a, win) /\ SameLoop(a, win)
        BY <1>1, LockKinds, AcquireEffect
    <2> HIDE DEF a
    <2>2. w = [a EXCEPT !.queue = RemoveAt(a.queue, i)] /\ a.queue = win.queue
        BY <2>1 DEF Windows, SameWork
    <2>3. win' = Release_lock(w)
        BY <1>3 DEF a
    <2> HIDE DEF w
    <2>4. /\ w \in Windows /\ w.queue = RemoveAt(win.queue, i) /\ w.type = LockType(e)
          /\ SameLoop(w, win)
        BY <2>1, <2>2, RemoveEffect DEF SameLock, SameLoop
    <2>5. win'.queue = RemoveAt(win.queue, i)
        BY <2>3, <2>4, ReleaseEffect DEF SameWork
    <2>6. stage' \in [Epochs -> Stages] /\ QueueInv' /\ DataInv'
        BY <1>1, <1>2, <1>3, <2>5, OneEpochMoves, QueueShrinks, DataKept
    <2>7. \A t \in Kinds : Grants(w, t) => Grants(win, t)
        BY <1>3, <2>4, LockKinds, AcquireGrantsNoMore
    <2>8. ASSUME NEW k \in DOMAIN w.queue PROVE \E j \in DOMAIN win.queue : w.queue[k] = win.queue[j]
        <3>1. /\ RemoveAt(win.queue, i) \in Seq(Epochs)
              /\ Len(RemoveAt(win.queue, i)) = Len(win.queue) - 1
              /\ \A j \in DOMAIN RemoveAt(win.queue, i) :
                    RemoveAt(win.queue, i)[j] = IF j < i THEN win.queue[j] ELSE win.queue[j + 1]
            BY <1>1, RemoveAtKeepsOrder
        <3>2. k \in DOMAIN win.queue /\ k + 1 \in DOMAIN win.queue
            BY <1>1, <2>4, <3>1
        <3> QED BY <2>4, <3>1, <3>2
    <2> QED BY <1>1, <1>2, <1>3, <2>3, <2>4, <2>6, <2>7, <2>8, ReleaseKeepsQInv
<1>4. ASSUME ~Grants(win, LockType(e)), data' = data \cup {e}, UNCHANGED <<win, stage>>
      PROVE  QInv'
    <2>1. TypeOK' /\ QueueInv' /\ DataInv' /\ RepeatInv'
        BY <1>1, <1>2, <1>4, SamePlan DEF TypeOK, QueueInv, DataInv, RepeatInv
    <2>2. PassedInv'
        BY <1>2, <1>4 DEF PassedInv
    <2>3. QueueSatisfied'
        <3> SUFFICES ASSUME win.pc = "out", NEW i \in DOMAIN win.queue, Ready(win.queue[i])'
                     PROVE  ~Grants(win, LockType(win.queue[i]))
            BY <1>4, SamePlan DEF QueueSatisfied, Grants
        <3>1. win.queue[i] = e \/ Ready(win.queue[i])
            BY <1>4, SamePlan DEF Ready
        <3> QED BY <3>1, <1>1, <1>4 DEF QueueSatisfied
    <2> QED BY <2>1, <2>2, <2>3 DEF QInv
<1> QED BY <1>3, <1>4 DEF SinglePutAccumComplete

\* The steps of the packets, of the completions and of the target itself.
LEMMA HandlersKeepQInv ==
    ASSUME QInv, UNCHANGED plan, NEW e \in Epochs,
           Request(e) \/ Receive(e) \/ Win_lock(e) \/ Win_unlock(e)
    PROVE  QInv'
<1>1. /\ TypeOK /\ QueueInv /\ DataInv /\ RepeatInv /\ PassedInv /\ QueueSatisfied
      /\ win \in Windows /\ win.queue \in Seq(Epochs) /\ left \subseteq Several /\ forgot \in BOOLEAN
    BY Shape DEF QInv
<1>2. "requested" \in Stages /\ "granted" \in Stages /\ "serving" \in Stages /\ "done" \in Stages
    BY DEF Stages
<1>3. CASE Request(e)
    <2>1. stage[e] = "before" /\ To(e, "requested") /\ UNCHANGED <<win, data, left, forgot>>
        BY <1>3 DEF Request
    <2>2. stage' \in [Epochs -> Stages] /\ QueueInv' /\ DataInv'
        BY <1>1, <1>2, <2>1, OneEpochMoves, QueueKept, DataKept
    <2>3. TypeOK' /\ RepeatInv' /\ PassedInv' /\ QueueSatisfied'
        BY <1>1, <2>1, <2>2, SamePlan DEF TypeOK, RepeatInv, PassedInv, QueueSatisfied, Grants
    <2> QED BY <2>2, <2>3 DEF QInv
<1>4. CASE PktHandler_Lock(e)
    <2>1. /\ win.pc \in {"out", "wait"} /\ stage[e] = "requested"
          /\ UNCHANGED <<data, left, forgot>>
          /\ \/ Grants(win, LockType(e)) /\ win' = Acquired(win, LockType(e)) /\ To(e, "granted")
             \/ ~Grants(win, LockType(e)) /\ win' = Enqueued(win, e) /\ To(e, "queued")
        BY <1>4 DEF PktHandler_Lock, Polls
    <2> QED BY <2>1, <1>2, GrantKeepsQInv, EnqueueKeepsQInv
<1>5. CASE PktHandler_LockOpUnlock(e)
    <2>1. /\ win.pc \in {"out", "wait"} /\ stage[e] = "requested"
          /\ UNCHANGED <<data, left, forgot>>
          /\ \/ /\ e \notin Accs /\ Grants(win, LockType(e))
                /\ win' = Serve(Acquired(win, LockType(e)), 1) /\ To(e, "serving")
             \/ /\ e \in Accs \/ ~Grants(win, LockType(e))
                /\ win' = Enqueued(win, e) /\ To(e, "queued")
        BY <1>5 DEF PktHandler_LockOpUnlock, Polls
    <2>2. e \in Accs => ~Ready(e)
        BY <1>1, <2>1, EpochsAssumption DEF DataInv, Accs, Puts, Ready, TypeOK
    <2> QED BY <2>1, <2>2, <1>2, GrantKeepsQInv, EnqueueKeepsQInv
<1>6. CASE PktHandler_Put(e)
    <2> DEFINE n == IF e \in Several THEN 2 ELSE 1
    <2>1. /\ win.pc \in {"out", "wait"} /\ stage[e] = "granted" /\ To(e, "serving")
          /\ UNCHANGED <<data, left, forgot>> /\ win' = Serve(win, n) /\ n \in Int
        BY <1>6 DEF PktHandler_Put, Polls
    <2> HIDE DEF n
    <2>2. win' \in Windows /\ win'.queue = win.queue /\ win'.type = win.type /\ SameLoop(win', win)
        BY <1>1, <2>1, ServeEffect DEF Serve, SameLock
    <2>3. stage' \in [Epochs -> Stages] /\ QueueInv' /\ DataInv'
        BY <1>1, <1>2, <2>1, <2>2, OneEpochMoves, QueueKept, DataKept
    <2> QED BY <1>1, <2>1, <2>2, <2>3, QuietHandlerKeepsQInv
<1>7. CASE EarlierRespComplete(e)
    <2>1. /\ win.pc \in {"out", "wait"} /\ UNCHANGED <<data, stage, forgot>> /\ left' \subseteq Several
          /\ win' = [win EXCEPT !.outstanding = win.outstanding + (-1)]
        BY <1>1, <1>7 DEF EarlierRespComplete, Polls, Windows
    <2>2. win' \in Windows /\ win'.queue = win.queue /\ win'.type = win.type /\ SameLoop(win', win)
        <3>1. -1 \in Int
            OBVIOUS
        <3> QED BY <1>1, <2>1, <3>1, ServeEffect DEF SameLock
    <2>3. stage' \in [Epochs -> Stages] /\ QueueInv' /\ DataInv'
        BY <1>1, <2>1, <2>2 DEF TypeOK, QueueInv, DataInv
    <2> QED BY <1>1, <2>1, <2>2, <2>3, QuietHandlerKeepsQInv
<1>8. CASE RespComplete(e)
    <2> DEFINE w == [win EXCEPT !.outstanding = @ - 1]
    <2>1. /\ win.pc \in {"out", "wait"} /\ stage[e] = "serving" /\ To(e, "done")
          /\ UNCHANGED <<data, left, forgot>>
          /\ win' = IF w.type = "none" THEN w ELSE Release_lock(w)
        BY <1>8 DEF RespComplete, Polls
    <2>2. w = [win EXCEPT !.outstanding = win.outstanding + (-1)]
        BY <1>1 DEF Windows
    <2> HIDE DEF w
    <2>3. w \in Windows /\ w.queue = win.queue /\ w.type = win.type /\ SameLoop(w, win)
        <3>1. -1 \in Int
            OBVIOUS
        <3> QED BY <1>1, <2>2, <3>1, ServeEffect DEF SameLock
    <2>4. CASE win' = w
        <3>1. stage' \in [Epochs -> Stages] /\ QueueInv' /\ DataInv'
            BY <1>1, <1>2, <2>1, <2>3, <2>4, OneEpochMoves, QueueKept, DataKept
        <3> QED BY <1>1, <2>1, <2>3, <2>4, <3>1, QuietHandlerKeepsQInv
    <2>5. CASE win' = Release_lock(w)
        <3>1. win'.queue = win.queue
            BY <2>3, <2>5, ReleaseEffect DEF SameWork
        <3>2. stage' \in [Epochs -> Stages] /\ QueueInv' /\ DataInv'
            BY <1>1, <1>2, <2>1, <3>1, OneEpochMoves, QueueKept, DataKept
        <3>3. \A t \in Kinds : Grants(w, t) => Grants(win, t)
            BY <2>3 DEF Grants
        <3> QED BY <1>1, <2>1, <2>3, <2>5, <3>2, <3>3, ReleaseKeepsQInv
    <2> QED BY <2>1, <2>4, <2>5
<1>9. CASE SinglePutAccumComplete(e)
    BY <1>9, PutDataKeepsQInv
<1>10. CASE Win_lock(e)
    <2>1. /\ win.pc = "out" /\ stage[e] = "before" /\ Grants(win, LockType(e))
          /\ win' = Acquired(win, LockType(e)) /\ To(e, "granted")
          /\ UNCHANGED <<data, left, forgot>>
        BY <1>10 DEF Win_lock
    <2> QED BY <2>1, <1>2, GrantKeepsQInv
<1>11. CASE Win_unlock(e)
    <2>1. /\ win.pc = "out" /\ stage[e] = "granted" /\ To(e, "done")
          /\ win' = Release_lock(win) /\ UNCHANGED <<data, left, forgot>>
        BY <1>11 DEF Win_unlock
    <2>2. win'.queue = win.queue
        BY <1>1, <2>1, ReleaseEffect DEF SameWork
    <2>3. stage' \in [Epochs -> Stages] /\ QueueInv' /\ DataInv' /\ SameLoop(win, win)
        BY <1>1, <1>2, <2>1, <2>2, OneEpochMoves, QueueKept, DataKept DEF SameLoop
    <2> QED BY <1>1, <2>1, <2>3, ReleaseKeepsQInv
<1> QED BY <1>3, <1>4, <1>5, <1>6, <1>7, <1>8, <1>9, <1>10, <1>11 DEF Receive

\* An entry that is granted in the loop leaves the queue.
LEMMA DequeueEffect ==
    ASSUME TypeOK, QueueInv, GrantQueued,
           NEW w, w = Dequeued(Acquired(win, LockType(Here)))
    PROVE  /\ win.pc = "scan" /\ win.pos \in DOMAIN win.queue /\ Here = win.queue[win.pos]
           /\ Here \in Epochs /\ stage[Here] = "queued" /\ Grants(win, LockType(Here))
           /\ w \in Windows /\ w.type = LockType(Here) /\ w.outstanding = win.outstanding
           /\ w.ref = (IF LockType(Here) = "shared" THEN win.ref + 1 ELSE win.ref)
           /\ w.queue = RemoveAt(win.queue, win.pos) /\ SameLoop(w, win)
<1> DEFINE a == Acquired(win, LockType(Here))
<1>1. win \in Windows /\ win.queue \in Seq(Epochs) /\ win.pos \in Nat \ {0}
    BY Shape DEF Windows
<1>2. win.pc = "scan" /\ win.pos <= Len(win.queue) /\ Grants(win, LockType(Here))
    BY DEF GrantQueued, InLoop
<1>3. win.pos \in DOMAIN win.queue /\ Here = win.queue[win.pos] /\ Here \in Epochs
    BY <1>1, <1>2 DEF Here
<1>4. stage[Here] = "queued"
    BY <1>3 DEF QueueInv
<1>5. /\ a \in Windows /\ a.type = LockType(Here) /\ SameWork(a, win) /\ SameLoop(a, win)
      /\ a.ref = (IF LockType(Here) = "shared" THEN win.ref + 1 ELSE win.ref)
    BY <1>1, LockKinds, AcquireEffect
<1> HIDE DEF a
<1>6. w = [a EXCEPT !.queue = RemoveAt(a.queue, win.pos)] /\ win.pos \in DOMAIN a.queue
    <2>1. w = Dequeued(a)
        BY DEF a
    <2>2. a.pos = win.pos /\ a.queue = win.queue
        BY <1>5 DEF SameWork, SameLoop
    <2> QED BY <2>1, <2>2, <1>3, <1>5 DEF Dequeued, Windows
<1>7. /\ w \in Windows /\ w.queue = RemoveAt(a.queue, win.pos) /\ w.outstanding = a.outstanding
      /\ SameLock(w, a) /\ SameLoop(w, a)
    BY <1>5, <1>6, RemoveEffect
<1> QED BY <1>2, <1>3, <1>4, <1>5, <1>7 DEF SameWork, SameLock, SameLoop

\* What the loop does with the window w that the entry e has left.
LEMMA GrantEffect ==
    ASSUME NEW w \in Windows, NEW e \in Epochs, NEW r, w.type = LockType(e), w.pc = "scan",
           \/ r = ReleasedInLoop(w)
           \/ r = AfterGrant(Serve(w, 1), e)
           \/ r = AfterGrant(Release_lock(w), e)
           \/ r = AfterGrant(w, e)
    PROVE  /\ r \in Windows /\ r.queue = w.queue
           /\ \/ r.pc = "scan" /\ r.pos = w.pos /\ r.temp = w.temp /\ r.count \in {w.count, w.count + 1}
              \/ r.pc = "out" /\ r.count = 0 /\ r.type = "exclusive"
              \/ /\ r.pc = "wait" /\ r.temp = w.temp + 1 /\ r.count # w.temp
                 /\ r.count \in {w.count, w.count + 1}
<1>1. w.temp \in Nat /\ w.count \in Nat
    BY DEF Windows
<1>2. CASE r = ReleasedInLoop(w)
    BY <1>1, <1>2, ReleaseInLoopEffect DEF SameWork, SameLoop
<1>3. ASSUME NEW v \in Windows, v.queue = w.queue, v.type = w.type, v.pc = "scan", v.pos = w.pos,
             v.temp = w.temp,
             v.count = w.count \/ v.count = w.count + 1,
             r = AfterGrant(v, e)
      PROVE  /\ r \in Windows /\ r.queue = w.queue
             /\ \/ r.pc = "scan" /\ r.pos = w.pos /\ r.temp = w.temp /\ r.count = v.count
                \/ r.pc = "out" /\ r.count = 0 /\ r.type = "exclusive"
                \/ r.pc = "wait" /\ r.temp = w.temp + 1 /\ w.temp # v.count /\ r.count = v.count
    <2>1. CASE e \in Exclusive
        <3>1. r = EndOfLoop(v) /\ v.type = "exclusive"
            BY <2>1, <1>3 DEF AfterGrant, BreaksLoop, LockType
        <3> QED BY <3>1, <1>3, EndEffect DEF SameWork, SameLock
    <2>2. CASE e \notin Exclusive
        <3>1. r = v
            BY <2>2, <1>3 DEF AfterGrant, BreaksLoop
        <3> QED BY <3>1, <1>3
    <2> QED BY <2>1, <2>2
<1>4. CASE r = AfterGrant(Serve(w, 1), e)
    <2> DEFINE v == Serve(w, 1)
    <2>1. v \in Windows /\ v.queue = w.queue /\ SameLock(v, w) /\ SameLoop(v, w)
        BY ServeEffect DEF Serve
    <2> HIDE DEF v
    <2>2. r = AfterGrant(v, e)
        BY <1>4 DEF v
    <2> QED BY <1>1, <1>3, <2>1, <2>2 DEF SameLock, SameLoop
<1>5. CASE r = AfterGrant(Release_lock(w), e)
    <2> DEFINE v == Release_lock(w)
    <2>1. /\ v \in Windows /\ v.queue = w.queue /\ v.type = w.type /\ v.pos = w.pos
          /\ v.pc = "scan" /\ v.temp = w.temp /\ (v.count = w.count \/ v.count = w.count + 1)
        BY ReleaseEffect DEF SameWork, SameLoop
    <2> HIDE DEF v
    <2>2. r = AfterGrant(v, e)
        BY <1>5 DEF v
    <2> QED BY <1>1, <1>3, <2>1, <2>2
<1>6. CASE r = AfterGrant(w, e)
    BY <1>1, <1>3, <1>6
<1> QED BY <1>2, <1>4, <1>5, <1>6

\* The steps of the loop.
LEMMA LoopKeepsQInv ==
    ASSUME QInv, UNCHANGED plan, Loop
    PROVE  QInv'
<1>1. /\ TypeOK /\ QueueInv /\ DataInv /\ RepeatInv /\ PassedInv
      /\ win \in Windows /\ win.queue \in Seq(Epochs) /\ win.pos \in Nat \ {0}
      /\ win.temp \in Nat /\ win.count \in Nat
    BY Shape DEF QInv, Windows
<1>2. data' = data /\ left' = left /\ forgot' \in BOOLEAN
    BY <1>1 DEF Loop, StartLoop, SkipNotReady, GrantQueued, EndLoop, TypeOK
<1>3. ASSUME stage' = stage, win' \in Windows, win'.queue = win.queue
      PROVE  TypeOK' /\ QueueInv' /\ DataInv'
    BY <1>1, <1>2, <1>3, SamePlan DEF TypeOK, Windows, QueueInv, DataInv
<1>4. CASE StartLoop
    <2>1. /\ win.pc = "wait" /\ win' = [win EXCEPT !.type = "none", !.pos = 1, !.pc = "scan"]
          /\ stage' = stage
        BY <1>4 DEF StartLoop
    <2>2. /\ win' \in Windows /\ win'.queue = win.queue /\ win'.pc = "scan" /\ win'.pos = 1
          /\ win'.count = win.count /\ win'.temp = win.temp
        <3>1. 1 \in Nat \ {0}
            OBVIOUS
        <3> QED BY <2>1, <3>1, <1>1 DEF Windows, Types
    <2>3. RepeatInv' /\ PassedInv' /\ QueueSatisfied'
        BY <1>1, <2>1, <2>2 DEF RepeatInv, PassedInv, QueueSatisfied
    <2> QED BY <1>3, <2>1, <2>2, <2>3 DEF QInv
<1>5. CASE SkipNotReady
    <2>1. /\ win.pc = "scan" /\ ~Ready(win.queue[win.pos]) /\ stage' = stage
          /\ win' = [win EXCEPT !.pos = win.pos + 1]
        BY <1>5 DEF SkipNotReady, InLoop, Here
    <2>2. win.pos + 1 \in Nat \ {0}
        BY <1>1
    <2>3. /\ win' \in Windows /\ win'.queue = win.queue /\ win'.pc = "scan"
          /\ win'.pos = win.pos + 1 /\ win'.count = win.count /\ win'.temp = win.temp
        BY <2>1, <2>2, <1>1 DEF Windows
    <2>4. PassedInv'
        <3> SUFFICES ASSUME NEW i \in DOMAIN win.queue, i < win.pos + 1 PROVE ~Ready(win.queue[i])
            BY <1>2, <2>3, SamePlan DEF PassedInv
        <3>1. i = win.pos \/ i < win.pos
            BY <1>1
        <3> QED BY <3>1, <2>1, <1>1 DEF PassedInv
    <2>5. RepeatInv' /\ QueueSatisfied'
        BY <1>1, <2>1, <2>3 DEF RepeatInv, QueueSatisfied
    <2> QED BY <1>3, <2>1, <2>3, <2>4, <2>5 DEF QInv
<1>6. CASE EndLoop
    <2>1. win.pc = "scan" /\ win.pos > Len(win.queue) /\ win' = EndOfLoop(win) /\ stage' = stage
        BY <1>6 DEF EndLoop
    <2>2. /\ win' \in Windows /\ win'.queue = win.queue /\ win'.type = win.type
          /\ \/ win'.pc = "out" /\ win'.count = 0
             \/ win.temp # win.count /\ win'.pc = "wait" /\ win'.temp = win.temp + 1 /\ win'.count = win.count
        BY <2>1, <1>1, EndEffect DEF SameWork, SameLock
    <2>3. RepeatInv' /\ PassedInv'
        BY <1>1, <2>1, <2>2 DEF RepeatInv, PassedInv
    <2>4. \A i \in DOMAIN win.queue : ~Ready(win.queue[i])
        <3> TAKE i \in DOMAIN win.queue
        <3>1. i < win.pos
            BY <1>1, <2>1
        <3> QED BY <3>1, <1>1, <2>1 DEF PassedInv
    <2>5. QueueSatisfied'
        BY <1>2, <2>2, <2>4, SamePlan DEF QueueSatisfied
    <2> QED BY <1>3, <2>1, <2>2, <2>3, <2>5 DEF QInv
<1>7. CASE GrantQueued
    <2> DEFINE e == Here
               w == Dequeued(Acquired(win, LockType(Here)))
    <2>1. /\ win.pc = "scan" /\ win.pos \in DOMAIN win.queue /\ e = win.queue[win.pos]
          /\ e \in Epochs /\ stage[e] = "queued"
          /\ w \in Windows /\ w.type = LockType(e)
          /\ w.queue = RemoveAt(win.queue, win.pos) /\ SameLoop(w, win)
        BY <1>1, <1>7, DequeueEffect
    <2>2. /\ \/ win' = ReleasedInLoop(w) \/ win' = AfterGrant(Serve(w, 1), e)
             \/ win' = AfterGrant(Release_lock(w), e) \/ win' = AfterGrant(w, e)
          /\ \/ To(e, "done")
             \/ e \notin Puts /\ (To(e, "serving") \/ To(e, "granted"))
        BY <1>1, <1>7, EpochsAssumption DEF GrantQueued, Puts, Gets, TypeOK
    <2> HIDE DEF e, w
    <2>3. w.pc = "scan" /\ w.pos = win.pos /\ w.temp = win.temp /\ w.count = win.count
        BY <2>1 DEF SameLoop
    <2>4. /\ win' \in Windows /\ win'.queue = RemoveAt(win.queue, win.pos)
          /\ \/ /\ win'.pc = "scan" /\ win'.pos = win.pos /\ win'.temp = win.temp
                /\ win'.count \in {win.count, win.count + 1}
             \/ win'.pc = "out" /\ win'.count = 0 /\ win'.type = "exclusive"
             \/ /\ win'.pc = "wait" /\ win'.temp = win.temp + 1 /\ win'.count # win.temp
                /\ win'.count \in {win.count, win.count + 1}
        BY <2>1, <2>2, <2>3, GrantEffect
    <2>5. stage' \in [Epochs -> Stages] /\ QueueInv' /\ DataInv'
        <3>1. PICK s \in {"done", "serving", "granted"} : To(e, s) /\ (s = "done" \/ e \notin Puts)
            BY <2>2
        <3>2. s \in Stages
            BY DEF Stages
        <3> QED BY <1>1, <1>2, <2>1, <2>4, <3>1, <3>2, OneEpochMoves, QueueShrinks, DataKept
    <2>6. TypeOK'
        BY <1>1, <1>2, <2>4, <2>5, SamePlan DEF TypeOK, Windows
    <2>7. RepeatInv'
        BY <1>1, <2>1, <2>4 DEF RepeatInv
    <2>8. PassedInv'
        <3> SUFFICES ASSUME win'.pc = "scan", NEW i \in DOMAIN RemoveAt(win.queue, win.pos), i < win.pos
                     PROVE  ~Ready(RemoveAt(win.queue, win.pos)[i])
            BY <1>2, <2>4, SamePlan DEF PassedInv
        <3>1. /\ RemoveAt(win.queue, win.pos) \in Seq(Epochs)
              /\ Len(RemoveAt(win.queue, win.pos)) = Len(win.queue) - 1
              /\ RemoveAt(win.queue, win.pos)[i] = win.queue[i]
            BY <1>1, <2>1, RemoveAtKeepsOrder
        <3>2. i \in DOMAIN win.queue
            BY <1>1, <3>1
        <3> QED BY <3>1, <3>2, <1>1, <2>1 DEF PassedInv
    <2>9. QueueSatisfied'
        BY <2>4 DEF QueueSatisfied, Grants, LockType
    <2> QED BY <2>5, <2>6, <2>7, <2>8, <2>9 DEF QInv
<1> QED BY <1>4, <1>5, <1>6, <1>7 DEF Loop

LEMMA NextKeepsQInv == QInv /\ [Next]_vars => QInv'
<1> SUFFICES ASSUME QInv, [Next]_vars PROVE QInv'
    OBVIOUS
<1>1. CASE Next
    BY <1>1, HandlersKeepQInv, LoopKeepsQInv DEF Next
<1>2. CASE UNCHANGED vars
    <2>1. UNCHANGED <<plan, win, stage, data, left, forgot>>
        BY <1>2 DEF vars
    <2>2. TypeOK' /\ QueueInv' /\ DataInv' /\ RepeatInv'
        BY <2>1, SamePlan DEF QInv, TypeOK, QueueInv, DataInv, RepeatInv
    <2>3. PassedInv' /\ QueueSatisfied'
        BY <2>1, SamePlan DEF QInv, PassedInv, QueueSatisfied, Grants
    <2> QED BY <2>2, <2>3 DEF QInv
<1> QED BY <1>1, <1>2

-----------------------------------------------------------------------------
(* The count of the operations under way. *)

Count == Cardinality(Serving) + Cardinality(Under) - Cardinality(Early)

\* What an epoch at stage s contributes to the count.
Weight(e, s) ==
    (IF s = "serving" THEN 1 ELSE 0) + (IF e \in left /\ s \in {"serving", "done"} THEN 1 ELSE 0)
        - (IF e \in Several \ left /\ s = "granted" THEN 1 ELSE 0)

LEMMA FiniteParts ==
    ASSUME TypeOK
    PROVE  /\ IsFiniteSet(Serving) /\ IsFiniteSet(Under) /\ IsFiniteSet(Early)
           /\ Cardinality(Serving) \in Nat /\ Cardinality(Under) \in Nat /\ Cardinality(Early) \in Nat
<1>1. Several \subseteq Epochs /\ left \subseteq Several /\ IsFiniteSet(Epochs)
    BY Shape, EpochsAssumption
<1>2. Serving \in SUBSET Epochs /\ Under \in SUBSET Epochs /\ Early \in SUBSET Epochs
    BY <1>1 DEF Serving, Under, Early
<1>3. IsFiniteSet(Serving) /\ IsFiniteSet(Under) /\ IsFiniteSet(Early)
    BY <1>1, <1>2, FS_Subset
<1> QED BY <1>3, FS_CardinalityType

\* A set with or without one element.
LEMMA WithOrWithout ==
    ASSUME NEW S, IsFiniteSet(S), NEW e, NEW T, NEW b \in BOOLEAN,
           T = IF b THEN S \cup {e} ELSE S \ {e}
    PROVE  Cardinality(T) = Cardinality(S) + (IF b THEN 1 ELSE 0) - (IF e \in S THEN 1 ELSE 0)
<1>1. Cardinality(S) \in Nat
    BY FS_CardinalityType
<1>2. CASE b
    <2>1. T = S \cup {e}
        BY <1>2
    <2>2. Cardinality(S \cup {e}) = IF e \in S THEN Cardinality(S) ELSE Cardinality(S) + 1
        BY FS_AddElement
    <2> QED BY <1>1, <1>2, <2>1, <2>2
<1>3. CASE ~b
    <2>1. T = S \ {e}
        BY <1>3
    <2>2. Cardinality(S \ {e}) = IF e \in S THEN Cardinality(S) - 1 ELSE Cardinality(S)
        BY FS_RemoveElement
    <2> QED BY <1>1, <1>3, <2>1, <2>2
<1> QED BY <1>2, <1>3

\* The count follows the step of one epoch.
LEMMA CountMoves ==
    ASSUME TypeOK, UNCHANGED <<plan, left>>, NEW e \in Epochs, NEW s \in Stages, To(e, s)
    PROVE  Count \in Int /\ Count' = Count + Weight(e, s) - Weight(e, stage[e])
<1> DEFINE bs == s = "serving"
           bu == e \in left /\ s \in {"serving", "done"}
           be == e \in Several \ left /\ s = "granted"
<1>1. /\ stage'[e] = s /\ (\A x \in Epochs : x # e => stage'[x] = stage[x])
      /\ Several' = Several /\ Several \subseteq Epochs /\ left \subseteq Several
    BY OneEpochMoves, SamePlan, Shape
<1>2. Serving' = IF bs THEN Serving \cup {e} ELSE Serving \ {e}
    BY <1>1 DEF Serving
<1>3. Under' = IF bu THEN Under \cup {e} ELSE Under \ {e}
    BY <1>1 DEF Under
<1>4. Early' = IF be THEN Early \cup {e} ELSE Early \ {e}
    BY <1>1 DEF Early
<1>5. /\ e \in Serving <=> stage[e] = "serving"
      /\ e \in Under <=> e \in left /\ stage[e] \in {"serving", "done"}
      /\ e \in Early <=> e \in Several \ left /\ stage[e] = "granted"
    BY DEF Serving, Under, Early
<1>6. bs \in BOOLEAN /\ bu \in BOOLEAN /\ be \in BOOLEAN
    OBVIOUS
<1> HIDE DEF bs, bu, be
<1> DEFINE cs == Cardinality(Serving')
           cu == Cardinality(Under')
           ce == Cardinality(Early')
<1>7. cs = Cardinality(Serving) + (IF bs THEN 1 ELSE 0) - (IF e \in Serving THEN 1 ELSE 0)
    BY <1>2, <1>6, FiniteParts, WithOrWithout
<1>8. cu = Cardinality(Under) + (IF bu THEN 1 ELSE 0) - (IF e \in Under THEN 1 ELSE 0)
    BY <1>3, <1>6, FiniteParts, WithOrWithout
<1>9. ce = Cardinality(Early) + (IF be THEN 1 ELSE 0) - (IF e \in Early THEN 1 ELSE 0)
    BY <1>4, <1>6, FiniteParts, WithOrWithout
<1>10. Count' = cs + cu - ce
    BY DEF Count
<1>11. Weight(e, s) = (IF bs THEN 1 ELSE 0) + (IF bu THEN 1 ELSE 0) - (IF be THEN 1 ELSE 0)
    BY DEF Weight, bs, bu, be
<1>12. Weight(e, stage[e]) = (IF e \in Serving THEN 1 ELSE 0) + (IF e \in Under THEN 1 ELSE 0)
                               - (IF e \in Early THEN 1 ELSE 0)
    BY <1>5 DEF Weight
<1> HIDE DEF cs, cu, ce
<1> QED BY <1>7, <1>8, <1>9, <1>10, <1>11, <1>12, FiniteParts DEF Count

\* The count is right after the step of one epoch that changes it by its weight.
LEMMA MoveKeepsCount ==
    ASSUME TypeOK, CountInv, UNCHANGED <<plan, left>>, NEW e \in Epochs, NEW s \in Stages, To(e, s),
           NEW n \in Int, win'.outstanding = win.outstanding + n,
           Weight(e, s) = Weight(e, stage[e]) + n,
           s \in {"before", "requested", "queued"} => stage[e] \in {"before", "requested", "queued"}
    PROVE  CountInv'
<1>1. Count \in Int /\ Count' = Count + Weight(e, s) - Weight(e, stage[e])
    BY CountMoves
<1>2. win.outstanding = Count
    BY DEF CountInv, Count
<1>3. Weight(e, stage[e]) \in Int
    BY DEF Weight
<1>4. win'.outstanding = Count'
    BY <1>1, <1>2, <1>3
<1>5. \A x \in Several : stage'[x] \in {"before", "requested", "queued"} => x \in left
    BY OneEpochMoves, Shape DEF CountInv
<1> QED BY <1>4, <1>5, SamePlan DEF CountInv, Count

LEMMA InitCountInv == Init => CountInv
<1> SUFFICES ASSUME Init PROVE CountInv
    OBVIOUS
<1>1. Several \subseteq Epochs
    BY EpochsAssumption DEF Init, Several
<1>2. Serving = {} /\ Under = {} /\ Early = {}
    BY <1>1 DEF Init, Serving, Under, Early
<1> QED BY <1>2, FS_EmptySet DEF Init, CountInv

LEMMA EarlierKeepsCountInv ==
    ASSUME TypeOK, CountInv, UNCHANGED plan, NEW e \in Epochs, EarlierRespComplete(e)
    PROVE  CountInv'
<1>1. /\ e \in left /\ stage[e] \in {"granted", "serving", "done"} /\ stage' = stage
      /\ left' = left \ {e} /\ win' = [win EXCEPT !.outstanding = @ - 1]
    BY DEF EarlierRespComplete
<1>2. /\ left \subseteq Several /\ Several' = Several /\ win \in Windows
    BY Shape, SamePlan
<1>3. win'.outstanding = win.outstanding - 1 /\ win.outstanding \in Int
    BY <1>1, <1>2 DEF Windows
<1>4. Serving' = Serving
    BY <1>1 DEF Serving
<1>5. CASE stage[e] = "granted"
    <2>1. Under' = Under /\ Early' = Early \cup {e} /\ e \notin Early
        BY <1>1, <1>2, <1>5 DEF Under, Early
    <2>2. Cardinality(Early') = Cardinality(Early) + 1
        BY <2>1, FiniteParts, FS_AddElement
    <2> QED BY <1>1, <1>2, <1>3, <1>4, <2>1, <2>2, FiniteParts DEF CountInv
<1>6. CASE stage[e] \in {"serving", "done"}
    <2>1. Under' = Under \ {e} /\ Early' = Early /\ e \in Under
        BY <1>1, <1>2, <1>6 DEF Under, Early
    <2>2. Cardinality(Under') = Cardinality(Under) - 1
        BY <2>1, FiniteParts, FS_RemoveElement
    <2> QED BY <1>1, <1>2, <1>3, <1>4, <1>6, <2>1, <2>2, FiniteParts DEF CountInv
<1> QED BY <1>1, <1>5, <1>6

LEMMA HandlersKeepCountInv ==
    ASSUME TypeOK, CountInv, UNCHANGED plan, NEW e \in Epochs,
           Request(e) \/ Receive(e) \/ Win_lock(e) \/ Win_unlock(e)
    PROVE  CountInv'
<1>1. /\ win \in Windows /\ win.outstanding \in Int /\ left \subseteq Several
      /\ Several \cap (Puts \cup Gets \cup Local) = {}
      /\ e \in Several /\ stage[e] \in {"before", "requested", "queued"} => e \in left
    BY Shape DEF Windows, CountInv
<1>2. /\ "requested" \in Stages /\ "queued" \in Stages /\ "granted" \in Stages
      /\ "serving" \in Stages /\ "done" \in Stages /\ 0 \in Int /\ 1 \in Int /\ 2 \in Int /\ -1 \in Int
    BY DEF Stages
<1>3. win.outstanding + 0 = win.outstanding
    BY <1>1
<1>4. CASE Request(e)
    <2>1. stage[e] = "before" /\ To(e, "requested") /\ win' = win /\ left' = left
        BY <1>4 DEF Request
    <2>2. Weight(e, "requested") = Weight(e, stage[e]) + 0
        BY <2>1 DEF Weight
    <2> QED BY <1>2, <1>3, <2>1, <2>2, MoveKeepsCount
<1>5. CASE PktHandler_Lock(e)
    <2>1. stage[e] = "requested" /\ left' = left /\ e \notin Puts \cup Gets
        BY <1>5 DEF PktHandler_Lock
    <2>2. CASE Grants(win, LockType(e))
        <3>1. win' = Acquired(win, LockType(e)) /\ To(e, "granted")
            BY <1>5, <2>2 DEF PktHandler_Lock
        <3>2. win'.outstanding = win.outstanding
            BY <1>1, <3>1, LockKinds, AcquireEffect DEF SameWork
        <3>3. Weight(e, "granted") = Weight(e, stage[e]) + 0
            BY <1>1, <2>1 DEF Weight
        <3> QED BY <1>2, <1>3, <2>1, <3>1, <3>2, <3>3, MoveKeepsCount
    <2>3. CASE ~Grants(win, LockType(e))
        <3>1. win' = Enqueued(win, e) /\ To(e, "queued")
            BY <1>5, <2>3 DEF PktHandler_Lock
        <3>2. win'.outstanding = win.outstanding
            BY <1>1, <3>1 DEF Enqueued, Windows
        <3>3. Weight(e, "queued") = Weight(e, stage[e]) + 0
            BY <2>1 DEF Weight
        <3> QED BY <1>2, <1>3, <2>1, <3>1, <3>2, <3>3, MoveKeepsCount
    <2> QED BY <2>2, <2>3
<1>6. CASE PktHandler_LockOpUnlock(e)
    <2>1. stage[e] = "requested" /\ left' = left /\ e \in Puts \cup Gets
        BY <1>6 DEF PktHandler_LockOpUnlock
    <2>2. CASE e \notin Accs /\ Grants(win, LockType(e))
        <3>1. win' = Serve(Acquired(win, LockType(e)), 1) /\ To(e, "serving")
            BY <1>6, <2>2 DEF PktHandler_LockOpUnlock
        <3>2. win'.outstanding = win.outstanding + 1
            <4> DEFINE a == Acquired(win, LockType(e))
            <4>1. a \in Windows /\ a.outstanding = win.outstanding
                BY <1>1, LockKinds, AcquireEffect DEF SameWork
            <4> HIDE DEF a
            <4>2. Serve(a, 1).outstanding = a.outstanding + 1
                BY <4>1, ServeEffect DEF Serve
            <4> QED BY <4>1, <4>2, <3>1 DEF a
        <3>3. Weight(e, "serving") = Weight(e, stage[e]) + 1
            BY <1>1, <2>1 DEF Weight
        <3> QED BY <1>2, <2>1, <3>1, <3>2, <3>3, MoveKeepsCount
    <2>3. CASE ~(e \notin Accs /\ Grants(win, LockType(e)))
        <3>1. win' = Enqueued(win, e) /\ To(e, "queued")
            BY <1>6, <2>3 DEF PktHandler_LockOpUnlock
        <3>2. win'.outstanding = win.outstanding
            BY <1>1, <3>1 DEF Enqueued, Windows
        <3>3. Weight(e, "queued") = Weight(e, stage[e]) + 0
            BY <2>1 DEF Weight
        <3> QED BY <1>2, <1>3, <2>1, <3>1, <3>2, <3>3, MoveKeepsCount
    <2> QED BY <2>2, <2>3
<1>7. CASE PktHandler_Put(e)
    <2> DEFINE n == IF e \in Several THEN 2 ELSE 1
    <2>1. /\ stage[e] = "granted" /\ left' = left /\ To(e, "serving") /\ win' = Serve(win, n)
          /\ n \in Int
        BY <1>7 DEF PktHandler_Put
    <2>2. Weight(e, "serving") = Weight(e, stage[e]) + n
        BY <1>1, <2>1 DEF Weight
    <2> HIDE DEF n
    <2>3. win'.outstanding = win.outstanding + n
        BY <1>1, <2>1, ServeEffect DEF Serve
    <2> QED BY <1>2, <2>1, <2>2, <2>3, MoveKeepsCount
<1>8. CASE RespComplete(e)
    <2> DEFINE w == [win EXCEPT !.outstanding = @ - 1]
    <2>1. /\ stage[e] = "serving" /\ To(e, "done") /\ left' = left
          /\ win' = IF w.type = "none" THEN w ELSE Release_lock(w)
        BY <1>8 DEF RespComplete
    <2>2. w = [win EXCEPT !.outstanding = win.outstanding + (-1)]
        BY <1>1 DEF Windows
    <2> HIDE DEF w
    <2>3. w \in Windows /\ w.outstanding = win.outstanding + (-1)
        BY <1>1, <1>2, <2>2, ServeEffect
    <2>4. win'.outstanding = w.outstanding
        BY <2>1, <2>3, ReleaseEffect DEF SameWork
    <2>5. Weight(e, "done") = Weight(e, stage[e]) + (-1)
        BY <2>1 DEF Weight
    <2> QED BY <1>2, <2>1, <2>3, <2>4, <2>5, MoveKeepsCount
<1>9. CASE SinglePutAccumComplete(e)
    <2>1. /\ stage[e] = "queued" /\ e \in Puts \ data /\ left' = left
        BY <1>9 DEF SinglePutAccumComplete
    <2>2. ASSUME NEW i \in DOMAIN win.queue, To(e, "done"),
                 win' = Release_lock([Acquired(win, LockType(e)) EXCEPT !.queue = RemoveAt(@, i)])
          PROVE  CountInv'
        <3> DEFINE a == Acquired(win, LockType(e))
                   w == [a EXCEPT !.queue = RemoveAt(@, i)]
        <3>1. a \in Windows /\ SameWork(a, win)
            BY <1>1, LockKinds, AcquireEffect
        <3> HIDE DEF a
        <3>2. w = [a EXCEPT !.queue = RemoveAt(a.queue, i)] /\ i \in DOMAIN a.queue
            BY <3>1 DEF Windows, SameWork
        <3>3. win' = Release_lock(w)
            BY <2>2 DEF a
        <3> HIDE DEF w
        <3>4. w \in Windows /\ w.outstanding = win.outstanding
            BY <3>1, <3>2, RemoveEffect DEF SameWork
        <3>5. win'.outstanding = win.outstanding
            BY <3>3, <3>4, ReleaseEffect DEF SameWork
        <3>6. Weight(e, "done") = Weight(e, stage[e]) + 0
            BY <1>1, <2>1 DEF Weight
        <3> QED BY <1>2, <1>3, <2>1, <2>2, <3>5, <3>6, MoveKeepsCount
    <2>3. ASSUME UNCHANGED <<win, stage>> PROVE CountInv'
        BY <2>1, <2>3, SamePlan DEF CountInv, Serving, Under, Early
    <2> QED BY <1>9, <2>2, <2>3 DEF SinglePutAccumComplete
<1>10. CASE Win_lock(e)
    <2>1. /\ stage[e] = "before" /\ To(e, "granted") /\ left' = left /\ e \in Local
          /\ win' = Acquired(win, LockType(e))
        BY <1>10 DEF Win_lock
    <2>2. win'.outstanding = win.outstanding
        BY <1>1, <2>1, LockKinds, AcquireEffect DEF SameWork
    <2>3. Weight(e, "granted") = Weight(e, stage[e]) + 0
        BY <1>1, <2>1 DEF Weight
    <2> QED BY <1>2, <1>3, <2>1, <2>2, <2>3, MoveKeepsCount
<1>11. CASE Win_unlock(e)
    <2>1. /\ stage[e] = "granted" /\ To(e, "done") /\ left' = left /\ e \in Local
          /\ win' = Release_lock(win)
        BY <1>11 DEF Win_unlock
    <2>2. win'.outstanding = win.outstanding
        BY <1>1, <2>1, ReleaseEffect DEF SameWork
    <2>3. Weight(e, "done") = Weight(e, stage[e]) + 0
        BY <1>1, <2>1 DEF Weight
    <2> QED BY <1>2, <1>3, <2>1, <2>2, <2>3, MoveKeepsCount
<1>12. CASE EarlierRespComplete(e)
    BY <1>12, EarlierKeepsCountInv
<1> QED BY <1>4, <1>5, <1>6, <1>7, <1>8, <1>9, <1>10, <1>11, <1>12 DEF Receive

\* How many operations the loop serves with an entry.
LEMMA GrantWork ==
    ASSUME NEW w \in Windows, NEW e
    PROVE  /\ ReleasedInLoop(w).outstanding = w.outstanding
           /\ AfterGrant(Serve(w, 1), e).outstanding = w.outstanding + 1
           /\ AfterGrant(Release_lock(w), e).outstanding = w.outstanding
           /\ AfterGrant(w, e).outstanding = w.outstanding
<1>1. ASSUME NEW v \in Windows PROVE AfterGrant(v, e).outstanding = v.outstanding
    BY <1>1, EndEffect DEF AfterGrant, SameWork
<1>2. Serve(w, 1) \in Windows /\ Serve(w, 1).outstanding = w.outstanding + 1
    BY ServeEffect DEF Serve
<1>3. Release_lock(w) \in Windows /\ Release_lock(w).outstanding = w.outstanding
    BY ReleaseEffect DEF SameWork
<1>4. ReleasedInLoop(w).outstanding = w.outstanding
    BY ReleaseInLoopEffect DEF SameWork
<1> QED BY <1>1, <1>2, <1>3, <1>4

LEMMA LoopKeepsCountInv ==
    ASSUME TypeOK, QueueInv, CountInv, UNCHANGED plan, Loop
    PROVE  CountInv'
<1>1. /\ win \in Windows /\ win.outstanding \in Int /\ left' = left /\ left \subseteq Several
      /\ Several \cap (Puts \cup Gets \cup Local) = {}
    BY Shape DEF Windows, Loop, StartLoop, SkipNotReady, GrantQueued, EndLoop
<1>2. CASE StartLoop \/ SkipNotReady \/ EndLoop
    <2>1. stage' = stage
        BY <1>2 DEF StartLoop, SkipNotReady, EndLoop
    <2>2. win'.outstanding = win.outstanding
        BY <1>1, <1>2, EndEffect DEF StartLoop, SkipNotReady, EndLoop, Windows, SameWork
    <2> QED BY <1>1, <2>1, <2>2, SamePlan DEF CountInv, Serving, Under, Early
<1>3. CASE GrantQueued
    <2> DEFINE e == Here
               w == Dequeued(Acquired(win, LockType(Here)))
    <2>1. e \in Epochs /\ stage[e] = "queued" /\ w \in Windows /\ w.outstanding = win.outstanding
        BY <1>3, DequeueEffect
    <2>2. /\ "granted" \in Stages /\ "serving" \in Stages /\ "done" \in Stages
          /\ 0 \in Int /\ 1 \in Int /\ win.outstanding + 0 = win.outstanding
          /\ Weight(e, stage[e]) = 0
        BY <1>1, <2>1 DEF Stages, Weight
    <2>3. \/ e \in Puts /\ win' = ReleasedInLoop(w) /\ To(e, "done")
          \/ e \in Gets /\ win' = AfterGrant(Serve(w, 1), e) /\ To(e, "serving")
          \/ e \in Gets /\ win' = AfterGrant(Release_lock(w), e) /\ To(e, "done")
          \/ win' = AfterGrant(w, e) /\ To(e, "granted")
        BY <1>3 DEF GrantQueued
    <2>4. e \in Several => e \in left
        BY <2>1 DEF CountInv
    <2> HIDE DEF e, w
    <2>5. CASE e \in Gets /\ win' = AfterGrant(Serve(w, 1), e) /\ To(e, "serving")
        <3>1. Weight(e, "serving") = Weight(e, stage[e]) + 1
            BY <1>1, <2>2, <2>5 DEF Weight
        <3>2. win'.outstanding = win.outstanding + 1
            BY <2>1, <2>5, GrantWork
        <3> QED BY <1>1, <2>1, <2>2, <2>5, <3>1, <3>2, MoveKeepsCount
    <2>6. CASE win' = AfterGrant(w, e) /\ To(e, "granted")
        <3>1. Weight(e, "granted") = Weight(e, stage[e]) + 0
            BY <2>2, <2>4 DEF Weight
        <3>2. win'.outstanding = win.outstanding + 0
            BY <2>1, <2>2, <2>6, GrantWork
        <3> QED BY <1>1, <2>1, <2>2, <2>6, <3>1, <3>2, MoveKeepsCount
    <2>7. CASE /\ e \in Puts \cup Gets /\ To(e, "done")
               /\ win' = ReleasedInLoop(w) \/ win' = AfterGrant(Release_lock(w), e)
        <3>1. Weight(e, "done") = Weight(e, stage[e]) + 0
            BY <1>1, <2>2, <2>7 DEF Weight
        <3>2. win'.outstanding = win.outstanding + 0
            BY <2>1, <2>2, <2>7, GrantWork
        <3> QED BY <1>1, <2>1, <2>2, <2>7, <3>1, <3>2, MoveKeepsCount
    <2> QED BY <2>3, <2>5, <2>6, <2>7
<1> QED BY <1>2, <1>3 DEF Loop

-----------------------------------------------------------------------------
(* The invariant of the lock. *)

LEMMA FiniteHolders ==
    ASSUME NEW H \in SUBSET Epochs
    PROVE  IsFiniteSet(H) /\ IsFiniteSet(H \ Exclusive) /\ Cardinality(H \ Exclusive) \in Nat
<1>1. H \ Exclusive \in SUBSET Epochs
    OBVIOUS
<1> QED BY <1>1, EpochsAssumption, FS_Subset, FS_CardinalityType

\* A lock that is granted.
LEMMA AcquireFits ==
    ASSUME NEW w \in Windows, NEW H \in SUBSET Epochs, NEW e \in Epochs \ H,
           Fits(w, H), Grants(w, LockType(e)), NEW a, a.type = LockType(e),
           a.ref = IF LockType(e) = "shared" THEN w.ref + 1 ELSE w.ref
    PROVE  Fits(a, H \cup {e})
<1>1. IsFiniteSet(H \ Exclusive) /\ w.ref = Cardinality(H \ Exclusive)
    BY FiniteHolders DEF Fits
<1>2. CASE e \in Exclusive
    <2>1. LockType(e) = "exclusive" /\ H = {} /\ (H \cup {e}) \ Exclusive = H \ Exclusive
        BY <1>2 DEF LockType, Fits, Grants
    <2> QED BY <1>1, <1>2, <2>1 DEF Fits
<1>3. CASE e \notin Exclusive
    <2>1. LockType(e) = "shared" /\ H \cap Exclusive = {}
        BY <1>3 DEF LockType, Fits, Grants
    <2>2. (H \cup {e}) \ Exclusive = (H \ Exclusive) \cup {e} /\ e \notin H \ Exclusive
        BY <1>3
    <2>3. Cardinality((H \cup {e}) \ Exclusive) = Cardinality(H \ Exclusive) + 1
        BY <1>1, <2>2, FS_AddElement
    <2> QED BY <1>1, <1>3, <2>1, <2>3 DEF Fits
<1> QED BY <1>2, <1>3

\* A lock that is released: the type stays, and is no lock's only if no holder is left.
LEMMA ReleaseFits ==
    ASSUME NEW w \in Windows, NEW H \in SUBSET Epochs, NEW e \in H, Fits(w, H),
           NEW r, r.ref = (IF w.type = "shared" THEN w.ref - 1 ELSE w.ref),
           r.type = w.type \/ (r.type = "none" /\ r.ref = 0)
    PROVE  Fits(r, H \ {e}) /\ (w.type = "exclusive" => H = {e}) /\ w.type # "none"
<1>1. /\ IsFiniteSet(H) /\ IsFiniteSet(H \ {e}) /\ Cardinality(H \ {e}) = Cardinality(H) - 1
      /\ w.ref = Cardinality(H \ Exclusive) /\ w.ref \in Nat /\ w.type \in Types
    <2>1. IsFiniteSet(H) /\ Cardinality(H \ Exclusive) \in Nat
        BY FiniteHolders
    <2>2. IsFiniteSet(H \ {e}) /\ Cardinality(H \ {e}) = Cardinality(H) - 1
        BY <2>1, FS_RemoveElement
    <2> QED BY <2>1, <2>2 DEF Fits, Windows
<1>2. CASE w.type = "exclusive"
    <2>1. H = {e} /\ e \in Exclusive /\ H \ {e} = {}
        BY <1>2 DEF Fits
    <2>2. H \ Exclusive = {} /\ (H \ {e}) \ Exclusive = {}
        BY <2>1
    <2> QED BY <1>1, <1>2, <2>1, <2>2 DEF Fits
<1>3. CASE w.type = "shared"
    <2>1. H \cap Exclusive = {} /\ H \ Exclusive = H /\ (H \ {e}) \ Exclusive = H \ {e}
        BY <1>3 DEF Fits
    <2>3. r.ref = Cardinality((H \ {e}) \ Exclusive)
        BY <1>1, <1>3, <2>1
    <2>4. r.ref = 0 => H \ {e} = {}
        BY <1>1, <2>1, <2>3, FS_EmptySet
    <2> QED BY <1>3, <2>1, <2>3, <2>4 DEF Fits
<1>4. w.type # "none"
    BY DEF Fits
<1> QED BY <1>1, <1>2, <1>3, <1>4 DEF Types

\* The holders and the late ones after the step of one epoch.
LEMMA HoldersMove ==
    ASSUME TypeOK, UNCHANGED <<plan, left>>, NEW e \in Epochs, NEW s \in Stages, To(e, s)
    PROVE  /\ Holders \in SUBSET Epochs /\ Holders' \in SUBSET Epochs
           /\ Holders' = IF s \in {"granted", "serving"} THEN Holders \cup {e} ELSE Holders \ {e}
           /\ Late' = IF s = "done" /\ e \in left THEN Late \cup {e} ELSE Late \ {e}
<1>1. /\ stage'[e] = s /\ (\A x \in Epochs : x # e => stage'[x] = stage[x])
      /\ left \subseteq Epochs
    BY OneEpochMoves, Shape
<1> QED BY <1>1 DEF Holders, Late

LEMMA InitLockInv == Init => LockInv
<1> SUFFICES ASSUME Init PROVE LockInv
    OBVIOUS
<1>1. Several \subseteq Epochs
    BY EpochsAssumption DEF Init, Several
<1>2. Holders = {} /\ Late = {} /\ {} \ Exclusive = {}
    BY <1>1 DEF Init, Holders, Late
<1> QED BY <1>2, FS_EmptySet DEF Init, LockInv, LateInv, Fits

\* A handler that changes neither the lock nor who holds it.
LEMMA QuietKeepsLockInv ==
    ASSUME LockInv, UNCHANGED <<plan, forgot>>, SameLock(win', win), win'.pc = win.pc,
           Holders' = Holders, Late' \subseteq Late
    PROVE  LockInv'
BY SamePlan DEF LockInv, Fits, LateInv, SameLock

\* A lock granted by a handler or to the target itself.
LEMMA GrantKeepsLockInv ==
    ASSUME TypeOK, LockInv, UNCHANGED <<plan, left, forgot>>, NEW e \in Epochs,
           stage[e] \notin {"granted", "serving", "done"}, NEW s \in {"granted", "serving"}, To(e, s),
           Grants(win, LockType(e)), win'.type = LockType(e), win'.pc # "scan",
           win'.ref = IF LockType(e) = "shared" THEN win.ref + 1 ELSE win.ref
    PROVE  LockInv'
<1> SUFFICES ASSUME ~forgot PROVE Fits(win, Holders)' /\ LateInv'
    BY DEF LockInv
<1>1. /\ Fits(win, Holders) /\ LateInv /\ win \in Windows /\ s \in Stages
      /\ e \notin Holders /\ e \notin Late
    BY Shape DEF LockInv, Stages, Holders, Late
<1>2. Holders \in SUBSET Epochs /\ Holders' = Holders \cup {e} /\ Late' = Late
    BY <1>1, HoldersMove
<1>3. Fits(win, Holders)'
    <2>1. Fits(win', Holders \cup {e})
        BY <1>1, <1>2, AcquireFits
    <2> QED BY <2>1, <1>2, SamePlan DEF Fits
<1>4. Late # {} => win'.type = "shared"
    BY <1>1 DEF LateInv, Grants
<1> QED BY <1>2, <1>3, <1>4 DEF LateInv

\* A lock released outside the scan by one of its holders.
LEMMA ReleaseKeepsLockInv ==
    ASSUME TypeOK, LockInv, UNCHANGED <<plan, left, forgot>>, NEW e \in Epochs,
           stage[e] \in {"granted", "serving"}, To(e, "done"),
           win'.type = win.type, win'.pc # "scan",
           win'.ref = IF win.type = "shared" THEN win.ref - 1 ELSE win.ref
    PROVE  LockInv'
<1> SUFFICES ASSUME ~forgot PROVE Fits(win, Holders)' /\ LateInv'
    BY DEF LockInv
<1>1. Fits(win, Holders) /\ LateInv /\ win \in Windows /\ "done" \in Stages /\ e \in Holders
    BY Shape DEF LockInv, Stages, Holders
<1>2. Holders \in SUBSET Epochs /\ Holders' = Holders \ {e}
    BY <1>1, HoldersMove
<1>3. /\ Fits(win', Holders \ {e}) /\ (win.type = "exclusive" => Holders = {e}) /\ win.type # "none"
    BY <1>1, <1>2, ReleaseFits
<1>4. Fits(win, Holders)'
    BY <1>2, <1>3, SamePlan DEF Fits
<1>5. win.type \in Types
    BY <1>1 DEF Windows
<1> QED BY <1>2, <1>3, <1>4, <1>5 DEF LateInv, Types

\* A queued put that is done when its data has come.
LEMMA PutDataKeepsLockInv ==
    ASSUME TypeOK, LockInv, UNCHANGED plan, NEW e \in Epochs, SinglePutAccumComplete(e)
    PROVE  LockInv'
<1>1. /\ win \in Windows /\ e \in Puts /\ e \notin left /\ stage[e] = "queued" /\ win.pc # "scan"
      /\ UNCHANGED <<left, forgot>>
    BY Shape DEF SinglePutAccumComplete, Polls
<1>2. ASSUME UNCHANGED <<win, stage>> PROVE LockInv'
    BY <1>1, <1>2, SamePlan DEF LockInv, Fits, LateInv, Holders, Late
<1>3. ASSUME Grants(win, LockType(e)), NEW i \in DOMAIN win.queue, To(e, "done"),
             win' = Release_lock([Acquired(win, LockType(e)) EXCEPT !.queue = RemoveAt(@, i)])
      PROVE  LockInv'
    <2> SUFFICES ASSUME ~forgot PROVE Fits(win, Holders)' /\ LateInv'
        BY <1>1 DEF LockInv
    <2> DEFINE a == Acquired(win, LockType(e))
               w == [a EXCEPT !.queue = RemoveAt(@, i)]
    <2>1. /\ a \in Windows /\ a.type = LockType(e) /\ SameWork(a, win) /\ SameLoop(a, win)
          /\ a.ref = IF LockType(e) = "shared" THEN win.ref + 1 ELSE win.ref
        BY <1>1, LockKinds, AcquireEffect
    <2> HIDE DEF a
    <2>2. w = [a EXCEPT !.queue = RemoveAt(a.queue, i)] /\ i \in DOMAIN a.queue
        BY <1>3, <2>1 DEF Windows, SameWork
    <2>3. win' = Release_lock(w)
        BY <1>3 DEF a
    <2> HIDE DEF w
    <2>4. w \in Windows /\ w.type = a.type /\ w.ref = a.ref /\ w.pc = win.pc
        BY <2>1, <2>2, RemoveEffect DEF SameLock, SameLoop
    <2>5. /\ win'.type = w.type /\ win'.ref = (IF w.type = "shared" THEN w.ref - 1 ELSE w.ref)
          /\ win'.pc # "scan"
        BY <1>1, <2>3, <2>4, ReleaseEffect DEF SameLoop
    <2>6. Fits(win, Holders) /\ LateInv /\ e \notin Holders /\ e \notin Late /\ "done" \in Stages
        BY <1>1 DEF LockInv, Holders, Late, Stages
    <2>7. Holders \in SUBSET Epochs /\ Holders' = Holders /\ Late' = Late
        BY <1>1, <1>3, <2>6, HoldersMove
    <2>8. Fits(w, Holders \cup {e})
        BY <1>1, <1>3, <2>1, <2>4, <2>6, <2>7, AcquireFits
    <2>9. Fits(win', Holders)
        <3>1. \A H \in SUBSET Epochs : e \in H /\ Fits(w, H) => Fits(win', H \ {e})
            BY <2>4, <2>5, ReleaseFits
        <3>2. Holders \cup {e} \in SUBSET Epochs /\ (Holders \cup {e}) \ {e} = Holders
            BY <2>6, <2>7
        <3>3. Fits(win', (Holders \cup {e}) \ {e})
            BY <2>8, <3>1, <3>2
        <3> QED BY <3>2, <3>3
    <2>10. Late # {} => win'.type = "shared"
        BY <1>3, <2>1, <2>4, <2>5, <2>6 DEF LateInv, Grants
    <2> QED BY <2>5, <2>7, <2>9, <2>10, SamePlan DEF Fits, LateInv
<1> QED BY <1>2, <1>3 DEF SinglePutAccumComplete

\* The steps of the packets, of the completions and of the target itself.
LEMMA HandlersKeepLockInv ==
    ASSUME TypeOK, LockInv, UNCHANGED plan, NEW e \in Epochs,
           Request(e) \/ Receive(e) \/ Win_lock(e) \/ Win_unlock(e)
    PROVE  LockInv'
<1>1. /\ win \in Windows /\ left \subseteq Several /\ left \subseteq Epochs
      /\ Several \cap (Puts \cup Gets \cup Local) = {}
    BY Shape
<1>2. "requested" \in Stages /\ "queued" \in Stages /\ "serving" \in Stages /\ "done" \in Stages
    BY DEF Stages
<1>3. CASE Request(e)
    <2>1. /\ stage[e] = "before" /\ To(e, "requested") /\ win' = win /\ UNCHANGED <<left, forgot>>
        BY <1>3 DEF Request
    <2>2. Holders' = Holders /\ Late' \subseteq Late
        <3>1. e \notin Holders
            BY <2>1 DEF Holders
        <3> QED BY <3>1, <1>2, <2>1, HoldersMove
    <2> QED BY <2>1, <2>2, QuietKeepsLockInv DEF SameLock
\* A request that is queued changes the queue only.
<1>4. ASSUME stage[e] = "requested", To(e, "queued"), win' = Enqueued(win, e), UNCHANGED <<left, forgot>>
      PROVE  LockInv'
    <2>1. Holders' = Holders /\ Late' \subseteq Late
        <3>1. e \notin Holders
            BY <1>4 DEF Holders
        <3> QED BY <3>1, <1>2, <1>4, HoldersMove
    <2>2. SameLock(win', win) /\ win'.pc = win.pc
        BY <1>1, <1>4 DEF Enqueued, Windows, SameLock
    <2> QED BY <1>4, <2>1, <2>2, QuietKeepsLockInv
<1>5. CASE PktHandler_Lock(e)
    <2>1. stage[e] = "requested" /\ UNCHANGED <<left, forgot>> /\ win.pc # "scan"
        BY <1>5 DEF PktHandler_Lock, Polls
    <2>2. CASE Grants(win, LockType(e))
        <3>1. win' = Acquired(win, LockType(e)) /\ To(e, "granted")
            BY <1>5, <2>2 DEF PktHandler_Lock
        <3>2. /\ win'.type = LockType(e) /\ win'.pc = win.pc
              /\ win'.ref = IF LockType(e) = "shared" THEN win.ref + 1 ELSE win.ref
            BY <1>1, <3>1, LockKinds, AcquireEffect DEF SameLoop
        <3> QED BY <2>1, <2>2, <3>1, <3>2, GrantKeepsLockInv
    <2>3. CASE ~Grants(win, LockType(e))
        BY <1>4, <1>5, <2>1, <2>3 DEF PktHandler_Lock
    <2> QED BY <2>2, <2>3
<1>6. CASE PktHandler_LockOpUnlock(e)
    <2>1. stage[e] = "requested" /\ UNCHANGED <<left, forgot>> /\ win.pc # "scan"
        BY <1>6 DEF PktHandler_LockOpUnlock, Polls
    <2>2. CASE e \notin Accs /\ Grants(win, LockType(e))
        <3> DEFINE a == Acquired(win, LockType(e))
        <3>1. win' = Serve(a, 1) /\ To(e, "serving")
            BY <1>6, <2>2 DEF PktHandler_LockOpUnlock
        <3>2. /\ a \in Windows /\ a.type = LockType(e) /\ a.pc = win.pc
              /\ a.ref = IF LockType(e) = "shared" THEN win.ref + 1 ELSE win.ref
            BY <1>1, LockKinds, AcquireEffect DEF SameLoop
        <3> HIDE DEF a
        <3>3. win'.type = a.type /\ win'.ref = a.ref /\ win'.pc = a.pc
            BY <3>1, <3>2, ServeEffect DEF Serve, SameLock, SameLoop
        <3> QED BY <2>1, <2>2, <3>1, <3>2, <3>3, GrantKeepsLockInv
    <2>3. CASE ~(e \notin Accs /\ Grants(win, LockType(e)))
        BY <1>4, <1>6, <2>1, <2>3 DEF PktHandler_LockOpUnlock
    <2> QED BY <2>2, <2>3
<1>7. CASE PktHandler_Put(e)
    <2> DEFINE n == IF e \in Several THEN 2 ELSE 1
    <2>1. /\ stage[e] = "granted" /\ UNCHANGED <<left, forgot>> /\ To(e, "serving")
          /\ win' = Serve(win, n) /\ n \in Int
        BY <1>7 DEF PktHandler_Put
    <2> HIDE DEF n
    <2>2. SameLock(win', win) /\ win'.pc = win.pc
        BY <1>1, <2>1, ServeEffect DEF Serve, SameLoop
    <2>3. Holders' = Holders /\ Late' \subseteq Late
        <3>1. e \in Holders
            BY <2>1 DEF Holders
        <3> QED BY <3>1, <1>2, <2>1, HoldersMove
    <2> QED BY <2>1, <2>2, <2>3, QuietKeepsLockInv
<1>8. CASE EarlierRespComplete(e)
    <2>1. /\ stage' = stage /\ left' \subseteq left /\ forgot' = forgot
          /\ win' = [win EXCEPT !.outstanding = @ - 1]
        BY <1>8 DEF EarlierRespComplete
    <2>2. Holders' = Holders /\ Late' \subseteq Late
        BY <2>1 DEF Holders, Late
    <2>3. SameLock(win', win) /\ win'.pc = win.pc
        BY <1>1, <2>1 DEF Windows, SameLock
    <2> QED BY <2>1, <2>2, <2>3, QuietKeepsLockInv
<1>9. CASE RespComplete(e)
    <2> DEFINE w == [win EXCEPT !.outstanding = @ - 1]
    <2>1. /\ win.pc # "scan" /\ stage[e] = "serving" /\ To(e, "done") /\ UNCHANGED <<left, forgot>>
          /\ win' = IF w.type = "none" THEN w ELSE Release_lock(w)
        BY <1>9 DEF RespComplete, Polls
    <2>2. w = [win EXCEPT !.outstanding = win.outstanding + (-1)] /\ -1 \in Int
        BY <1>1 DEF Windows
    <2> HIDE DEF w
    <2>3. w \in Windows /\ w.type = win.type /\ w.ref = win.ref /\ w.pc = win.pc
        BY <1>1, <2>2, ServeEffect DEF SameLock, SameLoop
    <2>4. CASE forgot
        BY <2>1, <2>4 DEF LockInv
    <2>5. CASE ~forgot
        <3>1. win.type # "none"
            <4>1. e \in Holders
                BY <2>1 DEF Holders
            <4> QED BY <4>1, <2>5 DEF LockInv, Fits
        <3>2. win' = Release_lock(w)
            BY <2>1, <2>3, <3>1
        <3>3. /\ win'.type = win.type /\ win'.pc # "scan"
              /\ win'.ref = IF win.type = "shared" THEN win.ref - 1 ELSE win.ref
            BY <2>1, <2>3, <3>2, ReleaseEffect DEF SameLoop
        <3> QED BY <2>1, <3>3, ReleaseKeepsLockInv
    <2> QED BY <2>4, <2>5
<1>10. CASE SinglePutAccumComplete(e)
    BY <1>10, PutDataKeepsLockInv
<1>11. CASE Win_lock(e)
    <2>1. /\ win.pc = "out" /\ stage[e] = "before" /\ Grants(win, LockType(e)) /\ To(e, "granted")
          /\ win' = Acquired(win, LockType(e)) /\ UNCHANGED <<left, forgot>>
        BY <1>11 DEF Win_lock
    <2>2. /\ win'.type = LockType(e) /\ win'.pc = win.pc
          /\ win'.ref = IF LockType(e) = "shared" THEN win.ref + 1 ELSE win.ref
        BY <1>1, <2>1, LockKinds, AcquireEffect DEF SameLoop
    <2> QED BY <2>1, <2>2, GrantKeepsLockInv
<1>12. CASE Win_unlock(e)
    <2>1. /\ win.pc = "out" /\ stage[e] = "granted" /\ To(e, "done")
          /\ win' = Release_lock(win) /\ UNCHANGED <<left, forgot>>
        BY <1>12 DEF Win_unlock
    <2>2. /\ win'.type = win.type /\ win'.pc # "scan"
          /\ win'.ref = IF win.type = "shared" THEN win.ref - 1 ELSE win.ref
        BY <1>1, <2>1, ReleaseEffect DEF SameLoop
    <2> QED BY <2>1, <2>2, ReleaseKeepsLockInv
<1> QED BY <1>3, <1>5, <1>6, <1>7, <1>8, <1>9, <1>10, <1>11, <1>12 DEF Receive

\* A release that has waited finds nothing late below it.
LEMMA NothingLate ==
    ASSUME TypeOK, CountInv, win.outstanding = 0, Holders = {}
    PROVE  Late = {}
<1>1. Several \subseteq Epochs /\ left \subseteq Several
    BY Shape
<1>2. Serving = {} /\ Early = {}
    BY <1>1 DEF Serving, Early, Holders
<1>3. Cardinality(Under) = 0
    BY <1>2, FiniteParts, FS_EmptySet DEF CountInv
<1>4. Under = {}
    BY <1>3, FiniteParts, FS_EmptySet
<1> QED BY <1>4 DEF Under, Late

\* The steps of the loop.
LEMMA LoopKeepsLockInv ==
    ASSUME TypeOK, QueueInv, CountInv, LockInv, UNCHANGED plan, Loop
    PROVE  LockInv'
<1>1. win \in Windows /\ left' = left
    BY Shape DEF Loop, StartLoop, SkipNotReady, GrantQueued, EndLoop
<1>2. CASE StartLoop
    <2> SUFFICES ASSUME ~forgot' PROVE Fits(win, Holders)' /\ LateInv'
        BY DEF LockInv
    <2>1. /\ win.outstanding = 0 /\ win' = [win EXCEPT !.type = "none", !.pos = 1, !.pc = "scan"]
          /\ stage' = stage /\ ~forgot /\ Holders = {}
        BY <1>2 DEF StartLoop
    <2>2. Late = {}
        BY <2>1, NothingLate
    <2>3. Holders' = {} /\ Late' = {}
        BY <1>1, <2>1, <2>2 DEF Holders, Late
    <2>4. win'.type = "none" /\ win'.ref = win.ref /\ win.ref = Cardinality({} \ Exclusive)
        BY <1>1, <2>1 DEF Windows, LockInv, Fits
    <2>5. {} \ Exclusive = {} /\ {} \ Exclusive' = {}
        OBVIOUS
    <2> QED BY <2>3, <2>4, <2>5 DEF Fits, LateInv
<1>3. CASE SkipNotReady \/ EndLoop
    <2>1. /\ stage' = stage /\ forgot' = forgot /\ win.pc = "scan" /\ SameLock(win', win)
        BY <1>1, <1>3, EndEffect DEF SkipNotReady, EndLoop, InLoop, Windows, SameLock
    <2>2. Holders' = Holders /\ Late' = Late
        BY <1>1, <2>1 DEF Holders, Late
    <2> QED BY <2>1, <2>2, SamePlan DEF LockInv, Fits, LateInv, SameLock
<1>4. CASE GrantQueued
    <2> SUFFICES ASSUME ~forgot' PROVE Fits(win, Holders)' /\ LateInv'
        BY DEF LockInv
    <2> DEFINE e == Here
               w == Dequeued(Acquired(win, LockType(Here)))
    <2>1. /\ win.pc = "scan" /\ e \in Epochs /\ stage[e] = "queued" /\ Grants(win, LockType(e))
          /\ w \in Windows /\ w.type = LockType(e)
          /\ w.ref = (IF LockType(e) = "shared" THEN win.ref + 1 ELSE win.ref)
        BY <1>4, DequeueEffect
    <2>2. /\ ~forgot /\ Fits(win, Holders) /\ Late = {} /\ e \notin Holders
        BY <1>4, <2>1 DEF GrantQueued, LockInv, LateInv, Holders
    <2>3. \/ e \in Puts \cup Gets /\ To(e, "done")
             /\ (win' = ReleasedInLoop(w) \/ win' = AfterGrant(Release_lock(w), e))
          \/ \/ To(e, "serving") /\ win' = AfterGrant(Serve(w, 1), e)
             \/ To(e, "granted") /\ win' = AfterGrant(w, e)
        BY <1>4 DEF GrantQueued
    <2>4. "granted" \in Stages /\ "serving" \in Stages /\ "done" \in Stages
        BY DEF Stages
    <2>5. Holders \in SUBSET Epochs /\ Holders \cup {e} \in SUBSET Epochs /\ (Holders \cup {e}) \ {e} = Holders
        BY <2>1, <2>2 DEF Holders
    <2> HIDE DEF e, w
    <2>6. Fits(w, Holders \cup {e})
        BY <1>1, <2>1, <2>2, <2>5, AcquireFits
    <2>7. CASE /\ e \in Puts \cup Gets /\ To(e, "done")
               /\ win' = ReleasedInLoop(w) \/ win' = AfterGrant(Release_lock(w), e)
        <3>1. e \notin left
            BY <2>7, Shape
        <3>2. Holders' = Holders /\ Late' = {}
            BY <1>1, <2>1, <2>2, <2>4, <2>7, <3>1, HoldersMove
        <3>3. /\ win'.ref = (IF w.type = "shared" THEN w.ref - 1 ELSE w.ref)
              /\ win'.type = w.type \/ (win'.type = "none" /\ win'.ref = 0)
            <4>1. CASE win' = ReleasedInLoop(w)
                BY <2>1, <4>1, ReleaseInLoopEffect
            <4>2. CASE win' = AfterGrant(Release_lock(w), e)
                <5>1. /\ Release_lock(w) \in Windows /\ Release_lock(w).type = w.type
                      /\ Release_lock(w).ref = (IF w.type = "shared" THEN w.ref - 1 ELSE w.ref)
                    BY <2>1, ReleaseEffect
                <5> QED BY <4>2, <5>1, EndEffect DEF AfterGrant, SameLock
            <4> QED BY <2>7, <4>1, <4>2
        <3>4. Fits(win', Holders)
            <4>1. \A H \in SUBSET Epochs : e \in H /\ Fits(w, H) => Fits(win', H \ {e})
                BY <2>1, <3>3, ReleaseFits
            <4>2. Fits(win', (Holders \cup {e}) \ {e})
                BY <2>5, <2>6, <4>1
            <4> QED BY <2>5, <4>2
        <3> QED BY <3>2, <3>4, SamePlan DEF Fits, LateInv
    <2>8. CASE \/ To(e, "serving") /\ win' = AfterGrant(Serve(w, 1), e)
               \/ To(e, "granted") /\ win' = AfterGrant(w, e)
        <3>1. Holders' = Holders \cup {e} /\ Late' = {}
            BY <1>1, <2>1, <2>2, <2>4, <2>8, HoldersMove
        <3>2. win'.type = w.type /\ win'.ref = w.ref
            <4>1. ASSUME NEW v \in Windows PROVE SameLock(AfterGrant(v, e), v)
                BY <4>1, EndEffect DEF AfterGrant, SameLock
            <4>2. Serve(w, 1) \in Windows /\ SameLock(Serve(w, 1), w)
                BY <2>1, ServeEffect DEF Serve
            <4> QED BY <2>1, <2>8, <4>1, <4>2 DEF SameLock
        <3> QED BY <2>6, <3>1, <3>2, SamePlan DEF Fits, LateInv
    <2> QED BY <2>3, <2>7, <2>8
<1> QED BY <1>2, <1>3, <1>4 DEF Loop

-----------------------------------------------------------------------------
(* The theorems. *)

\* No step leaves the invariant.
LEMMA NextKeepsIInv == IInv /\ [Next]_vars => IInv'
<1> SUFFICES ASSUME IInv, [Next]_vars PROVE IInv'
    OBVIOUS
<1>1. QInv' /\ TypeOK /\ QueueInv /\ CountInv /\ LockInv
    BY NextKeepsQInv DEF IInv, QInv
<1>2. CASE Next
    <2>1. UNCHANGED plan
        BY <1>2 DEF Next
    <2>2. CASE \E e \in Epochs : Request(e) \/ Receive(e) \/ Win_lock(e) \/ Win_unlock(e)
        BY <1>1, <2>1, <2>2, HandlersKeepCountInv, HandlersKeepLockInv DEF IInv
    <2>3. CASE Loop
        BY <1>1, <2>1, <2>3, LoopKeepsCountInv, LoopKeepsLockInv DEF IInv
    <2> QED BY <1>2, <2>2, <2>3 DEF Next
<1>3. CASE UNCHANGED vars
    <2>1. UNCHANGED <<plan, win, stage, data, left, forgot>>
        BY <1>3 DEF vars
    <2>2. Holders' = Holders /\ Late' = Late /\ Serving' = Serving /\ Under' = Under /\ Early' = Early
        BY <2>1, SamePlan DEF Holders, Late, Serving, Under, Early
    <2>3. CountInv' /\ LockInv'
        BY <1>1, <2>1, <2>2, SamePlan DEF CountInv, LockInv, LateInv, Fits
    <2> QED BY <1>1, <2>3 DEF IInv
<1> QED BY <1>2, <1>3

\* The queue, the count of operations and, until a release forgets a lock, the type and
\* the count of shared locks always fit the stages of the epochs.
THEOREM WindowFitsHolders == Spec => []IInv
<1>1. Init => IInv
    BY InitQInv, InitCountInv, InitLockInv DEF IInv
<1> QED BY <1>1, NextKeepsIInv, PTL DEF Spec

\* An exclusive lock excludes every other epoch and its operations until a release
\* forgets a lock, for any epochs and plans and whichever way each lock is granted
\* (PktHandler_Lock, SinglePutAccumComplete, Release_lock, MPIDI_Win_lock).
THEOREM ExclusiveIsExclusive == Spec => []MutualExclusion
<1>1. ASSUME IInv PROVE MutualExclusion
    <2> SUFFICES ASSUME ~forgot, NEW e \in Holders, e \in Exclusive PROVE Accessing = {e}
        BY DEF MutualExclusion
    <2>1. Fits(win, Holders) /\ LateInv /\ win.type \in Types
        BY <1>1, Shape DEF IInv, QInv, LockInv, Windows
    <2>2. Holders = {e} /\ win.type = "exclusive"
        BY <2>1 DEF Fits, Types
    <2>3. Late = {}
        BY <2>1, <2>2 DEF LateInv
    <2> QED BY <2>2, <2>3 DEF Accessing, Late
<1> QED BY <1>1, WindowFitsHolders, PTL

\* When MPIDI_CH3I_Release_lock has returned no request that is ready and could be
\* granted is left in the queue, for any epochs and plans, a forgotten lock or not.
THEOREM NobodyIsForgotten == Spec => []QueueSatisfied
<1>1. IInv => QueueSatisfied
    BY DEF IInv, QInv
<1> QED BY <1>1, WindowFitsHolders, PTL
=============================================================================
