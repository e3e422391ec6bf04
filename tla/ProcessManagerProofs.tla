------------------------- MODULE ProcessManagerProofs -------------------------
(***************************************************************************)
(* The process manager: PMI over the tree of mpispawns (PmiTree), and      *)
(* mpirun_rsh with its mpispawns (Launcher).                               *)
(*                                                                         *)
(* PmiTree: nobody leaves a barrier before all have entered it, in a tree  *)
(* of any shape and size and for any scripts that make the same collective *)
(* calls.  The calls come in rounds.  R[n] is how often mpispawn n has     *)
(* released those below it; a process or an mpispawn that has entered      *)
(* counts at the one above it, is on the way up, or is on the way down     *)
(* again.  The count of an mpispawn is then right, and the root has        *)
(* released at most once more than anybody has been released.              *)
(*                                                                         *)
(* Launcher: it implements JobLife, and a killed process makes the job     *)
(* fail, for any number of mpispawns and processes, wherever the processes *)
(* are and whatever fails.  The first needs no invariant: each step of the *)
(* three threads looks at the state it changes.  The second rests on IInv, *)
(* which follows the failure from the process to the mpispawn that reaps   *)
(* it, to the mpispawn's exit code and to mpirun_rsh's.                    *)
(***************************************************************************)
EXTENDS PmiTree, Launcher, TLAPS, SequenceTheorems, FiniteSetTheorems, WellFoundedInduction
-----------------------------------------------------------------------------
(* The tree. *)

\* Division by the degree, without the division.
LEMMA DivisionIs ==
    ASSUME NEW a \in Nat, NEW d \in Nat, d > 0
    PROVE  /\ a \div d \in Nat /\ a \div d <= a
           /\ \A n \in Nat : (d * n <= a /\ a < d * n + d) <=> n = a \div d
<1>1. PICK p, k : p = a \div d /\ k = a % d
  OBVIOUS
<1>2. p \in Int /\ k \in Int /\ a = d * p + k /\ 0 <= k /\ k < d
  BY <1>1
<1>3. p \in Nat
  <2> SUFFICES ASSUME p < 0 PROVE FALSE
    BY <1>2
  <2>1. p + 1 <= 0
    BY <1>2
  <2>2. d * (p + 1) <= 0
    BY <1>2, <2>1
  <2>3. d * (p + 1) = d * p + d
    BY <1>2
  <2> QED BY <1>2, <2>2, <2>3
<1>4. p <= a
  <2>1. p <= d * p
    BY <1>3
  <2> QED BY <1>2, <1>3, <2>1
<1>5. ASSUME NEW n \in Nat, d * n <= a, a < d * n + d PROVE n = p
  <2>1. CASE n < p
    <3>1. n + 1 <= p
      BY <1>3, <2>1
    <3>2. d * (n + 1) <= d * p
      BY <1>3, <3>1
    <3>3. d * (n + 1) = d * n + d
      OBVIOUS
    <3> QED BY <1>2, <1>3, <1>5, <3>2, <3>3
  <2>2. CASE p < n
    <3>1. p + 1 <= n
      BY <1>3, <2>2
    <3>2. d * (p + 1) <= d * n
      BY <1>3, <3>1
    <3>3. d * (p + 1) = d * p + d
      BY <1>3
    <3> QED BY <1>2, <1>3, <1>5, <3>2, <3>3
  <2> QED BY <1>3, <2>1, <2>2
<1>6. d * p <= a /\ a < d * p + d
  BY <1>2, <1>3
<1> QED BY <1>1, <1>3, <1>4, <1>5, <1>6

\* Who writes to whom: a process to its node, and an mpispawn to the one above it.
Above(e) == IF e \in Ranks THEN Home[e] ELSE Parent(e)
Entities == Ranks \cup (Nodes \ {0})
\* Those that an mpispawn waits for.
Ents(n) == Locals(n) \cup Children(n)

\* The tree: each process and each mpispawn but the root has one above it, with which it
\* shares a link in each direction.
LEMMA Tree ==
    /\ 0 \in Nodes /\ Nodes \subseteq Nat
    /\ \A e \in Entities : Above(e) \in Nodes /\ Above(e) # e
    /\ \A e \in Nodes \ {0} : Above(e) = Parent(e) /\ Above(e) < e /\ e \notin Ranks
    /\ \A e \in Ranks : Above(e) = Home[e] /\ e \notin Nodes
    /\ \A n \in Nodes : \A e : e \in Ents(n) <=> e \in Entities /\ Above(e) = n
<1>1. NumNodes \in Nat /\ NumNodes > 0 /\ Degree \in Nat /\ Degree > 0 /\ Ranks \cap Nodes = {}
      /\ Home \in [Ranks -> Nodes]
  BY PmiAssumption
<1>2. Nodes = 0 .. NumNodes - 1 /\ 0 \in Nodes /\ Nodes \subseteq Nat
  BY <1>1 DEF Nodes
<1>3. ASSUME NEW e \in Nodes \ {0}
      PROVE  /\ Parent(e) \in Nodes /\ Parent(e) < e
             /\ \A n \in Nodes : e \in Children(n) <=> n = Parent(e)
  <2>1. e - 1 \in Nat /\ e - 1 < NumNodes - 1 /\ e \in Nat
    BY <1>1, <1>2
  <2>2. PICK a : a = e - 1
    OBVIOUS
  <2>3. /\ a \div Degree \in Nat /\ a \div Degree <= a
        /\ \A n \in Nat : (Degree * n <= a /\ a < Degree * n + Degree) <=> n = a \div Degree
    BY <1>1, <2>1, <2>2, DivisionIs
  <2>4. PICK p : p = a \div Degree
    OBVIOUS
  <2>5. Parent(e) = p
    BY <2>2, <2>4 DEF Parent
  <2>6. p \in Nodes /\ p < e
    BY <1>1, <1>2, <2>1, <2>2, <2>3, <2>4
  <2>7. ASSUME NEW n \in Nodes PROVE e \in Children(n) <=> n = p
    <3>1. n \in Nat
      BY <1>2
    <3>2. PICK k : k = Degree * n
      OBVIOUS
    <3>3. k \in Int
      BY <1>1, <3>1, <3>2
    <3>4. e \in Children(n) <=> e >= k + 1 /\ e <= k + Degree
      BY <3>2 DEF Children
    <3>5. (e >= k + 1 /\ e <= k + Degree) <=> (k <= a /\ a < k + Degree)
      BY <1>1, <2>1, <2>2, <3>3
    <3> QED BY <2>3, <2>4, <3>1, <3>2, <3>4, <3>5
  <2> QED BY <2>5, <2>6, <2>7
<1>4. \A e \in Nodes \ {0} : e \notin Ranks
  BY <1>1
<1>5. \A e \in Ranks : Home[e] \in Nodes /\ e \notin Nodes
  BY <1>1
<1>6. \A e \in Nodes \ {0} : Above(e) = Parent(e) /\ Above(e) \in Nodes /\ Above(e) < e /\ Above(e) # e
  <2>1. \A e \in Nodes \ {0} : Parent(e) < e => Parent(e) # e
    BY <1>2, <1>3
  <2> QED BY <1>3, <1>4, <2>1 DEF Above
<1>7. \A e \in Ranks : Above(e) = Home[e] /\ Above(e) \in Nodes /\ Above(e) # e
  BY <1>5 DEF Above
<1>8. ASSUME NEW n \in Nodes PROVE \A e : e \in Ents(n) <=> e \in Entities /\ Above(e) = n
  <2>1. ASSUME NEW e \in Children(n) PROVE e \in Nodes \ {0}
    <3>1. e \in Nodes /\ e >= Degree * n + 1
      BY DEF Children
    <3>2. Degree * n \in Nat
      BY <1>1, <1>2
    <3> QED BY <1>2, <3>1, <3>2
  <2>2. ASSUME NEW e \in Ents(n) PROVE e \in Entities /\ Above(e) = n
    <3>1. CASE e \in Locals(n)
      BY <1>7, <3>1 DEF Locals, Entities
    <3>2. CASE e \in Children(n)
      BY <1>3, <1>6, <2>1, <3>2 DEF Entities
    <3> QED BY <2>2, <3>1, <3>2 DEF Ents
  <2>3. ASSUME NEW e \in Entities, Above(e) = n PROVE e \in Ents(n)
    <3>1. CASE e \in Ranks
      BY <1>7, <2>3, <3>1 DEF Ents, Locals
    <3>2. CASE e \in Nodes \ {0}
      BY <1>3, <1>6, <2>3, <3>2 DEF Ents
    <3> QED BY <3>1, <3>2 DEF Entities
  <2> QED BY <2>2, <2>3
<1> QED BY <1>2, <1>4, <1>5, <1>6, <1>7, <1>8 DEF Entities

\* An mpispawn waits for those that it is above.
LEMMA EntsIs == \A n \in Nodes : \A e : e \in Ents(n) <=> e \in Entities /\ Above(e) = n
BY Tree

\* The links are those between the processes or mpispawns and the ones above them.
LEMMA LinksAre ==
    /\ \A e \in Entities : <<e, Above(e)>> \in Links /\ <<Above(e), e>> \in Links
    /\ \A l \in Links : \E e \in Entities : l = <<e, Above(e)>> \/ l = <<Above(e), e>>
<1>1. ASSUME NEW e \in Entities PROVE <<e, Above(e)>> \in Links /\ <<Above(e), e>> \in Links
  <2>1. CASE e \in Ranks
    <3>1. Above(e) = Home[e]
      BY <2>1 DEF Above
    <3> QED BY <2>1, <3>1 DEF Links
  <2>2. CASE e \in Nodes \ {0}
    <3>1. Above(e) = Parent(e)
      BY <2>2, Tree
    <3> QED BY <2>2, <3>1 DEF Links
  <2> QED BY <2>1, <2>2 DEF Entities
<1>2. ASSUME NEW l \in Links
      PROVE  \E e \in Entities : l = <<e, Above(e)>> \/ l = <<Above(e), e>>
  <2>1. CASE \E r \in Ranks : l \in {<<r, Home[r]>>, <<Home[r], r>>}
    <3>1. PICK r \in Ranks : l \in {<<r, Home[r]>>, <<Home[r], r>>}
      BY <2>1
    <3>2. Above(r) = Home[r] /\ r \in Entities
      BY DEF Above, Entities
    <3> QED BY <3>1, <3>2
  <2>2. CASE \E n \in Nodes \ {0} : l \in {<<n, Parent(n)>>, <<Parent(n), n>>}
    <3>1. PICK n \in Nodes \ {0} : l \in {<<n, Parent(n)>>, <<Parent(n), n>>}
      BY <2>2
    <3>2. Above(n) = Parent(n) /\ n \in Entities
      BY Tree DEF Entities
    <3> QED BY <3>1, <3>2
  <2> QED BY <2>1, <2>2 DEF Links
<1> QED BY <1>1, <1>2

\* How many an mpispawn waits for.
LEMMA EntsCount ==
    ASSUME NEW n \in Nodes
    PROVE  /\ IsFiniteSet(Ents(n)) /\ Cardinality(Ents(n)) \in Nat
           /\ \A c : All_in(n, c) <=> c = Cardinality(Ents(n))
<1>1. IsFiniteSet(Ranks) /\ NumNodes \in Nat /\ Ranks \cap Nodes = {}
  BY PmiAssumption
<1>2. IsFiniteSet(Nodes)
  <2>1. 0 \in Int /\ NumNodes - 1 \in Int
    BY <1>1
  <2> QED BY <2>1, FS_Interval DEF Nodes
<1>3. IsFiniteSet(Locals(n)) /\ IsFiniteSet(Children(n)) /\ Locals(n) \cap Children(n) = {}
  <2>1. Locals(n) \subseteq Ranks /\ Children(n) \subseteq Nodes
    BY DEF Locals, Children
  <2> QED BY <1>1, <1>2, <2>1, FS_Subset
<1>4. /\ IsFiniteSet(Ents(n))
      /\ Cardinality(Ents(n)) = Cardinality(Locals(n)) + Cardinality(Children(n))
  <2>1. Cardinality(Locals(n) \cap Children(n)) = 0
    BY <1>3, FS_EmptySet
  <2>2. /\ IsFiniteSet(Locals(n) \cup Children(n))
        /\ Cardinality(Locals(n) \cup Children(n)) =
              Cardinality(Locals(n)) + Cardinality(Children(n)) - Cardinality(Locals(n) \cap Children(n))
    BY <1>3, FS_Union
  <2>3. Cardinality(Locals(n)) \in Nat /\ Cardinality(Children(n)) \in Nat
    BY <1>3, FS_CardinalityType
  <2> QED BY <2>1, <2>2, <2>3 DEF Ents
<1>5. Cardinality(Ents(n)) \in Nat
  BY <1>4, FS_CardinalityType
<1> QED BY <1>4, <1>5 DEF All_in

-----------------------------------------------------------------------------
(* The rounds: a collective call of all processes after the other.  R[n] is how often    *)
(* mpispawn n has released those below it, done[r] how many collective calls process r   *)
(* has left.  A is the set of processes in a collective call, bar the counts of the      *)
(* mpispawns; I and O are those for which a message that one enters, and one that all    *)
(* have entered, is on the link to and from the one above.                               *)

Own(R, done, e) == IF e \in Ranks THEN done[e] ELSE R[e]

\* A process enters by its call, an mpispawn when all below it have.
Entering(A, bar) == A \cup {n \in Nodes \ {0} : bar[n] # 0 /\ bar[n] = Cardinality(Ents(n))}

Counted(I, O, A, bar, n) == {e \in Ents(n) : e \in Entering(A, bar) /\ e \notin I \cup O}

RoundsOf(R, I, O, A, done, bar) ==
    /\ R \in [Nodes -> Nat] /\ bar \in [Nodes -> Nat] /\ done \in [Ranks -> Nat]
    /\ A \subseteq Ranks /\ I \cap O = {} /\ I \cup O \subseteq Entering(A, bar)
    /\ \A e \in Entities : R[Above(e)] = Own(R, done, e) + (IF e \in O THEN 1 ELSE 0)
    /\ \A n \in Nodes : bar[n] = Cardinality(Counted(I, O, A, bar, n))
    /\ \A e \in Entities : \/ R[0] = Own(R, done, e)
                           \/ R[0] = Own(R, done, e) + 1 /\ e \in Entering(A, bar)

\* Those that an mpispawn has counted are among those it waits for.
LEMMA CountedBelow ==
    ASSUME NEW I, NEW O, NEW A, NEW bar, NEW n \in Nodes
    PROVE  /\ IsFiniteSet(Counted(I, O, A, bar, n))
           /\ Cardinality(Counted(I, O, A, bar, n)) \in Nat
           /\ Cardinality(Counted(I, O, A, bar, n)) = Cardinality(Ents(n))
                 => Counted(I, O, A, bar, n) = Ents(n)
<1>1. Counted(I, O, A, bar, n) \in SUBSET Ents(n)
  BY DEF Counted
<1>2. IsFiniteSet(Ents(n)) /\ Cardinality(Ents(n)) \in Nat
  BY EntsCount
<1>3. IsFiniteSet(Counted(I, O, A, bar, n))
  BY <1>1, <1>2, FS_Subset
<1>4. Cardinality(Counted(I, O, A, bar, n)) = Cardinality(Ents(n)) => Counted(I, O, A, bar, n) = Ents(n)
  BY <1>1, <1>2, FS_Subset
<1> QED BY <1>3, <1>4, FS_CardinalityType

\* What Entering says of processes and of mpispawns.
LEMMA EnteringIs ==
    ASSUME NEW A \in SUBSET Ranks, NEW bar
    PROVE  /\ Entering(A, bar) \subseteq Entities
           /\ \A r \in Ranks : r \in Entering(A, bar) <=> r \in A
           /\ \A n \in Nodes \ {0} :
                 n \in Entering(A, bar) <=> bar[n] # 0 /\ bar[n] = Cardinality(Ents(n))
BY PmiAssumption DEF Entering, Entities

\* No mpispawn has released more often than the root.
LEMMA RootIsLast ==
    ASSUME NEW R, NEW I, NEW O, NEW A, NEW done, NEW bar, RoundsOf(R, I, O, A, done, bar),
           NEW n \in Nodes
    PROVE  R[n] <= R[0]
<1>1. R[n] \in Nat /\ R[0] \in Nat
  BY Tree DEF RoundsOf
<1>2. CASE n # 0
  <2>1. n \in Entities /\ Own(R, done, n) = R[n]
    BY <1>2, Tree DEF Entities, Own
  <2> QED BY <1>1, <2>1 DEF RoundsOf
<1> QED BY <1>1, <1>2

\* A process makes a collective call.
LEMMA CallRound ==
    ASSUME NEW R, NEW I, NEW O, NEW A, NEW done, NEW bar, RoundsOf(R, I, O, A, done, bar),
           NEW r \in Ranks, r \notin A
    PROVE  RoundsOf(R, I \cup {r}, O, A \cup {r}, done, bar)
<1> DEFINE A2 == A \cup {r}
           I2 == I \cup {r}
<1>1. A2 \subseteq Ranks /\ A \subseteq Ranks
  BY DEF RoundsOf
<1>2. Entering(A2, bar) = Entering(A, bar) \cup {r}
  BY DEF Entering
<1>3. r \notin Entering(A, bar) /\ r \notin I /\ r \notin O
  BY <1>1, EnteringIs DEF RoundsOf
<1>4. \A n \in Nodes : Counted(I2, O, A2, bar, n) = Counted(I, O, A, bar, n)
  BY <1>2, <1>3 DEF Counted
<1> QED BY <1>1, <1>2, <1>3, <1>4 DEF RoundsOf

\* A process leaves its call.
LEMMA LeaveRound ==
    ASSUME NEW R, NEW I, NEW O, NEW A, NEW done, NEW bar, RoundsOf(R, I, O, A, done, bar),
           NEW r \in Ranks, r \in O
    PROVE  RoundsOf(R, I, O \ {r}, A \ {r}, [done EXCEPT ![r] = @ + 1], bar)
<1> DEFINE A2 == A \ {r}
           O2 == O \ {r}
           D2 == [done EXCEPT ![r] = @ + 1]
<1>0. /\ R \in [Nodes -> Nat] /\ bar \in [Nodes -> Nat] /\ done \in [Ranks -> Nat]
      /\ A \subseteq Ranks /\ I \cap O = {} /\ I \cup O \subseteq Entering(A, bar)
  BY DEF RoundsOf
<1>1. A2 \subseteq Ranks /\ D2 \in [Ranks -> Nat] /\ D2[r] = done[r] + 1
      /\ \A q \in Ranks : q # r => D2[q] = done[q]
  BY <1>0
<1>2. Entering(A2, bar) = Entering(A, bar) \ {r}
  BY PmiAssumption DEF Entering
<1>3. r \notin I
  BY <1>0
<1>4. \A n \in Nodes : Counted(I, O2, A2, bar, n) = Counted(I, O, A, bar, n)
  BY <1>2 DEF Counted
<1>5. \A e \in Entities : e # r => Own(R, D2, e) = Own(R, done, e)
  BY <1>1 DEF Own
<1>6. Own(R, D2, r) = Own(R, done, r) + 1 /\ Own(R, done, r) \in Nat
  BY <1>0, <1>1 DEF Own
<1>7. r \in Entities
  BY DEF Entities
<1>8. R[Above(r)] = Own(R, done, r) + 1
  BY <1>7 DEF RoundsOf
<1>9. \A n \in Nodes : R[n] <= R[0]
  BY RootIsLast
<1>10. R[0] = Own(R, D2, r)
  <2>1. R[0] = Own(R, done, r) \/ R[0] = Own(R, done, r) + 1
    BY <1>7 DEF RoundsOf
  <2>2. Above(r) \in Nodes
    BY <1>7, Tree
  <2>3. R[Above(r)] <= R[0]
    BY <1>9, <2>2
  <2> QED BY <1>6, <1>8, <2>1, <2>3
<1>11. \A e \in Entities : R[Above(e)] = Own(R, D2, e) + (IF e \in O2 THEN 1 ELSE 0)
  <2> SUFFICES ASSUME NEW e \in Entities
               PROVE  R[Above(e)] = Own(R, D2, e) + (IF e \in O2 THEN 1 ELSE 0)
    OBVIOUS
  <2>1. CASE e = r
    BY <1>6, <1>8, <2>1
  <2>2. CASE e # r
    BY <1>5, <2>2 DEF RoundsOf
  <2> QED BY <2>1, <2>2
<1>12. \A e \in Entities : \/ R[0] = Own(R, D2, e)
                           \/ R[0] = Own(R, D2, e) + 1 /\ e \in Entering(A2, bar)
  BY <1>2, <1>5, <1>10 DEF RoundsOf
<1>13. I \cap O2 = {} /\ I \cup O2 \subseteq Entering(A2, bar)
  BY <1>0, <1>2, <1>3
<1>14. \A n \in Nodes : bar[n] = Cardinality(Counted(I, O2, A2, bar, n))
  BY <1>4 DEF RoundsOf
<1> HIDE DEF A2, O2, D2
<1>15. RoundsOf(R, I, O2, A2, D2, bar)
  BY <1>0, <1>1, <1>11, <1>12, <1>13, <1>14 DEF RoundsOf
<1> QED BY <1>15 DEF A2, O2, D2

\* An mpispawn counts one more of those below it.
LEMMA OneMore ==
    ASSUME NEW R, NEW I, NEW O, NEW A, NEW done, NEW bar, RoundsOf(R, I, O, A, done, bar),
           NEW s \in I, NEW n \in Nodes, Above(s) = n
    PROVE  /\ s \in Ents(n) /\ s \in Entering(A, bar) /\ s \notin O
           /\ n \notin Entering(A, bar)
           /\ bar[n] # Cardinality(Ents(n))
           /\ Cardinality(Counted(I, O, A, bar, n) \cup {s}) = bar[n] + 1
           /\ bar[n] + 1 = Cardinality(Ents(n)) =>
                 \A e \in Ents(n) : e = s \/ e \in Counted(I, O, A, bar, n)
<1> DEFINE C == Counted(I, O, A, bar, n)
<1>1. A \subseteq Ranks /\ s \in Entering(A, bar) /\ s \notin O
  BY DEF RoundsOf
<1>2. s \in Entities
  BY <1>1, EnteringIs
<1>3. s \in Ents(n)
  BY <1>2, EntsIs
<1>4. s \notin C /\ C \subseteq Ents(n) /\ bar[n] = Cardinality(C)
  BY DEF Counted, RoundsOf
<1>5. IsFiniteSet(C) /\ (Cardinality(C) = Cardinality(Ents(n)) => C = Ents(n))
  BY CountedBelow
<1> HIDE DEF C
<1>6. bar[n] # Cardinality(Ents(n))
  BY <1>3, <1>4, <1>5
<1>7. n \notin Entering(A, bar)
  BY <1>1, <1>6, PmiAssumption DEF Entering
<1>8. IsFiniteSet(C \cup {s}) /\ Cardinality(C \cup {s}) = bar[n] + 1
  BY <1>4, <1>5, FS_AddElement
<1>9. C \cup {s} \in SUBSET Ents(n) /\ IsFiniteSet(Ents(n))
  BY <1>3, <1>4, EntsCount
<1>10. bar[n] + 1 = Cardinality(Ents(n)) => C \cup {s} = Ents(n)
  BY <1>8, <1>9, FS_Subset
<1>11. bar[n] + 1 = Cardinality(Ents(n)) => \A e \in Ents(n) : e = s \/ e \in C
  BY <1>10
<1> QED BY <1>1, <1>3, <1>6, <1>7, <1>8, <1>11 DEF C

\* Not all are in yet.
LEMMA CountRound ==
    ASSUME NEW R, NEW I, NEW O, NEW A, NEW done, NEW bar, RoundsOf(R, I, O, A, done, bar),
           NEW s \in I, NEW n \in Nodes, Above(s) = n, bar[n] + 1 # Cardinality(Ents(n))
    PROVE  RoundsOf(R, I \ {s}, O, A, done, [bar EXCEPT ![n] = @ + 1])
<1> DEFINE I2 == I \ {s}
           B2 == [bar EXCEPT ![n] = @ + 1]
<1>0. /\ R \in [Nodes -> Nat] /\ bar \in [Nodes -> Nat] /\ done \in [Ranks -> Nat]
      /\ A \subseteq Ranks /\ I \cap O = {} /\ I \cup O \subseteq Entering(A, bar)
  BY DEF RoundsOf
<1>1. B2 \in [Nodes -> Nat] /\ B2[n] = bar[n] + 1 /\ \A m \in Nodes : m # n => B2[m] = bar[m]
  BY <1>0
<1>2. /\ s \in Ents(n) /\ s \in Entering(A, bar) /\ s \notin O /\ n \notin Entering(A, bar)
      /\ Cardinality(Counted(I, O, A, bar, n) \cup {s}) = bar[n] + 1
      /\ bar[n] # Cardinality(Ents(n))
  BY OneMore
<1> HIDE DEF B2
<1>3. Entering(A, B2) = Entering(A, bar)
  BY <1>1, <1>2 DEF Entering
<1>4. Counted(I2, O, A, B2, n) = Counted(I, O, A, bar, n) \cup {s}
  BY <1>2, <1>3 DEF Counted
<1>5. \A m \in Nodes : m # n => s \notin Ents(m)
  BY EntsIs
<1>6. \A m \in Nodes : m # n => Counted(I2, O, A, B2, m) = Counted(I, O, A, bar, m)
  BY <1>3, <1>5 DEF Counted
<1>7. \A m \in Nodes : B2[m] = Cardinality(Counted(I2, O, A, B2, m))
  BY <1>1, <1>2, <1>4, <1>6 DEF RoundsOf
<1>8. I2 \cap O = {} /\ I2 \cup O \subseteq Entering(A, B2)
  BY <1>0, <1>3
<1> HIDE DEF I2
<1>9. RoundsOf(R, I2, O, A, done, B2)
  BY <1>0, <1>1, <1>3, <1>7, <1>8 DEF RoundsOf
<1> QED BY <1>9 DEF I2, B2

\* All below an mpispawn are in: it enters.
LEMMA UpRound ==
    ASSUME NEW R, NEW I, NEW O, NEW A, NEW done, NEW bar, RoundsOf(R, I, O, A, done, bar),
           NEW s \in I, NEW n \in Nodes, Above(s) = n, bar[n] + 1 = Cardinality(Ents(n)), n # 0
    PROVE  RoundsOf(R, (I \ {s}) \cup {n}, O, A, done, [bar EXCEPT ![n] = @ + 1])
<1> DEFINE I2 == (I \ {s}) \cup {n}
           B2 == [bar EXCEPT ![n] = @ + 1]
<1>0. /\ R \in [Nodes -> Nat] /\ bar \in [Nodes -> Nat] /\ done \in [Ranks -> Nat]
      /\ A \subseteq Ranks /\ I \cap O = {} /\ I \cup O \subseteq Entering(A, bar)
  BY DEF RoundsOf
<1>1. B2 \in [Nodes -> Nat] /\ B2[n] = bar[n] + 1 /\ \A m \in Nodes : m # n => B2[m] = bar[m]
  BY <1>0
<1>2. /\ s \in Ents(n) /\ s \in Entering(A, bar) /\ s \notin O /\ n \notin Entering(A, bar)
      /\ Cardinality(Counted(I, O, A, bar, n) \cup {s}) = bar[n] + 1
  BY OneMore
<1> HIDE DEF B2
<1>3. Entering(A, B2) = Entering(A, bar) \cup {n}
  <2>1. B2[n] # 0 /\ B2[n] = Cardinality(Ents(n))
    BY <1>0, <1>1
  <2> QED BY <1>1, <2>1 DEF Entering
<1>4. n \notin Ents(n) /\ n # s
  <2>1. n \in Entities /\ Above(n) # n
    BY Tree DEF Entities
  <2> QED BY <2>1, EntsIs
<1>5. Counted(I2, O, A, B2, n) = Counted(I, O, A, bar, n) \cup {s}
  BY <1>2, <1>3, <1>4 DEF Counted
<1>6. \A m \in Nodes : m # n => s \notin Ents(m)
  BY EntsIs
<1>7. \A m \in Nodes : m # n => Counted(I2, O, A, B2, m) = Counted(I, O, A, bar, m)
  BY <1>2, <1>3, <1>6 DEF Counted
<1>8. \A m \in Nodes : B2[m] = Cardinality(Counted(I2, O, A, B2, m))
  BY <1>1, <1>2, <1>5, <1>7 DEF RoundsOf
<1>9. I2 \cap O = {} /\ I2 \cup O \subseteq Entering(A, B2)
  BY <1>0, <1>2, <1>3
<1>10. \A e \in Entities : \/ R[0] = Own(R, done, e)
                           \/ R[0] = Own(R, done, e) + 1 /\ e \in Entering(A, B2)
  BY <1>3 DEF RoundsOf
<1> HIDE DEF I2
<1>11. RoundsOf(R, I2, O, A, done, B2)
  BY <1>0, <1>1, <1>8, <1>9, <1>10 DEF RoundsOf
<1> QED BY <1>11 DEF I2, B2

\* All below an mpispawn that enters have entered, and it has not released them.
LEMMA AllBelow ==
    ASSUME NEW R, NEW I, NEW O, NEW A, NEW done, NEW bar, RoundsOf(R, I, O, A, done, bar),
           NEW n \in Nodes \ {0}, n \in Entering(A, bar)
    PROVE  /\ Ents(n) \subseteq Entering(A, bar) /\ Ents(n) \cap (I \cup O) = {}
           /\ \A e \in Ents(n) : Own(R, done, e) = R[n]
<1>1. A \subseteq Ranks /\ bar[n] = Cardinality(Counted(I, O, A, bar, n))
  BY DEF RoundsOf
<1>2. bar[n] = Cardinality(Ents(n))
  BY <1>1, EnteringIs
<1>3. Counted(I, O, A, bar, n) = Ents(n)
  BY <1>1, <1>2, CountedBelow
<1>4. Ents(n) \subseteq Entering(A, bar) /\ Ents(n) \cap (I \cup O) = {}
  BY <1>3 DEF Counted
<1>5. ASSUME NEW e \in Ents(n) PROVE Own(R, done, e) = R[n]
  <2>1. e \in Entities /\ Above(e) = n /\ e \notin O
    BY <1>4, EntsIs
  <2>2. Own(R, done, e) \in Nat
    BY <2>1, Tree DEF Own, RoundsOf, Entities
  <2> QED BY <2>1, <2>2 DEF RoundsOf
<1> QED BY <1>4, <1>5
\* A set of naturals that holds 0 and the successor of each of its members holds all.
LEMMA NatSetInduction ==
    ASSUME NEW S, 0 \in S, \A n \in Nat : n \in S => n + 1 \in S
    PROVE  Nat \subseteq S
<1> SUFFICES ASSUME NEW n \in Nat, n \notin S PROVE FALSE
    OBVIOUS
<1> DEFINE T == {0 .. k : k \in {j \in 0 .. n : j \notin S}}
<1>1. T \subseteq FiniteSubsetsOf(0 .. n)
    <2> SUFFICES ASSUME NEW k \in 0 .. n, k \notin S PROVE 0 .. k \in FiniteSubsetsOf(0 .. n)
        OBVIOUS
    <2>1. IsFiniteSet(0 .. k)
        BY FS_Interval
    <2> QED
        BY <2>1 DEF FiniteSubsetsOf
<1>2. T # {}
    OBVIOUS
<1>3. PICK x \in T : \A y \in T : ~ (<<y, x>> \in StrictSubsetOrdering(0 .. n))
    <2> HIDE DEF T
    <2>1. IsWellFoundedOn(StrictSubsetOrdering(0 .. n), FiniteSubsetsOf(0 .. n))
        BY FS_StrictSubsetOrderingWellFounded
    <2> QED
        BY ONLY <1>1, <1>2, <2>1, WFMin
<1>4. PICK k \in 0 .. n : k \notin S /\ x = 0 .. k
    OBVIOUS
<1>5. k # 0 /\ k - 1 \in S
    <2>1. k # 0
        BY <1>4
    <2>2. ASSUME k - 1 \notin S PROVE FALSE
        <3>1. 0 .. (k - 1) \in T
            BY <1>4, <2>1, <2>2
        <3>2. <<0 .. (k - 1), 0 .. k>> \in StrictSubsetOrdering(0 .. n)
            BY <2>1 DEF StrictSubsetOrdering
        <3> QED
            BY <3>1, <3>2, <1>3, <1>4
    <2> QED
        BY <2>1, <2>2
<1> QED
    BY <1>4, <1>5

\* When the root has all of those below it, every process and every mpispawn has entered, and
\* has left what the root has released.
LEMMA AllAreIn ==
    ASSUME NEW R, NEW I, NEW O, NEW A, NEW done, NEW bar, RoundsOf(R, I, O, A, done, bar),
           Ents(0) \subseteq Entering(A, bar), Ents(0) \cap O = {}, NEW e \in Entities
    PROVE  e \in Entering(A, bar) /\ e \notin O /\ Own(R, done, e) = R[0]
<1> DEFINE Good(n) == \A d \in Ents(n) : d \in Entering(A, bar) /\ d \notin O /\ Own(R, done, d) = R[0]
           S == {k \in Nat : \A n \in Nodes : n <= k => Good(n)}
<1>1. Good(0)
  <2> SUFFICES ASSUME NEW d \in Ents(0) PROVE Own(R, done, d) = R[0]
    OBVIOUS
  <2>1. d \in Entities /\ Above(d) = 0 /\ d \notin O
    BY EntsIs, Tree
  <2>2. Own(R, done, d) \in Nat
    BY <2>1, Tree DEF Own, RoundsOf, Entities
  <2> QED BY <2>1, <2>2 DEF RoundsOf
<1>2. ASSUME NEW n \in Nodes \ {0}, Good(Above(n)) PROVE Good(n)
  <2>1. n \in Entities /\ n \in Ents(Above(n)) /\ n \notin Ranks
    BY EntsIs, Tree DEF Entities
  <2>2. n \in Entering(A, bar) /\ Own(R, done, n) = R[0]
    BY <1>2, <2>1
  <2>3. R[n] = R[0]
    BY <2>1, <2>2 DEF Own
  <2> QED BY <2>2, <2>3, AllBelow
<1> HIDE DEF Good
<1>3. 0 \in S
  BY <1>1, Tree
<1>4. ASSUME NEW k \in Nat, k \in S PROVE k + 1 \in S
  <2> SUFFICES ASSUME NEW n \in Nodes, n <= k + 1 PROVE Good(n)
    OBVIOUS
  <2>1. n \in Nat
    BY Tree
  <2>2. CASE n = 0
    BY <1>1, <2>2
  <2>3. CASE n # 0
    <3>1. Above(n) \in Nodes /\ Above(n) < n
      BY <2>3, Tree DEF Entities
    <3>2. Above(n) \in Nat
      BY <3>1, Tree
    <3>3. Above(n) <= k
      BY <2>1, <3>1, <3>2
    <3>4. Good(Above(n))
      BY <1>4, <3>1, <3>3
    <3> QED BY <1>2, <2>3, <3>4
  <2> QED BY <2>2, <2>3
<1>5. Nat \subseteq S
  <2> HIDE DEF S
  <2> QED BY ONLY <1>3, <1>4, NatSetInduction
<1>6. Above(e) \in Nodes /\ Above(e) \in Nat /\ e \in Ents(Above(e))
  BY EntsIs, Tree
<1>7. Above(e) \in S
  BY <1>5, <1>6
<1>8. Above(e) <= Above(e)
  BY <1>6
<1>9. Good(Above(e))
  BY <1>6, <1>7, <1>8
<1> QED BY <1>6, <1>9 DEF Good

\* All below the root are in: it releases them.
LEMMA RootRound ==
    ASSUME NEW R, NEW I, NEW O, NEW A, NEW done, NEW bar, RoundsOf(R, I, O, A, done, bar),
           NEW s \in I, Above(s) = 0, bar[0] + 1 = Cardinality(Ents(0))
    PROVE  RoundsOf([R EXCEPT ![0] = @ + 1], I \ {s}, O \cup Ents(0), A, done, [bar EXCEPT ![0] = 0])
<1> DEFINE I2 == I \ {s}
           O2 == O \cup Ents(0)
           R2 == [R EXCEPT ![0] = @ + 1]
           B2 == [bar EXCEPT ![0] = 0]
<1>0. /\ R \in [Nodes -> Nat] /\ bar \in [Nodes -> Nat] /\ done \in [Ranks -> Nat]
      /\ A \subseteq Ranks /\ I \cap O = {} /\ I \cup O \subseteq Entering(A, bar) /\ 0 \in Nodes
  BY Tree DEF RoundsOf
<1>1. /\ B2 \in [Nodes -> Nat] /\ B2[0] = 0 /\ R2 \in [Nodes -> Nat] /\ R2[0] = R[0] + 1
      /\ \A m \in Nodes : m # 0 => B2[m] = bar[m] /\ R2[m] = R[m]
  BY <1>0
<1>2. /\ s \in Entering(A, bar) /\ s \notin O
      /\ Cardinality(Counted(I, O, A, bar, 0) \cup {s}) = bar[0] + 1
      /\ \A e \in Ents(0) : e = s \/ e \in Counted(I, O, A, bar, 0)
  BY <1>0, OneMore
<1>3. Ents(0) \subseteq Entering(A, bar) /\ Ents(0) \cap O = {} /\ Ents(0) \cap I2 = {}
  BY <1>2 DEF Counted
<1>4. \A e \in Entities : e \in Entering(A, bar) /\ e \notin O /\ Own(R, done, e) = R[0]
  BY <1>3, AllAreIn
<1> HIDE DEF B2, R2
<1>5. Entering(A, B2) = Entering(A, bar)
  BY <1>1 DEF Entering
<1>6. I2 \cap O2 = {} /\ I2 \cup O2 \subseteq Entering(A, B2)
  BY <1>0, <1>3, <1>5
<1>7. \A e \in Entities : Own(R2, done, e) = R[0]
  BY <1>1, <1>4 DEF Own, Entities
<1>8. \A e \in Entities : e \in O2 <=> Above(e) = 0
  BY <1>0, <1>4, EntsIs
<1>9. \A e \in Entities : R[Above(e)] = R[0] /\ R[0] \in Nat
  BY <1>0, <1>4 DEF RoundsOf
<1>10. \A e \in Entities : R2[Above(e)] = Own(R2, done, e) + (IF e \in O2 THEN 1 ELSE 0)
  <2> SUFFICES ASSUME NEW e \in Entities
               PROVE  R2[Above(e)] = Own(R2, done, e) + (IF e \in O2 THEN 1 ELSE 0)
    OBVIOUS
  <2>1. Above(e) \in Nodes
    BY Tree
  <2> QED BY <1>1, <1>7, <1>8, <1>9, <2>1
<1>11. \A m \in Nodes : m # 0 => Counted(I2, O2, A, B2, m) = Counted(I, O, A, bar, m)
  <2> SUFFICES ASSUME NEW m \in Nodes, m # 0
               PROVE  Counted(I2, O2, A, B2, m) = Counted(I, O, A, bar, m)
    OBVIOUS
  <2>1. \A e \in Ents(m) : e # s /\ e \notin Ents(0)
    BY <1>0, EntsIs
  <2> QED BY <1>5, <2>1 DEF Counted
<1>12. Counted(I2, O2, A, B2, 0) = {}
  BY DEF Counted
<1>13. \A m \in Nodes : B2[m] = Cardinality(Counted(I2, O2, A, B2, m))
  BY <1>1, <1>11, <1>12, FS_EmptySet DEF RoundsOf
<1>14. \A e \in Entities : R2[0] = Own(R2, done, e) + 1 /\ e \in Entering(A, B2)
  BY <1>1, <1>4, <1>5, <1>7
<1> HIDE DEF I2, O2
<1>15. RoundsOf(R2, I2, O2, A, done, B2)
  BY <1>0, <1>1, <1>6, <1>10, <1>13, <1>14 DEF RoundsOf
<1> QED BY <1>15 DEF I2, O2, R2, B2

\* An mpispawn below the root is released, and releases those below it.
LEMMA DownRound ==
    ASSUME NEW R, NEW I, NEW O, NEW A, NEW done, NEW bar, RoundsOf(R, I, O, A, done, bar),
           NEW n \in Nodes \ {0}, n \in O
    PROVE  RoundsOf([R EXCEPT ![n] = @ + 1], I, (O \ {n}) \cup Ents(n), A, done,
                    [bar EXCEPT ![n] = 0])
<1> DEFINE O2 == (O \ {n}) \cup Ents(n)
           R2 == [R EXCEPT ![n] = @ + 1]
           B2 == [bar EXCEPT ![n] = 0]
<1>0. /\ R \in [Nodes -> Nat] /\ bar \in [Nodes -> Nat] /\ done \in [Ranks -> Nat]
      /\ A \subseteq Ranks /\ I \cap O = {} /\ I \cup O \subseteq Entering(A, bar)
      /\ n \in Entering(A, bar) /\ 0 \in Nodes
  BY Tree DEF RoundsOf
<1>1. /\ B2 \in [Nodes -> Nat] /\ B2[n] = 0 /\ R2 \in [Nodes -> Nat] /\ R2[n] = R[n] + 1
      /\ \A m \in Nodes : m # n => B2[m] = bar[m] /\ R2[m] = R[m]
  BY <1>0
<1>2. /\ Ents(n) \subseteq Entering(A, bar) /\ Ents(n) \cap (I \cup O) = {}
      /\ \A e \in Ents(n) : Own(R, done, e) = R[n]
  BY <1>0, AllBelow
<1>3. n \in Entities /\ Above(n) # n /\ n \notin Ents(n) /\ n \notin Ranks /\ Above(n) \in Nodes
  BY EntsIs, Tree DEF Entities
<1> HIDE DEF B2, R2
<1>4. Entering(A, B2) = Entering(A, bar) \ {n}
  BY <1>0, <1>1, <1>3 DEF Entering
<1>5. I \cap O2 = {} /\ I \cup O2 \subseteq Entering(A, B2)
  BY <1>0, <1>2, <1>3, <1>4
<1>6. \A e \in Entities : e # n => Own(R2, done, e) = Own(R, done, e)
  BY <1>1 DEF Own, Entities
<1>7. Own(R2, done, n) = R[n] + 1 /\ Own(R, done, n) = R[n] /\ R[n] \in Nat
  BY <1>0, <1>1, <1>3 DEF Own
<1>8. R[Above(n)] = R[n] + 1
  BY <1>3, <1>7 DEF RoundsOf
<1>9. \A e \in Entities : R2[Above(e)] = Own(R2, done, e) + (IF e \in O2 THEN 1 ELSE 0)
  <2> SUFFICES ASSUME NEW e \in Entities
               PROVE  R2[Above(e)] = Own(R2, done, e) + (IF e \in O2 THEN 1 ELSE 0)
    OBVIOUS
  <2>1. Above(e) \in Nodes
    BY Tree
  <2>2. CASE e = n
    BY <1>1, <1>3, <1>7, <1>8, <2>2
  <2>3. CASE e \in Ents(n)
    <3>1. Above(e) = n
      BY <2>3, EntsIs
    <3> QED BY <1>1, <1>2, <1>3, <1>6, <1>7, <2>3, <3>1
  <2>4. CASE e # n /\ e \notin Ents(n)
    <3>1. Above(e) # n /\ (e \in O2 <=> e \in O)
      BY <2>4, EntsIs
    <3> QED BY <1>1, <1>6, <2>1, <2>4, <3>1 DEF RoundsOf
  <2> QED BY <2>2, <2>3, <2>4
<1>10. \A m \in Nodes : m # n => Counted(I, O2, A, B2, m) = Counted(I, O, A, bar, m)
  <2> SUFFICES ASSUME NEW m \in Nodes, m # n
               PROVE  Counted(I, O2, A, B2, m) = Counted(I, O, A, bar, m)
    OBVIOUS
  <2>1. \A e \in Ents(m) : e \notin Ents(n)
    BY EntsIs
  <2> QED BY <1>4, <2>1 DEF Counted
<1>11. Counted(I, O2, A, B2, n) = {}
  BY DEF Counted
<1>12. \A m \in Nodes : B2[m] = Cardinality(Counted(I, O2, A, B2, m))
  BY <1>1, <1>10, <1>11, FS_EmptySet DEF RoundsOf
<1>13. R[0] = R[n] + 1 /\ R2[0] = R[0]
  <2>1. R[Above(n)] <= R[0]
    BY <1>3, RootIsLast
  <2>2. R[0] = R[n] \/ R[0] = R[n] + 1
    BY <1>3, <1>7 DEF RoundsOf
  <2> QED BY <1>0, <1>1, <1>7, <1>8, <2>1, <2>2
<1>14. \A e \in Entities : \/ R2[0] = Own(R2, done, e)
                           \/ R2[0] = Own(R2, done, e) + 1 /\ e \in Entering(A, B2)
  BY <1>4, <1>6, <1>7, <1>13 DEF RoundsOf
<1> HIDE DEF O2
<1>15. RoundsOf(R2, I, O2, A, done, B2)
  BY <1>0, <1>1, <1>5, <1>9, <1>12, <1>14 DEF RoundsOf
<1> QED BY <1>15 DEF O2, R2, B2

\* Nobody has left more collective calls than another has entered.
LEMMA RoundsHold ==
    ASSUME NEW R, NEW I, NEW O, NEW A, NEW done, NEW bar, RoundsOf(R, I, O, A, done, bar),
           NEW r \in Ranks, NEW q \in Ranks
    PROVE  done[r] <= done[q] + (IF q \in A THEN 1 ELSE 0)
<1>1. r \in Entities /\ q \in Entities /\ Own(R, done, r) = done[r] /\ Own(R, done, q) = done[q]
  BY DEF Entities, Own
<1>2. done[r] \in Nat /\ done[q] \in Nat /\ A \in SUBSET Ranks
  BY DEF RoundsOf
<1>3. R[0] = done[r] \/ R[0] = done[r] + 1
  BY <1>1 DEF RoundsOf
<1>4. R[0] = done[q] \/ (R[0] = done[q] + 1 /\ q \in Entering(A, bar))
  BY <1>1 DEF RoundsOf
<1>5. q \in Entering(A, bar) => q \in A
  BY <1>2, EnteringIs
<1> QED BY <1>2, <1>3, <1>4, <1>5

\* At first nobody has made a call.
LEMMA FirstRound ==
    RoundsOf([n \in Nodes |-> 0], {}, {}, {}, [r \in Ranks |-> 0], [n \in Nodes |-> 0])
<1> DEFINE Z == [n \in Nodes |-> 0]
           D == [r \in Ranks |-> 0]
<1>1. Z \in [Nodes -> Nat] /\ D \in [Ranks -> Nat] /\ \A n \in Nodes : Z[n] = 0
  OBVIOUS
<1>2. \A n \in Nodes : Counted({}, {}, {}, Z, n) = {}
  BY <1>1 DEF Counted, Entering
<1>3. \A e \in Entities : Own(Z, D, e) = 0
  BY DEF Own, Entities
<1>4. \A e \in Entities : Above(e) \in Nodes
  BY Tree
<1>5. Z[0] = 0
  BY Tree
<1>6. \A n \in Nodes : Z[n] = Cardinality(Counted({}, {}, {}, Z, n))
  BY <1>1, <1>2, FS_EmptySet
<1> HIDE DEF Z, D
<1>7. \A e \in Entities : Z[Above(e)] = Own(Z, D, e) + (IF e \in {} THEN 1 ELSE 0)
  BY <1>1, <1>3, <1>4
<1>8. \A e \in Entities : Z[0] = Own(Z, D, e)
  BY <1>3, <1>5
<1>9. {} \cup {} \subseteq Entering({}, Z) /\ {} \cap {} = {} /\ {} \subseteq Ranks
  OBVIOUS
<1>10. RoundsOf(Z, {}, {}, {}, D, Z)
  BY <1>1, <1>6, <1>7, <1>8, <1>9 DEF RoundsOf
<1> QED BY <1>10 DEF Z, D

-----------------------------------------------------------------------------
(* The messages: those that enter a collective call, those that all have entered it, the *)
(* bunches of keys, and what belongs to a request of a single process.                   *)

Outs == {"barrier_out", "finalize_ack"}
OwnCommands == {"put", "get", "publish_name", "unpublish_name", "lookup_name", "put_result",
                "get_result", "publish_result", "unpublish_result", "lookup_result"}
AllKeys == Keys \cup {"none", "ok", "notok"}

Messages ==
    [cmd : {"bputs"}, key : Seq(AllKeys), rank : {"none"}, header : {TRUE}]
    \cup [cmd : Collectives \cup Outs, key : AllKeys, rank : Ranks, header : {TRUE}]
    \cup [cmd : OwnCommands, key : AllKeys, rank : Ranks, header : BOOLEAN]

InC == <<"in", "none">>
OutC == <<"out", "none">>
BunchC == <<"bunch", "none">>
OwnC(r) == <<"own", r>>

Class(m) ==
    IF m.cmd \in Collectives THEN InC
    ELSE IF m.cmd \in Outs THEN OutC
    ELSE IF m.cmd = "bputs" THEN BunchC
    ELSE OwnC(m.rank)

Has(q, c) == \E i \in 1 .. Len(q) : Class(q[i]) = c
Once(q, c) == \A i, j \in 1 .. Len(q) : Class(q[i]) = c /\ Class(q[j]) = c => i = j
Only(q, S) == \A i \in 1 .. Len(q) : Class(q[i]) \in S

\* What the class of a message tells.
LEMMA ClassIs ==
    /\ InC # OutC /\ InC # BunchC /\ OutC # BunchC
    /\ \A r : OwnC(r) \notin {InC, OutC, BunchC}
    /\ \A r, p : OwnC(r) = OwnC(p) => r = p
    /\ \A m \in Messages :
          /\ Class(m) = InC <=> m.cmd \in Collectives
          /\ Class(m) = OutC <=> m.cmd \in Outs
          /\ Class(m) = BunchC <=> m.cmd = "bputs"
          /\ Class(m) \in {InC, OutC, BunchC} \/ (m.cmd \in OwnCommands /\ m.rank \in Ranks /\ Class(m) = OwnC(m.rank))
          /\ Class(m) = InC \/ Class(m) = OutC => m.header = TRUE /\ m.rank \in Ranks /\ m.key \in AllKeys
<1>1. /\ InC # OutC /\ InC # BunchC /\ OutC # BunchC
      /\ \A r : OwnC(r) \notin {InC, OutC, BunchC}
  BY DEF InC, OutC, BunchC, OwnC
<1>2. \A r, p : OwnC(r) = OwnC(p) => r = p
  BY DEF OwnC
<1>3. ASSUME NEW m \in Messages
      PROVE  /\ Class(m) = InC <=> m.cmd \in Collectives
             /\ Class(m) = OutC <=> m.cmd \in Outs
             /\ Class(m) = BunchC <=> m.cmd = "bputs"
             /\ Class(m) \in {InC, OutC, BunchC} \/ (m.cmd \in OwnCommands /\ m.rank \in Ranks /\ Class(m) = OwnC(m.rank))
             /\ Class(m) = InC \/ Class(m) = OutC => m.header = TRUE /\ m.rank \in Ranks /\ m.key \in AllKeys
  <2>1. \/ m.cmd = "bputs"
        \/ m.cmd \in Collectives \cup Outs /\ m.header = TRUE /\ m.rank \in Ranks /\ m.key \in AllKeys
        \/ m.cmd \in OwnCommands /\ m.rank \in Ranks
    BY DEF Messages
  <2>2. CASE m.cmd = "bputs"
    BY <1>1, <2>2 DEF Class, Collectives, Outs
  <2>3. CASE m.cmd \in Collectives /\ m.header = TRUE /\ m.rank \in Ranks /\ m.key \in AllKeys
    BY <1>1, <2>3 DEF Class, Collectives, Outs
  <2>4. CASE m.cmd \in Outs /\ m.header = TRUE /\ m.rank \in Ranks /\ m.key \in AllKeys
    BY <1>1, <2>4 DEF Class, Collectives, Outs
  <2>5. CASE m.cmd \in OwnCommands /\ m.rank \in Ranks
    BY <1>1, <2>5 DEF Class, Collectives, Outs, OwnCommands
  <2> QED BY <2>1, <2>2, <2>3, <2>4, <2>5
<1> QED BY <1>1, <1>2, <1>3

\* A message is appended.
LEMMA AppendClass ==
    ASSUME NEW q \in Seq(Messages), NEW m \in Messages
    PROVE  /\ Append(q, m) \in Seq(Messages)
           /\ \A c : Has(Append(q, m), c) <=> Has(q, c) \/ Class(m) = c
           /\ \A c : Once(q, c) /\ (Class(m) = c => ~Has(q, c)) => Once(Append(q, m), c)
           /\ \A S : Only(q, S) /\ Class(m) \in S => Only(Append(q, m), S)
<1> DEFINE p == Append(q, m)
<1>1. p \in Seq(Messages) /\ Len(q) \in Nat /\ Len(p) = Len(q) + 1 /\ p[Len(q) + 1] = m
      /\ \A i \in 1 .. Len(q) : p[i] = q[i]
  OBVIOUS
<1> HIDE DEF p
<1>2. \A i \in 1 .. Len(p) : i \in 1 .. Len(q) \/ i = Len(q) + 1
  BY <1>1
<1>3. Len(q) + 1 \in 1 .. Len(p) /\ \A i \in 1 .. Len(q) : i \in 1 .. Len(p)
  BY <1>1
<1>4. \A c : Has(p, c) <=> Has(q, c) \/ Class(m) = c
  BY <1>1, <1>2, <1>3 DEF Has
<1>5. \A c : Once(q, c) /\ (Class(m) = c => ~Has(q, c)) => Once(p, c)
  BY <1>1, <1>2 DEF Once, Has
<1>6. \A S : Only(q, S) /\ Class(m) \in S => Only(p, S)
  BY <1>1, <1>2 DEF Only
<1> QED BY <1>1, <1>4, <1>5, <1>6 DEF p

\* The first message is taken off.
LEMMA TailClass ==
    ASSUME NEW q \in Seq(Messages), q # << >>
    PROVE  /\ Tail(q) \in Seq(Messages) /\ Head(q) \in Messages
           /\ \A c : Has(q, c) <=> Has(Tail(q), c) \/ Class(Head(q)) = c
           /\ \A c : Once(q, c) => Once(Tail(q), c)
           /\ \A c : Once(q, c) /\ Class(Head(q)) = c => ~Has(Tail(q), c)
           /\ \A S : Only(q, S) => Only(Tail(q), S) /\ Class(Head(q)) \in S
<1> DEFINE p == Tail(q)
<1>1. p \in Seq(Messages) /\ Len(q) \in Nat /\ Len(q) > 0 /\ Len(p) \in Nat /\ Len(q) = Len(p) + 1
      /\ Head(q) = q[1] /\ Head(q) \in Messages
      /\ \A i \in 1 .. Len(p) : p[i] = q[i + 1]
  OBVIOUS
<1> HIDE DEF p
<1>2. \A i \in 1 .. Len(p) : i + 1 \in 1 .. Len(q) /\ i + 1 # 1 /\ i \in Int
  BY <1>1
<1>3. \A i \in 1 .. Len(q) : i = 1 \/ (i - 1 \in 1 .. Len(p) /\ p[i - 1] = q[i])
  <2> SUFFICES ASSUME NEW i \in 1 .. Len(q), i # 1
               PROVE  i - 1 \in 1 .. Len(p) /\ p[i - 1] = q[i]
    OBVIOUS
  <2>1. i - 1 \in 1 .. Len(p) /\ (i - 1) + 1 = i
    BY <1>1
  <2> QED BY <1>1, <2>1
<1>4. 1 \in 1 .. Len(q)
  BY <1>1
<1>5. \A c : Has(q, c) <=> Has(p, c) \/ Class(Head(q)) = c
  BY <1>1, <1>2, <1>3, <1>4 DEF Has
<1>6. \A c : Once(q, c) => Once(p, c)
  <2> SUFFICES ASSUME NEW c, Once(q, c), NEW i \in 1 .. Len(p), NEW j \in 1 .. Len(p),
                      Class(p[i]) = c, Class(p[j]) = c
               PROVE  i = j
    BY DEF Once
  <2>1. i + 1 = j + 1
    BY <1>1, <1>2 DEF Once
  <2> QED BY <1>2, <2>1
<1>7. \A c : Once(q, c) /\ Class(Head(q)) = c => ~Has(p, c)
  BY <1>1, <1>2, <1>4 DEF Once, Has
<1>8. \A S : Only(q, S) => Only(p, S) /\ Class(Head(q)) \in S
  BY <1>1, <1>2, <1>4 DEF Only
<1> QED BY <1>1, <1>5, <1>6, <1>7, <1>8 DEF p

-----------------------------------------------------------------------------
(* The invariant. *)

UpLink(e) == <<e, Above(e)>>
DownLink(e) == <<Above(e), e>>

InCall(r) == asked[r] /\ script[r][pc[r]].cmd \in Collectives

\* What the rounds are about.
Raised == {e \in Entities : Has(link[UpLink(e)], InC)}
Released == {e \in Entities : Has(link[DownLink(e)], OutC)}
Callers == {r \in Ranks : InCall(r)}
Done == [r \in Ranks |-> CollectivesBefore(script[r], pc[r])]

Rounds == \E R : RoundsOf(R, Raised, Released, Callers, Done, barrier)

Typed ==
    /\ script \in Scripts /\ pc \in [Ranks -> Nat \ {0}] /\ asked \in [Ranks -> BOOLEAN]
    /\ \A r \in Ranks : asked[r] => pc[r] <= Len(script[r])
    /\ link \in [Links -> Seq(Messages)]
    /\ puts \in [Nodes -> Seq(AllKeys)] /\ barrier \in [Nodes -> Nat]
    /\ reqs \in [Nodes -> SUBSET (Ranks \X (Ranks \cup Nodes))]
    /\ \A n \in Nodes : \A p \in reqs[n] : p[2] \in Ranks => p[2] = p[1]

\* Messages that enter a collective call go up, those that all have go down, one at a time.
Collective(lk) ==
    /\ \A e \in Entities : ~Has(lk[DownLink(e)], InC) /\ ~Has(lk[UpLink(e)], OutC)
    /\ \A l \in Links : Once(lk[l], InC) /\ Once(lk[l], OutC)

\* A process's messages are about its call.
OfProcess(lk) ==
    \A r \in Ranks : /\ Only(lk[UpLink(r)], {InC, OutC, OwnC(r)})
                     /\ Only(lk[DownLink(r)], {InC, OutC, OwnC(r)})

\* What belongs to a request is at one place, and only while the process waits for it.
Requests(lk) ==
    \A r \in Ranks :
        /\ \A l \in Links : Has(lk[l], OwnC(r)) => asked[r] /\ ~InCall(r)
        /\ \A l \in Links : Once(lk[l], OwnC(r))
        /\ \A l, k \in Links : Has(lk[l], OwnC(r)) /\ Has(lk[k], OwnC(r)) => l = k

LinksInv == Collective(link) /\ OfProcess(link) /\ Requests(link)

PInv == Typed /\ LinksInv /\ Rounds

\* The two ends of a link.
LEMMA Ends2 ==
    /\ \A e \in Entities : UpLink(e) \in Links /\ DownLink(e) \in Links
    /\ \A e, d \in Entities : UpLink(e) # DownLink(d)
    /\ \A e, d \in Entities : UpLink(e) = UpLink(d) => e = d
    /\ \A e, d \in Entities : DownLink(e) = DownLink(d) => e = d
    /\ \A l \in Links : \E e \in Entities : l = UpLink(e) \/ l = DownLink(e)
<1>1. \A e \in Entities : UpLink(e) \in Links /\ DownLink(e) \in Links
  BY LinksAre DEF UpLink, DownLink
<1>2. \A l \in Links : \E e \in Entities : l = UpLink(e) \/ l = DownLink(e)
  BY LinksAre DEF UpLink, DownLink
<1>3. \A e, d \in Entities : UpLink(e) = UpLink(d) => e = d
  BY DEF UpLink
<1>4. \A e, d \in Entities : DownLink(e) = DownLink(d) => e = d
  BY DEF DownLink
<1>5. ASSUME NEW e \in Entities, NEW d \in Entities, UpLink(e) = DownLink(d) PROVE FALSE
  <2>1. e = Above(d) /\ d = Above(e)
    BY <1>5 DEF UpLink, DownLink
  <2>2. Above(e) \in Nodes /\ Above(d) \in Nodes
    BY Tree
  <2>3. e \in Nodes \ {0} /\ d \in Nodes \ {0}
    BY <2>1, <2>2, Tree DEF Entities
  <2>4. Above(e) < e /\ Above(d) < d /\ e \in Nat /\ d \in Nat
    BY <2>3, Tree
  <2> QED BY <2>1, <2>4
<1> QED BY <1>1, <1>2, <1>3, <1>4, <1>5

\* What a mpispawn that handles a message does to the links.
LEMMA Exchanged ==
    ASSUME NEW n \in Nodes, NEW s, NEW out, link \in [Links -> Seq(Messages)],
           <<s, n>> \in Links, link[<<s, n>>] # << >>, Exchange(n, s, out),
           \A d \in DOMAIN out : out[d] \in Messages
    PROVE  /\ link' \in [Links -> Seq(Messages)]
           /\ link'[<<s, n>>] = Tail(link[<<s, n>>])
           /\ \A d : <<n, d>> \in Links =>
                 link'[<<n, d>>] = IF d \in DOMAIN out THEN Append(link[<<n, d>>], out[d])
                                   ELSE link[<<n, d>>]
           /\ \A l \in Links : l # <<s, n>> /\ l[1] # n => link'[l] = link[l]
           /\ \A d : <<n, d>> \in Links => <<n, d>> # <<s, n>> /\ <<n, d>>[1] = n
           /\ \A l \in Links : l = <<l[1], l[2]>>
<1>1. \A l \in Links : l = <<l[1], l[2]>> /\ l[1] # l[2]
  <2> SUFFICES ASSUME NEW l \in Links PROVE l = <<l[1], l[2]>> /\ l[1] # l[2]
    OBVIOUS
  <2>1. PICK e \in Entities : l = <<e, Above(e)>> \/ l = <<Above(e), e>>
    BY LinksAre
  <2>2. Above(e) # e
    BY Tree
  <2> QED BY <2>1, <2>2
<1>2. \A d : <<n, d>> \in Links => <<n, d>> # <<s, n>> /\ <<n, d>>[1] = n
  BY <1>1
<1>3. \A l \in Links : link'[l] = IF l = <<s, n>> THEN Tail(link[l])
                ELSE IF l[1] = n /\ l[2] \in DOMAIN out THEN Append(link[l], out[l[2]])
                ELSE link[l]
  BY DEF Exchange
<1>4. link'[<<s, n>>] = Tail(link[<<s, n>>])
  BY <1>3
<1>5. \A d : <<n, d>> \in Links =>
                 link'[<<n, d>>] = IF d \in DOMAIN out THEN Append(link[<<n, d>>], out[d])
                                   ELSE link[<<n, d>>]
  BY <1>2, <1>3
<1>6. \A l \in Links : l # <<s, n>> /\ l[1] # n => link'[l] = link[l]
  BY <1>3
<1>7. link' \in [Links -> Seq(Messages)]
  <2>1. \A l \in Links : link'[l] \in Seq(Messages)
    <3> SUFFICES ASSUME NEW l \in Links PROVE link'[l] \in Seq(Messages)
      OBVIOUS
    <3>1. link[l] \in Seq(Messages)
      OBVIOUS
    <3>2. CASE l = <<s, n>>
      BY <1>3, <3>1, <3>2, TailClass
    <3>3. CASE l # <<s, n>> /\ l[1] = n /\ l[2] \in DOMAIN out
      <4>1. out[l[2]] \in Messages /\ link'[l] = Append(link[l], out[l[2]])
        BY <1>3, <3>3
      <4> QED BY <3>1, <4>1, AppendClass
    <3>4. CASE l # <<s, n>> /\ ~(l[1] = n /\ l[2] \in DOMAIN out)
      BY <1>3, <3>1, <3>4
    <3> QED BY <3>2, <3>3, <3>4
  <2>2. link' = [l \in Links |-> link'[l]]
    BY DEF Exchange
  <2> QED BY <2>1, <2>2
<1> QED BY <1>1, <1>2, <1>4, <1>5, <1>6, <1>7

\* p is q without a first message of class c0.
Gone(q, p, c0) ==
    /\ \A c : Has(q, c) <=> Has(p, c) \/ c0 = c
    /\ \A c : Once(q, c) => Once(p, c)
    /\ Once(q, c0) => ~Has(p, c0)
    /\ \A S : Only(q, S) => Only(p, S)

\* p is q with a further message of class c1.
Added(q, p, c1) ==
    /\ \A c : Has(p, c) <=> Has(q, c) \/ c1 = c
    /\ \A c : Once(q, c) /\ (c1 = c => ~Has(q, c)) => Once(p, c)
    /\ \A S : Only(q, S) /\ c1 \in S => Only(p, S)

\* The same, by classes.
LEMMA Changes ==
    ASSUME NEW n \in Nodes, NEW s, NEW out, link \in [Links -> Seq(Messages)],
           <<s, n>> \in Links, link[<<s, n>>] # << >>, Exchange(n, s, out),
           \A d \in DOMAIN out : out[d] \in Messages
    PROVE  /\ Gone(link[<<s, n>>], link'[<<s, n>>], Class(Head(link[<<s, n>>])))
           /\ \A d : <<n, d>> \in Links =>
                 /\ <<n, d>> # <<s, n>>
                 /\ d \in DOMAIN out => Added(link[<<n, d>>], link'[<<n, d>>], Class(out[d]))
                 /\ d \notin DOMAIN out => link'[<<n, d>>] = link[<<n, d>>]
           /\ \A l \in Links : \/ l = <<s, n>>
                               \/ \E d : l = <<n, d>>
                               \/ link'[l] = link[l]
<1>1. Gone(link[<<s, n>>], link'[<<s, n>>], Class(Head(link[<<s, n>>])))
  <2>1. link[<<s, n>>] \in Seq(Messages) /\ link'[<<s, n>>] = Tail(link[<<s, n>>])
    BY Exchanged
  <2> QED BY <2>1, TailClass DEF Gone
<1>2. ASSUME NEW d, <<n, d>> \in Links
      PROVE  /\ <<n, d>> # <<s, n>>
             /\ d \in DOMAIN out => Added(link[<<n, d>>], link'[<<n, d>>], Class(out[d]))
             /\ d \notin DOMAIN out => link'[<<n, d>>] = link[<<n, d>>]
  <2>1. /\ <<n, d>> # <<s, n>>
        /\ link'[<<n, d>>] = IF d \in DOMAIN out THEN Append(link[<<n, d>>], out[d])
                             ELSE link[<<n, d>>]
    BY <1>2, Exchanged
  <2>2. ASSUME d \in DOMAIN out PROVE Added(link[<<n, d>>], link'[<<n, d>>], Class(out[d]))
    <3>1. link[<<n, d>>] \in Seq(Messages) /\ out[d] \in Messages
      BY <1>2, <2>2
    <3>2. link'[<<n, d>>] = Append(link[<<n, d>>], out[d])
      BY <2>1, <2>2
    <3> QED BY <3>1, <3>2, AppendClass DEF Added
  <2> QED BY <2>1, <2>2
<1>3. \A l \in Links : l = <<s, n>> \/ (\E d : l = <<n, d>>) \/ link'[l] = link[l]
  <2> SUFFICES ASSUME NEW l \in Links, l # <<s, n>>, link'[l] # link[l]
               PROVE  \E d : l = <<n, d>>
    OBVIOUS
  <2>1. l[1] = n /\ l = <<l[1], l[2]>>
    BY Exchanged
  <2> QED BY <2>1
<1> QED BY <1>1, <1>2, <1>3

\* What goes out is bunches of keys, to other mpispawns, and at most one message about the
\* request that the class c0 is of, to x.
Quiet(out, c0, x) ==
    \A d \in DOMAIN out :
       /\ out[d] \in Messages
       /\ \/ Class(out[d]) = BunchC /\ d \notin Ranks
          \/ d = x /\ Class(out[d]) = c0 /\ (d \in Ranks => c0 = OwnC(d))

\* A step that is not about the collective calls keeps their messages where they are, and
\* what belongs to a request at one place.
LEMMA QuietExchange ==
    ASSUME NEW n \in Nodes, NEW s, NEW out, NEW x, link \in [Links -> Seq(Messages)],
           <<s, n>> \in Links, link[<<s, n>>] # << >>, Exchange(n, s, out),
           Class(Head(link[<<s, n>>])) \notin {InC, OutC},
           Quiet(out, Class(Head(link[<<s, n>>])), x),
           LinksInv, UNCHANGED <<script, pc, asked>>
    PROVE  link' \in [Links -> Seq(Messages)] /\ LinksInv' /\ Raised' = Raised /\ Released' = Released
<1> DEFINE c0 == Class(Head(link[<<s, n>>]))
<1>0. link' \in [Links -> Seq(Messages)] /\ \A d \in DOMAIN out : out[d] \in Messages
  <2>1. \A d \in DOMAIN out : out[d] \in Messages
    BY DEF Quiet
  <2> QED BY <2>1, Exchanged
<1>1. /\ Gone(link[<<s, n>>], link'[<<s, n>>], c0)
      /\ \A d : <<n, d>> \in Links =>
            /\ <<n, d>> # <<s, n>>
            /\ d \in DOMAIN out => Added(link[<<n, d>>], link'[<<n, d>>], Class(out[d]))
            /\ d \notin DOMAIN out => link'[<<n, d>>] = link[<<n, d>>]
      /\ \A l \in Links : l = <<s, n>> \/ (\E d : l = <<n, d>>) \/ link'[l] = link[l]
  BY <1>0, Changes
<1>2. c0 \notin {InC, OutC}
  OBVIOUS
<1>3. \A d \in DOMAIN out : (Class(out[d]) = BunchC /\ d \notin Ranks)
                            \/ (d = x /\ Class(out[d]) = c0 /\ (d \in Ranks => c0 = OwnC(d)))
  BY DEF Quiet
<1> HIDE DEF c0
<1> DEFINE Effect(l) ==
             \/ l = <<s, n>> /\ Gone(link[l], link'[l], c0)
             \/ link'[l] = link[l] /\ l # <<s, n>>
             \/ Added(link[l], link'[l], BunchC) /\ l # <<s, n>> /\ \A r \in Ranks : l # DownLink(r)
             \/ /\ l = <<n, x>> /\ Added(link[l], link'[l], c0) /\ l # <<s, n>>
                /\ \A r \in Ranks : l = DownLink(r) => c0 = OwnC(r)
<1>4. ASSUME NEW l \in Links PROVE Effect(l)
  <2>1. CASE l = <<s, n>>
    BY <1>1, <2>1
  <2>2. CASE l # <<s, n>> /\ link'[l] = link[l]
    BY <2>2
  <2>3. ASSUME l # <<s, n>>, NEW d, l = <<n, d>>, d \in DOMAIN out PROVE Effect(l)
    <3>1. Added(link[l], link'[l], Class(out[d]))
      BY <1>1, <2>3
    <3>2. \A r \in Ranks : l = DownLink(r) => d = r
      BY <2>3 DEF DownLink
    <3> QED BY <1>3, <2>3, <3>1, <3>2
  <2> QED BY <1>1, <2>1, <2>2, <2>3
<1>5. \A r : OwnC(r) \notin {InC, OutC, BunchC} /\ \A p : OwnC(r) = OwnC(p) => r = p
  BY ClassIs
<1>6. InC # OutC /\ InC # BunchC /\ OutC # BunchC
  BY ClassIs
<1>7. \A l \in Links : /\ Has(link'[l], InC) <=> Has(link[l], InC)
                       /\ Has(link'[l], OutC) <=> Has(link[l], OutC)
                       /\ Once(link[l], InC) => Once(link'[l], InC)
                       /\ Once(link[l], OutC) => Once(link'[l], OutC)
  BY <1>2, <1>4, <1>6 DEF Gone, Added
<1>8. Raised' = Raised /\ Released' = Released
  BY <1>7, Ends2 DEF Raised, Released
<1>9. Collective(link')
  BY <1>7, Ends2 DEF LinksInv, Collective
<1>10. OfProcess(link')
  <2> SUFFICES ASSUME NEW r \in Ranks, NEW l \in {UpLink(r), DownLink(r)}
               PROVE  Only(link'[l], {InC, OutC, OwnC(r)})
    BY DEF OfProcess
  <2>1. r \in Entities
    BY DEF Entities
  <2>2. l \in Links /\ Only(link[l], {InC, OutC, OwnC(r)})
    BY <2>1, Ends2 DEF LinksInv, OfProcess
  <2>3. l = DownLink(r) \/ \A d : l # <<n, d>>
    BY Tree DEF UpLink
  <2>4. l = DownLink(r) \/ (l = <<s, n>> /\ Gone(link[l], link'[l], c0)) \/ link'[l] = link[l]
    BY <1>1, <2>2, <2>3
  <2>5. (l = <<s, n>> /\ Gone(link[l], link'[l], c0)) \/ link'[l] = link[l]
        \/ (Added(link[l], link'[l], c0) /\ c0 = OwnC(r))
    BY <1>4, <2>2, <2>4
  <2> QED BY <2>2, <2>5 DEF Gone, Added
<1>11. Requests(link)'
  <2> SUFFICES ASSUME NEW r \in Ranks
               PROVE  /\ \A l \in Links : Has(link'[l], OwnC(r)) => asked[r] /\ ~InCall(r)
                      /\ \A l \in Links : Once(link'[l], OwnC(r))
                      /\ \A l, k \in Links : Has(link'[l], OwnC(r)) /\ Has(link'[k], OwnC(r)) => l = k
    BY DEF Requests, InCall
  <2>1. /\ \A l \in Links : Has(link[l], OwnC(r)) => asked[r] /\ ~InCall(r)
        /\ \A l \in Links : Once(link[l], OwnC(r))
        /\ \A l, k \in Links : Has(link[l], OwnC(r)) /\ Has(link[k], OwnC(r)) => l = k
    BY DEF LinksInv, Requests
  <2>2. CASE c0 # OwnC(r)
    <3>1. \A l \in Links : /\ Has(link'[l], OwnC(r)) <=> Has(link[l], OwnC(r))
                           /\ Once(link'[l], OwnC(r))
      BY <1>4, <1>5, <2>1, <2>2 DEF Gone, Added
    <3> QED BY <2>1, <3>1
  <2>3. CASE c0 = OwnC(r)
    <3>1. Has(link[<<s, n>>], OwnC(r)) /\ ~Has(link'[<<s, n>>], OwnC(r))
      BY <1>1, <2>1, <2>3 DEF Gone
    <3>2. \A l \in Links : l # <<s, n>> => ~Has(link[l], OwnC(r))
      BY <2>1, <3>1
    <3>3. \A l \in Links : Has(link'[l], OwnC(r)) => l = <<n, x>>
      BY <1>4, <1>5, <2>3, <3>1, <3>2 DEF Added
    <3>4. \A l \in Links : Once(link'[l], OwnC(r))
      BY <1>4, <2>1, <3>2 DEF Gone, Added
    <3> QED BY <2>1, <3>1, <3>3, <3>4
  <2> QED BY <2>2, <2>3
<1>12. LinksInv'
  BY <1>9, <1>10, <1>11 DEF LinksInv, Collective, OfProcess
<1> QED BY <1>0, <1>8, <1>12

\* A message goes out on link l.
SentOn(n, out, l) == \E d \in DOMAIN out : l = <<n, d>>

\* A step about a collective call: one message is read, of those that enter it or tell that all
\* have, and messages of one of these classes go up or down.
LEMMA CollectiveExchange ==
    ASSUME NEW n \in Nodes, NEW s, NEW out, NEW c1 \in {InC, OutC},
           link \in [Links -> Seq(Messages)],
           <<s, n>> \in Links, link[<<s, n>>] # << >>, Exchange(n, s, out),
           Class(Head(link[<<s, n>>])) \in {InC, OutC},
           \A d \in DOMAIN out :
              /\ out[d] \in Messages /\ Class(out[d]) = c1 /\ ~Has(link[<<n, d>>], c1)
              /\ \/ c1 = InC /\ n # 0 /\ d = Above(n)
                 \/ c1 = OutC /\ d \in Ents(n),
           LinksInv, UNCHANGED <<script, pc, asked>>
    PROVE  /\ link' \in [Links -> Seq(Messages)] /\ LinksInv'
           /\ \A l \in Links : \A c :
                 Has(link'[l], c) <=>
                    \/ Has(link[l], c) /\ ~(l = <<s, n>> /\ c = Class(Head(link[<<s, n>>])))
                    \/ c = c1 /\ SentOn(n, out, l)
<1> DEFINE c0 == Class(Head(link[<<s, n>>]))
<1>0. link' \in [Links -> Seq(Messages)]
  BY Exchanged
<1>1. /\ Gone(link[<<s, n>>], link'[<<s, n>>], c0)
      /\ \A d : <<n, d>> \in Links =>
            /\ <<n, d>> # <<s, n>>
            /\ d \in DOMAIN out => Added(link[<<n, d>>], link'[<<n, d>>], Class(out[d]))
            /\ d \notin DOMAIN out => link'[<<n, d>>] = link[<<n, d>>]
      /\ \A l \in Links : l = <<s, n>> \/ (\E d : l = <<n, d>>) \/ link'[l] = link[l]
  BY Changes
<1>2. c0 \in {InC, OutC}
  OBVIOUS
<1>3. \A d \in DOMAIN out : Class(out[d]) = c1 /\ ~Has(link[<<n, d>>], c1)
  OBVIOUS
<1> HIDE DEF c0
<1> DEFINE Sent(l) == SentOn(n, out, l)
           Effect(l) ==
             \/ l = <<s, n>> /\ Gone(link[l], link'[l], c0) /\ ~Sent(l)
             \/ link'[l] = link[l] /\ l # <<s, n>> /\ ~Sent(l)
             \/ Added(link[l], link'[l], c1) /\ l # <<s, n>> /\ Sent(l) /\ ~Has(link[l], c1)
<1>4. ASSUME NEW l \in Links PROVE Effect(l)
  <2>1. CASE l = <<s, n>>
    BY <1>1, <2>1 DEF SentOn
  <2>2. ASSUME l # <<s, n>>, NEW d, l = <<n, d>>, d \in DOMAIN out PROVE Effect(l)
    BY <1>1, <1>3, <2>2 DEF SentOn
  <2>3. ASSUME l # <<s, n>>, ~Sent(l) PROVE Effect(l)
    BY <1>1, <2>3 DEF SentOn
  <2> QED BY <2>1, <2>2, <2>3 DEF SentOn
<1> HIDE DEF Sent
<1>5. \A l \in Links : Once(link[l], InC) /\ Once(link[l], OutC)
  BY DEF LinksInv, Collective
<1>6. \A l \in Links : \A c :
         Has(link'[l], c) <=> (Has(link[l], c) /\ ~(l = <<s, n>> /\ c = c0)) \/ (c = c1 /\ Sent(l))
  <2> SUFFICES ASSUME NEW l \in Links, NEW c
               PROVE  Has(link'[l], c) <=>
                         (Has(link[l], c) /\ ~(l = <<s, n>> /\ c = c0)) \/ (c = c1 /\ Sent(l))
    OBVIOUS
  <2>1. CASE l = <<s, n>>
    BY <1>2, <1>4, <1>5, <2>1 DEF Gone
  <2>2. CASE l # <<s, n>>
    BY <1>4, <2>2 DEF Added
  <2> QED BY <2>1, <2>2
<1>7. \A r : OwnC(r) \notin {InC, OutC}
  BY ClassIs
<1>8. \A l \in Links : \A c : Once(link[l], c) => Once(link'[l], c)
  BY <1>4 DEF Gone, Added
<1>9. Collective(link')
  <2>1. ASSUME NEW e \in Entities PROVE ~Has(link'[DownLink(e)], InC)
    <3>1. DownLink(e) \in Links /\ ~Has(link[DownLink(e)], InC)
      BY Ends2 DEF LinksInv, Collective
    <3>2. ASSUME c1 = InC, Sent(DownLink(e)) PROVE FALSE
      <4>1. n # 0 /\ DownLink(e) = <<n, Above(n)>>
        BY <3>2, ClassIs DEF Sent, SentOn
      <4>2. n \in Entities
        BY <4>1 DEF Entities
      <4> QED BY <4>1, <4>2, Ends2 DEF UpLink
    <3> QED BY <1>6, <3>1, <3>2
  <2>2. ASSUME NEW e \in Entities PROVE ~Has(link'[UpLink(e)], OutC)
    <3>1. UpLink(e) \in Links /\ ~Has(link[UpLink(e)], OutC)
      BY Ends2 DEF LinksInv, Collective
    <3>2. ASSUME c1 = OutC, Sent(UpLink(e)) PROVE FALSE
      <4>1. PICK d \in Ents(n) : UpLink(e) = <<n, d>>
        BY <3>2, ClassIs DEF Sent, SentOn
      <4>2. d \in Entities /\ Above(d) = n
        BY EntsIs
      <4> QED BY <4>1, <4>2, Ends2 DEF DownLink
    <3> QED BY <1>6, <3>1, <3>2
  <2> QED BY <1>5, <1>8, <2>1, <2>2 DEF Collective
<1>10. OfProcess(link')
  <2> SUFFICES ASSUME NEW r \in Ranks, NEW l \in {UpLink(r), DownLink(r)}
               PROVE  Only(link'[l], {InC, OutC, OwnC(r)})
    BY DEF OfProcess
  <2>1. r \in Entities
    BY DEF Entities
  <2>2. l \in Links /\ Only(link[l], {InC, OutC, OwnC(r)})
    BY <2>1, Ends2 DEF LinksInv, OfProcess
  <2> QED BY <1>4, <2>2 DEF Gone, Added
<1>11. Requests(link)'
  BY <1>2, <1>6, <1>7, <1>8 DEF LinksInv, Requests, InCall
<1>12. LinksInv'
  BY <1>9, <1>10, <1>11 DEF LinksInv, Collective, OfProcess
<1> QED BY <1>0, <1>6, <1>12 DEF c0, Sent

\* Who has read what from whom.
LEMMA Sources ==
    ASSUME LinksInv, link \in [Links -> Seq(Messages)], NEW n \in Nodes, NEW s,
           <<s, n>> \in Links, link[<<s, n>>] # << >>
    PROVE  /\ Class(Head(link[<<s, n>>])) = InC =>
                 s \in Entities /\ Above(s) = n /\ s \in Raised /\ <<s, n>> = UpLink(s)
           /\ Class(Head(link[<<s, n>>])) = OutC =>
                 n \in Nodes \ {0} /\ n \in Released /\ <<s, n>> = DownLink(n)
<1>1. Has(link[<<s, n>>], Class(Head(link[<<s, n>>])))
  BY TailClass
<1>2. PICK e \in Entities : <<s, n>> = UpLink(e) \/ <<s, n>> = DownLink(e)
  BY Ends2
<1>3. ASSUME Class(Head(link[<<s, n>>])) = InC
      PROVE  s \in Entities /\ Above(s) = n /\ s \in Raised /\ <<s, n>> = UpLink(s)
  <2>1. <<s, n>> = UpLink(e)
    BY <1>1, <1>2, <1>3 DEF LinksInv, Collective
  <2>2. s = e /\ Above(e) = n
    BY <2>1 DEF UpLink
  <2> QED BY <1>1, <1>3, <2>1, <2>2 DEF Raised
<1>4. ASSUME Class(Head(link[<<s, n>>])) = OutC
      PROVE  n \in Nodes \ {0} /\ n \in Released /\ <<s, n>> = DownLink(n)
  <2>1. <<s, n>> = DownLink(e)
    BY <1>1, <1>2, <1>4 DEF LinksInv, Collective
  <2>2. n = e
    BY <2>1 DEF DownLink
  <2>3. n \in Nodes \ {0}
    BY <2>2, Tree DEF Entities
  <2> QED BY <1>1, <1>4, <2>1, <2>2, <2>3 DEF Released
<1> QED BY <1>3, <1>4

\* A message about a collective call is a message.
LEMMA CollectiveMsg ==
    ASSUME NEW cmd \in Collectives \cup Outs, NEW k \in AllKeys, NEW r \in Ranks
    PROVE  /\ Msg(cmd, k, r) \in Messages
           /\ cmd \in Collectives => Class(Msg(cmd, k, r)) = InC
           /\ cmd \in Outs => Class(Msg(cmd, k, r)) = OutC
<1>1. Msg(cmd, k, r) \in Messages /\ Msg(cmd, k, r).cmd = cmd
  BY DEF Msg, Messages
<1> QED BY <1>1, ClassIs

\* An mpispawn reads that one more has entered.
LEMMA EnterKeeps ==
    ASSUME Typed, LinksInv, Rounds, NEW n \in Nodes, NEW s, NEW answer \in Outs,
           <<s, n>> \in Links, link[<<s, n>>] # << >>,
           Class(Head(link[<<s, n>>])) = InC,
           Enter(n, s, Head(link[<<s, n>>]), answer),
           UNCHANGED <<script, pc, asked, puts, reqs>>
    PROVE  PInv'
<1> DEFINE m == Head(link[<<s, n>>])
<1>0. PICK R : RoundsOf(R, Raised, Released, Callers, Done, barrier)
  BY DEF Rounds
<1>1. link \in [Links -> Seq(Messages)] /\ barrier \in [Nodes -> Nat]
  BY DEF Typed
<1>2. m \in Messages /\ m.rank \in Ranks
  <2>1. m \in Messages
    BY <1>1, TailClass
  <2> QED BY <2>1, ClassIs
<1>3. s \in Entities /\ Above(s) = n /\ s \in Raised /\ <<s, n>> = UpLink(s)
  BY <1>1, Sources
<1>4. \A c : All_in(n, c) <=> c = Cardinality(Ents(n))
  BY EntsCount
<1>5. Callers' = Callers /\ Done' = Done
  BY DEF Callers, InCall, Done
<1>6. /\ s \in Ents(n) /\ s \in Entering(Callers, barrier) /\ s \notin Released
      /\ n \notin Entering(Callers, barrier)
      /\ Cardinality(Counted(Raised, Released, Callers, barrier, n) \cup {s}) = barrier[n] + 1
      /\ barrier[n] + 1 = Cardinality(Ents(n)) =>
            \A e \in Ents(n) : e = s \/ e \in Counted(Raised, Released, Callers, barrier, n)
  BY <1>0, <1>3, OneMore
<1>7. Class(m) = InC
  OBVIOUS
<1>8. \A e, d \in Entities : UpLink(e) # DownLink(d) /\ (UpLink(e) = UpLink(d) => e = d)
  BY Ends2
<1>9. \A e \in Entities : UpLink(e) \in Links /\ DownLink(e) \in Links
  BY Ends2
<1> HIDE DEF m
<1>10. CASE ~All_in(n, barrier[n] + 1)
  <2>1. Exchange(n, s, Nothing) /\ barrier' = [barrier EXCEPT ![n] = @ + 1]
    BY <1>10 DEF Enter, m
  <2>2. DOMAIN Nothing = {}
    BY DEF Nothing
  <2>3. /\ link' \in [Links -> Seq(Messages)] /\ LinksInv'
        /\ \A l \in Links : \A c : Has(link'[l], c) <=> Has(link[l], c) /\ ~(l = <<s, n>> /\ c = InC)
    <3>1. /\ link' \in [Links -> Seq(Messages)] /\ LinksInv'
          /\ \A l \in Links : \A c :
                 Has(link'[l], c) <=>
                    \/ Has(link[l], c) /\ ~(l = <<s, n>> /\ c = Class(Head(link[<<s, n>>])))
                    \/ c = InC /\ SentOn(n, Nothing, l)
      BY <1>1, <2>1, <2>2, CollectiveExchange
    <3> QED BY <2>2, <3>1 DEF SentOn
  <2>4. Raised' = Raised \ {s} /\ Released' = Released
    BY <1>3, <1>8, <1>9, <2>3, ClassIs DEF Raised, Released
  <2>5. RoundsOf(R, Raised \ {s}, Released, Callers, Done, [barrier EXCEPT ![n] = @ + 1])
    BY <1>0, <1>3, <1>4, <1>10, CountRound
  <2>6. Rounds'
    BY <1>5, <2>1, <2>4, <2>5 DEF Rounds
  <2>7. Typed'
    BY <2>1, <2>3 DEF Typed
  <2> QED BY <2>3, <2>6, <2>7 DEF PInv
<1>11. CASE All_in(n, barrier[n] + 1) /\ n # 0
  <2>1. Exchange(n, s, To(Parent(n), m)) /\ barrier' = [barrier EXCEPT ![n] = @ + 1]
    BY <1>11 DEF Enter, HasParent, m
  <2>2. DOMAIN To(Parent(n), m) = {Above(n)} /\ To(Parent(n), m)[Above(n)] = m
    <3>1. Above(n) = Parent(n)
      BY <1>11, Tree
    <3> QED BY <3>1 DEF To
  <2>3. n \in Entities /\ n \notin Raised
    <3>1. Raised \subseteq Entering(Callers, barrier)
      BY <1>0 DEF RoundsOf
    <3> QED BY <1>6, <1>11, <3>1 DEF Entities
  <2>4. UpLink(n) = <<n, Above(n)>> /\ ~Has(link[<<n, Above(n)>>], InC)
    BY <2>3 DEF Raised, UpLink
  <2> DEFINE out == To(Parent(n), m)
  <2>5. \A d \in DOMAIN out : /\ out[d] \in Messages /\ Class(out[d]) = InC /\ ~Has(link[<<n, d>>], InC)
                              /\ n # 0 /\ d = Above(n)
    BY <1>2, <1>7, <1>11, <2>2, <2>4
  <2>6. Exchange(n, s, out)
    BY <2>1
  <2> HIDE DEF out
  <2>7. /\ link' \in [Links -> Seq(Messages)] /\ LinksInv'
        /\ \A l \in Links : \A c :
               Has(link'[l], c) <=>
                  \/ Has(link[l], c) /\ ~(l = <<s, n>> /\ c = Class(Head(link[<<s, n>>])))
                  \/ c = InC /\ SentOn(n, out, l)
    BY <1>1, <2>5, <2>6, CollectiveExchange
  <2>8. \A l \in Links : \A c : Has(link'[l], c) <=> \/ Has(link[l], c) /\ ~(l = UpLink(s) /\ c = InC)
                                                     \/ c = InC /\ l = UpLink(n)
    BY <1>3, <2>2, <2>4, <2>7 DEF out, SentOn
  <2>9. Raised' = (Raised \ {s}) \cup {n} /\ Released' = Released
    <3>1. n # s
      BY <1>3, <2>3
    <3>2. \A e \in Entities : Has(link'[UpLink(e)], InC) <=>
                                  (Has(link[UpLink(e)], InC) /\ e # s) \/ e = n
      BY <1>3, <1>8, <1>9, <2>3, <2>8
    <3>3. \A e \in Entities : Has(link'[DownLink(e)], OutC) <=> Has(link[DownLink(e)], OutC)
      BY <1>9, <2>8, ClassIs
    <3> QED BY <2>3, <3>1, <3>2, <3>3 DEF Raised, Released
  <2>10. RoundsOf(R, (Raised \ {s}) \cup {n}, Released, Callers, Done, [barrier EXCEPT ![n] = @ + 1])
    BY <1>0, <1>3, <1>4, <1>11, UpRound
  <2>11. Rounds'
    BY <1>5, <2>1, <2>9, <2>10 DEF Rounds
  <2>12. Typed'
    BY <2>1, <2>7 DEF Typed
  <2> QED BY <2>7, <2>11, <2>12 DEF PInv
<1>12. CASE All_in(n, barrier[n] + 1) /\ n = 0
  <2> DEFINE out == ToAll(Children(n) \cup Locals(n), Msg(answer, "none", m.rank))
  <2>1. Exchange(n, s, out) /\ barrier' = [barrier EXCEPT ![n] = 0]
    BY <1>12 DEF Enter, HasParent, m
  <2>2. DOMAIN out = Ents(0) /\ \A d \in Ents(0) : out[d] = Msg(answer, "none", m.rank)
    BY <1>12 DEF ToAll, Ents
  <2>3. Msg(answer, "none", m.rank) \in Messages /\ Class(Msg(answer, "none", m.rank)) = OutC
    BY <1>2, CollectiveMsg DEF AllKeys
  <2> HIDE DEF out
  <2>4. barrier[0] + 1 = Cardinality(Ents(0)) /\ Above(s) = 0
    BY <1>3, <1>4, <1>12
  <2>5. ASSUME NEW d \in Ents(0)
        PROVE  ~Has(link[<<n, d>>], OutC) /\ d \in Entities /\ DownLink(d) = <<n, d>>
    <3>1. d \notin Released
      BY <1>6, <1>12, <2>4, <2>5 DEF Counted
    <3>2. d \in Entities /\ Above(d) = n
      BY <1>12, <2>5, EntsIs
    <3> QED BY <3>1, <3>2 DEF Released, DownLink
  <2>6. \A d \in DOMAIN out : /\ out[d] \in Messages /\ Class(out[d]) = OutC /\ ~Has(link[<<n, d>>], OutC)
                              /\ d \in Ents(n)
    BY <1>12, <2>2, <2>3, <2>5
  <2>7. /\ link' \in [Links -> Seq(Messages)] /\ LinksInv'
        /\ \A l \in Links : \A c :
               Has(link'[l], c) <=>
                  \/ Has(link[l], c) /\ ~(l = <<s, n>> /\ c = Class(Head(link[<<s, n>>])))
                  \/ c = OutC /\ SentOn(n, out, l)
    <3>1. Exchange(n, s, out)
      BY <2>1
    <3> QED BY <1>1, <2>6, <3>1, CollectiveExchange
  <2>8. \A l \in Links : \A c : Has(link'[l], c) <=> \/ Has(link[l], c) /\ ~(l = UpLink(s) /\ c = InC)
                                                     \/ c = OutC /\ SentOn(n, out, l)
    BY <1>3, <1>7, <2>7 DEF m
  <2>9. Raised' = Raised \ {s}
    BY <1>3, <1>8, <1>9, <2>8, ClassIs DEF Raised
  <2>10. Released' = Released \cup Ents(0)
    <3>1. \A e, d \in Entities : DownLink(e) = DownLink(d) => e = d
      BY Ends2
    <3>2. Ents(0) \subseteq Entities
      BY <2>5
    <3>3. ASSUME NEW e \in Entities PROVE e \in Released' <=> e \in Released \/ e \in Ents(0)
      <4>1. SentOn(n, out, DownLink(e)) <=> e \in Ents(0)
        BY <2>2, <2>5, <3>1, <3>2, <3>3 DEF SentOn
      <4>2. Has(link'[DownLink(e)], OutC) <=> Has(link[DownLink(e)], OutC) \/ SentOn(n, out, DownLink(e))
        BY <1>3, <1>8, <1>9, <2>8, <3>3, ClassIs
      <4> QED BY <3>3, <4>1, <4>2 DEF Released
    <3>4. Released' \subseteq Entities /\ Released \subseteq Entities
      BY DEF Released
    <3> QED BY <3>2, <3>3, <3>4
  <2>11. RoundsOf([R EXCEPT ![0] = @ + 1], Raised \ {s}, Released \cup Ents(0), Callers, Done,
                  [barrier EXCEPT ![0] = 0])
    BY <1>0, <1>3, <2>4, RootRound
  <2>12. Rounds'
    BY <1>5, <1>12, <2>1, <2>9, <2>10, <2>11 DEF Rounds
  <2>13. Typed'
    BY <2>1, <2>7 DEF Typed
  <2> QED BY <2>7, <2>12, <2>13 DEF PInv
<1> QED BY <1>10, <1>11, <1>12

\* An mpispawn reads that all have entered.
LEMMA ReleaseKeeps ==
    ASSUME Typed, LinksInv, Rounds, NEW n \in Nodes, NEW s,
           <<s, n>> \in Links, link[<<s, n>>] # << >>,
           Class(Head(link[<<s, n>>])) = OutC,
           Exchange(n, s, ToAll(Children(n) \cup Locals(n), Head(link[<<s, n>>]))),
           barrier' = [barrier EXCEPT ![n] = 0],
           UNCHANGED <<script, pc, asked, puts, reqs>>
    PROVE  PInv'
<1> DEFINE m == Head(link[<<s, n>>])
           out == ToAll(Children(n) \cup Locals(n), m)
<1>0. PICK R : RoundsOf(R, Raised, Released, Callers, Done, barrier)
  BY DEF Rounds
<1>1. link \in [Links -> Seq(Messages)] /\ barrier \in [Nodes -> Nat]
  BY DEF Typed
<1>2. m \in Messages /\ Class(m) = OutC
  BY <1>1, TailClass
<1>3. n \in Nodes \ {0} /\ n \in Released /\ <<s, n>> = DownLink(n)
  BY <1>1, Sources
<1>4. Callers' = Callers /\ Done' = Done
  BY DEF Callers, InCall, Done
<1>5. Ents(n) \cap Released = {}
  <2>1. n \in Entering(Callers, barrier)
    BY <1>0, <1>3 DEF RoundsOf
  <2> QED BY <1>0, <1>3, <2>1, AllBelow
<1>6. /\ \A e, d \in Entities : UpLink(e) # DownLink(d) /\ (DownLink(e) = DownLink(d) => e = d)
      /\ \A e \in Entities : UpLink(e) \in Links /\ DownLink(e) \in Links
  BY Ends2
<1>7. DOMAIN out = Ents(n) /\ \A d \in Ents(n) : out[d] = m
  BY DEF ToAll, Ents
<1>8. Exchange(n, s, out)
  OBVIOUS
<1> HIDE DEF m, out
<1>9. ASSUME NEW d \in Ents(n)
      PROVE  ~Has(link[<<n, d>>], OutC) /\ d \in Entities /\ DownLink(d) = <<n, d>>
  <2>1. d \in Entities /\ Above(d) = n
    BY <1>9, EntsIs
  <2> QED BY <1>5, <1>9, <2>1 DEF Released, DownLink
<1>10. \A d \in DOMAIN out : /\ out[d] \in Messages /\ Class(out[d]) = OutC /\ ~Has(link[<<n, d>>], OutC)
                             /\ d \in Ents(n)
  BY <1>2, <1>7, <1>9
<1>11. /\ link' \in [Links -> Seq(Messages)] /\ LinksInv'
       /\ \A l \in Links : \A c :
              Has(link'[l], c) <=>
                 \/ Has(link[l], c) /\ ~(l = <<s, n>> /\ c = Class(Head(link[<<s, n>>])))
                 \/ c = OutC /\ SentOn(n, out, l)
  BY <1>1, <1>8, <1>10, CollectiveExchange
<1>12. \A l \in Links : \A c : Has(link'[l], c) <=> \/ Has(link[l], c) /\ ~(l = DownLink(n) /\ c = OutC)
                                                    \/ c = OutC /\ \E d \in Ents(n) : l = DownLink(d)
  BY <1>3, <1>7, <1>9, <1>11 DEF SentOn
<1>13. Raised' = Raised
  BY <1>6, <1>12, ClassIs DEF Raised
<1>14. n \in Entities /\ n \notin Ents(n)
  <2>1. n \in Entities
    BY <1>3 DEF Entities
  <2>2. Above(n) # n
    BY <2>1, Tree
  <2> QED BY <2>1, <2>2, EntsIs
<1>15. Released' = (Released \ {n}) \cup Ents(n)
  <2>1. Ents(n) \subseteq Entities
    BY <1>9
  <2>2. ASSUME NEW e \in Entities PROVE e \in Released' <=> e \in (Released \ {n}) \cup Ents(n)
    <3>1. Has(link'[DownLink(e)], OutC) <=> (Has(link[DownLink(e)], OutC) /\ e # n) \/ e \in Ents(n)
      BY <1>6, <1>12, <1>14, <2>1, <2>2
    <3> QED BY <2>2, <3>1 DEF Released
  <2>3. Released' \subseteq Entities /\ Released \subseteq Entities
    BY DEF Released
  <2> QED BY <2>1, <2>2, <2>3
<1>16. RoundsOf([R EXCEPT ![n] = @ + 1], Raised, (Released \ {n}) \cup Ents(n), Callers, Done,
                [barrier EXCEPT ![n] = 0])
  BY <1>0, <1>3, DownRound
<1>17. Rounds'
  BY <1>4, <1>13, <1>15, <1>16 DEF Rounds
<1>18. Typed'
  BY <1>1, <1>11 DEF Typed
<1> QED BY <1>11, <1>17, <1>18 DEF PInv

-----------------------------------------------------------------------------
(* The steps of an mpispawn. *)

\* What belongs to a request of r.
LEMMA OwnMsg ==
    ASSUME NEW cmd \in OwnCommands, NEW k \in AllKeys, NEW r \in Ranks
    PROVE  /\ Msg(cmd, k, r) \in Messages /\ Class(Msg(cmd, k, r)) = OwnC(r)
           /\ Bare(cmd, r) \in Messages /\ Class(Bare(cmd, r)) = OwnC(r)
<1>1. \A m : m.cmd \in OwnCommands => Class(m) = OwnC(m.rank)
  BY DEF Class, OwnCommands, Collectives, Outs
<1>2. Msg(cmd, k, r) \in Messages /\ Msg(cmd, k, r).cmd = cmd /\ Msg(cmd, k, r).rank = r
  BY DEF Msg, Messages
<1>3. Bare(cmd, r) \in Messages /\ Bare(cmd, r).cmd = cmd /\ Bare(cmd, r).rank = r
  BY DEF Bare, Messages, AllKeys
<1> QED BY <1>1, <1>2, <1>3

\* A bunch of keys goes to other mpispawns only.
LEMMA FlushedIs ==
    ASSUME NEW q \in Seq(AllKeys), NEW n \in Nodes
    PROVE  \A d \in DOMAIN Flushed(q, n) : /\ Flushed(q, n)[d] \in Messages
                                           /\ Class(Flushed(q, n)[d]) = BunchC /\ d \notin Ranks
<1>1. Bunch(q) \in Messages /\ Class(Bunch(q)) = BunchC
  <2>1. Bunch(q) \in Messages /\ Bunch(q).cmd = "bputs"
    BY DEF Bunch, Messages
  <2> QED BY <2>1, ClassIs
<1>2. Children(n) \cap Ranks = {}
  BY PmiAssumption DEF Children
<1>3. HasParent(n) => Parent(n) \notin Ranks
  BY Tree, PmiAssumption DEF HasParent, Entities
<1> HIDE DEF Bunch
<1>4. DOMAIN Nothing = {}
  BY DEF Nothing
<1> QED BY <1>1, <1>2, <1>3, <1>4 DEF Flushed, To, ToAll

\* What one of several messages is.
LEMMA AndIs ==
    ASSUME NEW f, NEW g
    PROVE  \A d \in DOMAIN And(f, g) : \/ d \in DOMAIN f /\ And(f, g)[d] = f[d]
                                       \/ d \in DOMAIN g /\ And(f, g)[d] = g[d]
BY DEF And

\* What an mpispawn reads from a process is about that process.
LEMMA ReadsOwn ==
    ASSUME Typed, LinksInv, NEW n \in Nodes, NEW s, <<s, n>> \in Links, link[<<s, n>>] # << >>
    PROVE  /\ Head(link[<<s, n>>]) \in Messages
           /\ s \in Ranks /\ Class(Head(link[<<s, n>>])) \notin {InC, OutC}
                 => Class(Head(link[<<s, n>>])) = OwnC(s)
<1>1. link[<<s, n>>] \in Seq(Messages)
  BY DEF Typed
<1>2. ASSUME s \in Ranks PROVE Class(Head(link[<<s, n>>])) \in {InC, OutC, OwnC(s)}
  <2>1. PICK e \in Entities : <<s, n>> = UpLink(e) \/ <<s, n>> = DownLink(e)
    BY Ends2
  <2>2. <<s, n>> = UpLink(s)
    <3>1. <<s, n>> # DownLink(e)
      BY <1>2, Tree, PmiAssumption DEF DownLink
    <3> QED BY <2>1, <3>1 DEF UpLink
  <2> QED BY <1>1, <1>2, <2>2, TailClass DEF LinksInv, OfProcess
<1> QED BY <1>1, <1>2, TailClass

\* A step that is not about the collective calls keeps the invariant.
LEMMA OtherMessagesKeep ==
    ASSUME PInv, NEW n \in Nodes, NEW s, NEW out, NEW x,
           <<s, n>> \in Links, link[<<s, n>>] # << >>, Exchange(n, s, out),
           Class(Head(link[<<s, n>>])) \notin {InC, OutC},
           Quiet(out, Class(Head(link[<<s, n>>])), x),
           UNCHANGED <<script, pc, asked, barrier>>,
           puts' \in [Nodes -> Seq(AllKeys)],
           reqs' \in [Nodes -> SUBSET (Ranks \X (Ranks \cup Nodes))],
           \A k \in Nodes : \A p \in reqs'[k] : p[2] \in Ranks => p[2] = p[1]
    PROVE  PInv'
<1>1. Typed /\ LinksInv /\ Rounds
  BY DEF PInv
<1>2. link' \in [Links -> Seq(Messages)] /\ LinksInv' /\ Raised' = Raised /\ Released' = Released
  <2>1. link \in [Links -> Seq(Messages)]
    BY <1>1 DEF Typed
  <2>2. UNCHANGED <<script, pc, asked>>
    OBVIOUS
  <2> QED BY <1>1, <2>1, <2>2, QuietExchange
<1>3. Callers' = Callers /\ Done' = Done
  BY DEF Callers, InCall, Done
<1>4. Rounds'
  BY <1>1, <1>2, <1>3 DEF Rounds
<1>5. Typed'
  BY <1>1, <1>2 DEF Typed
<1> QED BY <1>2, <1>4, <1>5 DEF PInv

\* What an mpispawn reads.
LEMMA Kinds ==
    ASSUME NEW m \in Messages
    PROVE  /\ m.cmd \in Collectives => Class(m) = InC
           /\ m.cmd \in Outs => Class(m) = OutC
           /\ m.cmd = "bputs" => Class(m) = BunchC /\ m.key \in Seq(AllKeys)
           /\ m.cmd \in OwnCommands =>
                 Class(m) = OwnC(m.rank) /\ m.rank \in Ranks /\ m.key \in AllKeys
           /\ Class(m) \in {InC, OutC} => m.header = TRUE
<1>1. /\ m.cmd \in Collectives => Class(m) = InC
      /\ m.cmd \in Outs => Class(m) = OutC
      /\ m.cmd = "bputs" => Class(m) = BunchC
      /\ Class(m) \in {InC, OutC} => m.header = TRUE
  BY ClassIs
<1>2. m.cmd = "bputs" => m.key \in Seq(AllKeys)
  BY DEF Messages, Collectives, Outs, OwnCommands
<1>3. m.cmd \in OwnCommands => m.rank \in Ranks /\ m.key \in AllKeys
  BY DEF Messages, Collectives, Outs, OwnCommands
<1>4. m.cmd \in OwnCommands => Class(m) = OwnC(m.rank)
  BY DEF Class, OwnCommands, Collectives, Outs
<1> QED BY <1>1, <1>2, <1>3, <1>4

\* Keys are put at a node or come in a bunch.
LEMMA PutsKeep ==
    ASSUME PInv, NEW n \in Nodes, NEW s, NEW m, <<s, n>> \in Links, link[<<s, n>>] # << >>,
           m = Head(link[<<s, n>>]),
           Put(n, s, m) \/ (Bputs(n, s, m) /\ s \notin Ranks), UNCHANGED <<script, pc, asked>>
    PROVE  PInv'
<1>1. Typed /\ LinksInv
  BY DEF PInv
<1>2. m \in Messages /\ (s \in Ranks /\ Class(m) \notin {InC, OutC} => Class(m) = OwnC(s))
  BY <1>1, ReadsOwn
<1>3. puts \in [Nodes -> Seq(AllKeys)] /\ puts[n] \in Seq(AllKeys)
  BY <1>1 DEF Typed
<1>4. UNCHANGED <<barrier, reqs>>
  BY DEF Put, Bputs
<1>5. /\ reqs' \in [Nodes -> SUBSET (Ranks \X (Ranks \cup Nodes))]
      /\ \A k \in Nodes : \A p \in reqs'[k] : p[2] \in Ranks => p[2] = p[1]
  BY <1>1, <1>4 DEF Typed
<1>6. \A r : OwnC(r) \notin {InC, OutC} /\ BunchC \notin {InC, OutC}
  BY ClassIs
<1>7. CASE Put(n, s, m)
  <2>1. m.cmd = "put"
    BY <1>7 DEF Put
  <2>2. Class(m) = OwnC(m.rank) /\ m.rank \in Ranks /\ m.key \in AllKeys
    BY <1>2, <2>1, Kinds DEF OwnCommands
  <2>3. PICK q : q = <<m.key>> \o puts[n]
    OBVIOUS
  <2>4. q \in Seq(AllKeys)
    BY <1>3, <2>2, <2>3
  <2>5. PICK a : a = Msg("put_result", "ok", m.rank)
    OBVIOUS
  <2>6. a \in Messages /\ Class(a) = Class(m)
    BY <2>2, <2>5, OwnMsg DEF OwnCommands, AllKeys
  <2>7. PICK f : f = Flushed(q, n)
    OBVIOUS
  <2>8. \A d \in DOMAIN f : f[d] \in Messages /\ Class(f[d]) = BunchC /\ d \notin Ranks
    BY <2>4, <2>7, FlushedIs
  <2>9. PICK g : g = To(s, a)
    OBVIOUS
  <2>10. DOMAIN g = {s} /\ g[s] = a
    BY <2>9 DEF To
  <2>11. Exchange(n, s, And(f, g))
    BY <1>7, <2>3, <2>5, <2>7, <2>9 DEF Put
  <2>12. s \in Ranks => Class(m) = OwnC(s)
    BY <1>2, <1>6, <2>2
  <2>13. Quiet(And(f, g), Class(m), s)
    <3> SUFFICES ASSUME NEW d \in DOMAIN And(f, g)
                 PROVE  /\ And(f, g)[d] \in Messages
                        /\ \/ Class(And(f, g)[d]) = BunchC /\ d \notin Ranks
                           \/ d = s /\ Class(And(f, g)[d]) = Class(m)
                              /\ (d \in Ranks => Class(m) = OwnC(d))
      BY DEF Quiet
    <3>1. \/ d \in DOMAIN f /\ And(f, g)[d] = f[d]
          \/ d \in DOMAIN g /\ And(f, g)[d] = g[d]
      BY AndIs
    <3> QED BY <2>6, <2>8, <2>10, <2>12, <3>1
  <2>14. puts' \in [Nodes -> Seq(AllKeys)]
    <3>1. puts' = [puts EXCEPT ![n] = IF Bunch_ready(q, n) THEN << >> ELSE q]
      BY <1>7, <2>3 DEF Put
    <3>2. << >> \in Seq(AllKeys)
      OBVIOUS
    <3> QED BY <1>3, <2>4, <3>1, <3>2
  <2> QED BY <1>4, <1>5, <1>6, <2>2, <2>11, <2>13, <2>14, OtherMessagesKeep
<1>8. CASE Bputs(n, s, m) /\ s \notin Ranks
  <2>1. m.cmd = "bputs"
    BY <1>8 DEF Bputs
  <2>2. Class(m) = BunchC /\ m.key \in Seq(AllKeys)
    BY <1>2, <2>1, Kinds
  <2>3. PICK down : down = (HasParent(n) /\ s = Parent(n))
    OBVIOUS
  <2>4. PICK q : q = IF down THEN puts[n] ELSE Reverse(m.key) \o puts[n]
    OBVIOUS
  <2>5. q \in Seq(AllKeys)
    <3>1. Reverse(m.key) \in Seq(AllKeys)
      BY <2>2 DEF Reverse
    <3> QED BY <1>3, <2>4, <3>1
  <2>6. PICK g : g = Flushed(q, n)
    OBVIOUS
  <2>7. \A d \in DOMAIN g : g[d] \in Messages /\ Class(g[d]) = BunchC /\ d \notin Ranks
    BY <2>5, <2>6, FlushedIs
  <2>8. PICK f : f = IF down THEN ToAll(Children(n), m) ELSE Nothing
    OBVIOUS
  <2>9. \A d \in DOMAIN f : f[d] \in Messages /\ Class(f[d]) = BunchC /\ d \notin Ranks
    <3>1. Children(n) \cap Ranks = {}
      BY PmiAssumption DEF Children
    <3> QED BY <1>2, <2>2, <2>8, <3>1 DEF ToAll, Nothing
  <2>10. Exchange(n, s, And(f, g))
    BY <1>8, <2>3, <2>4, <2>6, <2>8 DEF Bputs
  <2>11. Quiet(And(f, g), Class(m), s)
    <3> SUFFICES ASSUME NEW d \in DOMAIN And(f, g)
                 PROVE  And(f, g)[d] \in Messages /\ Class(And(f, g)[d]) = BunchC /\ d \notin Ranks
      BY DEF Quiet
    <3>1. \/ d \in DOMAIN f /\ And(f, g)[d] = f[d]
          \/ d \in DOMAIN g /\ And(f, g)[d] = g[d]
      BY AndIs
    <3> QED BY <2>7, <2>9, <3>1
  <2>12. puts' \in [Nodes -> Seq(AllKeys)]
    <3>1. puts' = [puts EXCEPT ![n] = IF Bunch_ready(q, n) THEN << >> ELSE q]
      BY <1>8, <2>3, <2>4 DEF Bputs
    <3>2. << >> \in Seq(AllKeys)
      OBVIOUS
    <3> QED BY <1>3, <2>5, <3>1, <3>2
  <2> QED BY <1>4, <1>5, <1>6, <2>2, <2>10, <2>11, <2>12, OtherMessagesKeep
<1> QED BY <1>7, <1>8

\* A request is answered, or goes on to one other.
LEMMA OneKeeps ==
    ASSUME PInv, NEW n \in Nodes, NEW s, NEW x, NEW a \in Messages,
           <<s, n>> \in Links, link[<<s, n>>] # << >>,
           Exchange(n, s, To(x, a)) \/ Exchange(n, s, Nothing),
           Class(Head(link[<<s, n>>])) \notin {InC, OutC},
           Class(a) = Class(Head(link[<<s, n>>])),
           x \in Ranks => Class(a) = OwnC(x),
           UNCHANGED <<script, pc, asked, barrier, puts>>,
           reqs' \in [Nodes -> SUBSET (Ranks \X (Ranks \cup Nodes))],
           \A k \in Nodes : \A p \in reqs'[k] : p[2] \in Ranks => p[2] = p[1]
    PROVE  PInv'
<1>1. puts' \in [Nodes -> Seq(AllKeys)] /\ UNCHANGED <<script, pc, asked, barrier>>
  BY DEF PInv, Typed
<1>2. PICK out : Exchange(n, s, out) /\ (out = To(x, a) \/ out = Nothing)
  OBVIOUS
<1>3. Quiet(out, Class(Head(link[<<s, n>>])), x)
  BY <1>2 DEF Quiet, To, Nothing
<1> QED BY <1>1, <1>2, <1>3, OtherMessagesKeep

\* The requests of processes: a get, and those about names.
LEMMA RequestsKeep ==
    ASSUME PInv, NEW n \in Nodes, NEW s \in Nodes \cup Ranks, NEW m, <<s, n>> \in Links,
           link[<<s, n>>] # << >>, m = Head(link[<<s, n>>]),
           \/ Get(n, s, m) \/ Publish_name(n, s, m) \/ Unpublish_name(n, s, m)
           \/ Lookup_name(n, s, m) \/ Pass_down(n, s, m),
           UNCHANGED <<script, pc, asked>>
    PROVE  PInv'
<1>1. Typed /\ LinksInv
  BY DEF PInv
<1>2. m \in Messages /\ (s \in Ranks /\ Class(m) \notin {InC, OutC} => Class(m) = OwnC(s))
  BY <1>1, ReadsOwn
<1>3. m.cmd \in {"get", "publish_name", "unpublish_name", "lookup_name", "publish_result",
                 "unpublish_result", "lookup_result"}
  BY DEF Get, Publish_name, Unpublish_name, Lookup_name, Pass_down
<1>4. /\ Class(m) = OwnC(m.rank) /\ m.rank \in Ranks /\ m.key \in AllKeys
      /\ Class(m) \notin {InC, OutC}
  <2>1. Class(m) = OwnC(m.rank) /\ m.rank \in Ranks /\ m.key \in AllKeys
    BY <1>2, <1>3, Kinds DEF OwnCommands
  <2> QED BY <2>1, ClassIs
<1>5. s \in Ranks => Class(m) = OwnC(s) /\ s = m.rank
  <2>1. s \in Ranks => Class(m) = OwnC(s)
    BY <1>2, <1>4
  <2> QED BY <1>4, <2>1, ClassIs
<1>6. UNCHANGED <<script, pc, asked, barrier, puts>>
  BY DEF Get, Publish_name, Unpublish_name, Lookup_name, Pass_down, Change_name
<1>7. /\ reqs \in [Nodes -> SUBSET (Ranks \X (Ranks \cup Nodes))]
      /\ \A k \in Nodes : \A p \in reqs[k] : p[2] \in Ranks => p[2] = p[1]
  BY <1>1 DEF Typed
<1> DEFINE Answers(a) == /\ Exchange(n, s, To(s, a)) \/ Exchange(n, s, Nothing)
                         /\ reqs' = reqs /\ a \in Messages /\ Class(a) = OwnC(m.rank)
<1>8. ASSUME NEW a, Answers(a) PROVE PInv'
  BY <1>4, <1>5, <1>6, <1>7, <1>8, OneKeeps
<1> HIDE DEF Answers
<1>9. ASSUME Pass_up(n, s, m), HasParent(n) PROVE PInv'
  <2>1. Parent(n) \notin Ranks
    BY <1>9, Tree, PmiAssumption DEF HasParent, Entities
  <2>2. reqs' = [reqs EXCEPT ![n] = @ \cup {<<m.rank, s>>}] /\ Exchange(n, s, To(Parent(n), m))
    BY <1>9 DEF Pass_up
  <2>3. <<m.rank, s>> \in Ranks \X (Ranks \cup Nodes)
    BY <1>4
  <2>4. reqs' \in [Nodes -> SUBSET (Ranks \X (Ranks \cup Nodes))]
    BY <1>7, <2>2, <2>3
  <2>5. \A k \in Nodes : \A p \in reqs'[k] : p \in reqs[k] \/ p = <<m.rank, s>>
    BY <1>7, <2>2
  <2>6. \A k \in Nodes : \A p \in reqs'[k] : p[2] \in Ranks => p[2] = p[1]
    BY <1>5, <1>7, <2>5
  <2> QED BY <1>2, <1>4, <1>6, <2>1, <2>2, <2>4, <2>6, OneKeeps
<1>10. CASE Get(n, s, m)
  <2>1. Answers(Msg("get_result", m.key, m.rank))
    BY <1>4, <1>10, OwnMsg DEF Get, Answers, OwnCommands
  <2> QED BY <1>8, <2>1
<1>11. ASSUME NEW names, NEW answer \in OwnCommands, Change_name(n, s, m, names, answer)
       PROVE  PInv'
  <2>1. CASE HasParent(n)
    BY <1>9, <1>11, <2>1 DEF Change_name
  <2>2. CASE ~HasParent(n)
    <3>1. Bare(answer, m.rank) \in Messages /\ Class(Bare(answer, m.rank)) = OwnC(m.rank)
      BY <1>4, OwnMsg
    <3>2. Answers(Bare(answer, m.rank))
      BY <1>11, <2>2, <3>1 DEF Change_name, Answers
    <3> QED BY <1>8, <3>2
  <2> QED BY <2>1, <2>2
<1>12. CASE Publish_name(n, s, m) \/ Unpublish_name(n, s, m)
  <2>1. "publish_result" \in OwnCommands /\ "unpublish_result" \in OwnCommands
    BY DEF OwnCommands
  <2> QED BY <1>11, <1>12, <2>1 DEF Publish_name, Unpublish_name
<1>13. CASE Lookup_name(n, s, m)
  <2>1. CASE m.key \notin kvs[n] /\ HasParent(n)
    BY <1>9, <1>13, <2>1 DEF Lookup_name
  <2>2. CASE ~(m.key \notin kvs[n] /\ HasParent(n))
    <3>1. PICK k : k = IF m.key \in kvs[n] THEN "ok" ELSE "notok"
      OBVIOUS
    <3>2. k \in AllKeys
      BY <3>1 DEF AllKeys
    <3>3. Exchange(n, s, To(s, Msg("lookup_result", k, m.rank))) /\ reqs' = reqs
      BY <1>13, <2>2, <3>1 DEF Lookup_name
    <3>4. Answers(Msg("lookup_result", k, m.rank))
      BY <1>4, <3>2, <3>3, OwnMsg DEF Answers, OwnCommands
    <3> QED BY <1>8, <3>4
  <2> QED BY <2>1, <2>2
<1>14. CASE Pass_down(n, s, m)
  <2>1. PICK q \in reqs[n] : /\ q[1] = m.rank /\ reqs' = [reqs EXCEPT ![n] = @ \ {q}]
                             /\ Exchange(n, s, To(q[2], m))
    BY <1>14 DEF Pass_down, Requests_of
  <2>2. q[2] \in Ranks => Class(m) = OwnC(q[2])
    BY <1>4, <1>7, <2>1
  <2>3. reqs' \in [Nodes -> SUBSET (Ranks \X (Ranks \cup Nodes))]
    BY <1>7, <2>1
  <2>4. \A k \in Nodes : \A p \in reqs'[k] : p \in reqs[k]
    BY <1>7, <2>1
  <2>5. \A k \in Nodes : \A p \in reqs'[k] : p[2] \in Ranks => p[2] = p[1]
    BY <1>7, <2>4
  <2> QED BY <1>2, <1>4, <1>6, <2>1, <2>2, <2>3, <2>5, OneKeeps
<1> QED BY <1>10, <1>12, <1>13, <1>14

\* A step of an mpispawn keeps the invariant.
LEMMA NodeKeeps ==
    ASSUME PInv, NEW n \in Nodes, NEW s \in Nodes \cup Ranks, mtpmi_processops(n, s)
    PROVE  PInv'
<1> DEFINE m == Head(link[<<s, n>>])
<1>1. Typed /\ LinksInv /\ Rounds
  BY DEF PInv
<1>2. /\ <<s, n>> \in Links /\ link[<<s, n>>] # << >>
      /\ UNCHANGED <<script, pc, asked>>
      /\ IF s \in Ranks THEN parse_str(n, s, m) ELSE handle_mt_peer(n, s, m)
  BY DEF mtpmi_processops
<1>3. m \in Messages
  BY <1>1, <1>2, ReadsOwn
<1>4. ASSUME parse_str(n, s, m) PROVE PInv'
  <2>1. CASE Put(n, s, m)
    BY <1>2, <2>1, PutsKeep
  <2>2. CASE \/ Get(n, s, m) \/ Publish_name(n, s, m) \/ Unpublish_name(n, s, m)
             \/ Lookup_name(n, s, m) \/ Pass_down(n, s, m)
    BY <1>2, <2>2, RequestsKeep
  <2>3. CASE Barrier_in(n, s, m) \/ Finalize(n, s, m)
    <3>1. m.cmd \in Collectives
      BY <2>3 DEF Barrier_in, Finalize, Collectives
    <3>2. Class(m) = InC
      BY <1>3, <3>1, Kinds
    <3>3. PICK answer \in Outs : Enter(n, s, m, answer)
      BY <2>3 DEF Barrier_in, Finalize, Outs
    <3>4. UNCHANGED <<script, pc, asked, puts, reqs>>
      BY <1>2, <2>3 DEF Barrier_in, Finalize
    <3> QED BY <1>1, <1>2, <3>2, <3>3, <3>4, EnterKeeps
  <2>4. CASE Barrier_out(n, s, m) \/ Finalize_ack(n, s, m)
    <3>1. m.cmd \in Outs
      BY <2>4 DEF Barrier_out, Finalize_ack, Outs
    <3>2. Class(m) = OutC
      BY <1>3, <3>1, Kinds
    <3>3. /\ Exchange(n, s, ToAll(Children(n) \cup Locals(n), m))
          /\ barrier' = [barrier EXCEPT ![n] = 0]
          /\ UNCHANGED <<script, pc, asked, puts, reqs>>
      BY <1>2, <2>4 DEF Barrier_out, Finalize_ack
    <3> QED BY <1>1, <1>2, <3>2, <3>3, ReleaseKeeps
  <2> QED BY <1>4, <2>1, <2>2, <2>3, <2>4 DEF parse_str
<1>5. ASSUME ~m.header, Exchange(n, s, Nothing), UNCHANGED <<puts, barrier, reqs>> PROVE PInv'
  <2>1. Class(m) \notin {InC, OutC}
    BY <1>3, <1>5, Kinds
  <2>2. Quiet(Nothing, Class(m), s)
    BY DEF Quiet, Nothing
  <2>3. /\ puts' \in [Nodes -> Seq(AllKeys)]
        /\ reqs' \in [Nodes -> SUBSET (Ranks \X (Ranks \cup Nodes))]
        /\ \A k \in Nodes : \A p \in reqs'[k] : p[2] \in Ranks => p[2] = p[1]
    BY <1>1, <1>5 DEF Typed
  <2>4. UNCHANGED <<script, pc, asked, barrier>>
    BY <1>2, <1>5
  <2> QED BY <1>2, <1>5, <2>1, <2>2, <2>3, <2>4, OtherMessagesKeep
<1>6. CASE s \in Ranks
  BY <1>2, <1>4, <1>6
<1>7. CASE s \notin Ranks
  <2>1. CASE m.header /\ Bputs(n, s, m)
    BY <1>2, <1>7, <2>1, PutsKeep
  <2>2. CASE m.header /\ parse_str(n, s, m)
    BY <1>4, <2>2
  <2>3. CASE ~m.header
    <3>1. Exchange(n, s, Nothing) /\ UNCHANGED <<puts, barrier, reqs>>
      BY <1>2, <1>7, <2>3 DEF handle_mt_peer
    <3> QED BY <1>5, <2>3, <3>1
  <2> QED BY <1>2, <1>7, <2>1, <2>2, <2>3 DEF handle_mt_peer
<1> QED BY <1>6, <1>7

-----------------------------------------------------------------------------
(* The steps of the processes. *)

\* The number of collective calls before a call.
LEMMA OneCallOn ==
    ASSUME NEW calls \in Seq(Calls), NEW i \in Nat \ {0}
    PROVE  /\ CollectivesBefore(calls, i) \in Nat
           /\ i <= Len(calls) =>
                 CollectivesBefore(calls, i + 1) =
                    CollectivesBefore(calls, i) + (IF calls[i].cmd \in Collectives THEN 1 ELSE 0)
<1> DEFINE S(j) == {k \in 1 .. Len(calls) : k < j /\ calls[k].cmd \in Collectives}
<1>1. Len(calls) \in Nat
  OBVIOUS
<1>2. IsFiniteSet(1 .. Len(calls))
  BY <1>1, FS_Interval
<1>3. ASSUME NEW j PROVE IsFiniteSet(S(j))
  BY <1>2, FS_Subset
<1>4. i \notin S(i)
  OBVIOUS
<1>5. ASSUME i <= Len(calls)
      PROVE  S(i + 1) = IF calls[i].cmd \in Collectives THEN S(i) \cup {i} ELSE S(i)
  <2>1. i \in 1 .. Len(calls)
    BY <1>1, <1>5
  <2>2. \A k \in 1 .. Len(calls) : k < i + 1 <=> k < i \/ k = i
    BY <1>1
  <2> QED BY <2>1, <2>2
<1>6. \A j : CollectivesBefore(calls, j) = Cardinality(S(j))
  BY DEF CollectivesBefore
<1> HIDE DEF S
<1>7. Cardinality(S(i)) \in Nat /\ Cardinality(S(i) \cup {i}) = Cardinality(S(i)) + 1
  <2>1. IsFiniteSet(S(i))
    BY <1>3
  <2> QED BY <1>4, <2>1, FS_AddElement, FS_CardinalityType
<1> QED BY <1>5, <1>6, <1>7

\* The script of a process.
LEMMA ScriptIs ==
    ASSUME Typed, NEW r \in Ranks
    PROVE  /\ script[r] \in Seq(Calls) /\ pc[r] \in Nat \ {0} /\ asked[r] \in BOOLEAN
           /\ Done[r] = CollectivesBefore(script[r], pc[r])
           /\ pc[r] <= Len(script[r]) => script[r][pc[r]] \in Calls
<1>1. script[r] \in Seq(Calls) /\ pc[r] \in Nat \ {0} /\ asked[r] \in BOOLEAN
  BY PmiAssumption DEF Typed
<1>2. pc[r] <= Len(script[r]) => pc[r] \in 1 .. Len(script[r])
  BY <1>1
<1> QED BY <1>1, <1>2 DEF Done

\* What the messages of a class are, for a link that gets a further message, or loses one.
LEMMA ProcessLink ==
    ASSUME NEW r \in Ranks
    PROVE  /\ r \in Entities /\ UpLink(r) = <<r, Home[r]>> /\ DownLink(r) = <<Home[r], r>>
           /\ UpLink(r) \in Links /\ DownLink(r) \in Links /\ UpLink(r) # DownLink(r)
<1>1. r \in Entities /\ Above(r) = Home[r]
  BY Tree DEF Entities
<1> QED BY <1>1, Ends2 DEF UpLink, DownLink

\* What a process asks for.
LEMMA AskMsg ==
    ASSUME NEW call \in Calls, NEW r \in Ranks
    PROVE  /\ Msg(call.cmd, call.key, r) \in Messages
           /\ call.cmd \in Collectives => Class(Msg(call.cmd, call.key, r)) = InC
           /\ call.cmd \notin Collectives => Class(Msg(call.cmd, call.key, r)) = OwnC(r)
<1>1. call.key \in AllKeys
  BY DEF Calls, AllKeys
<1>2. call.cmd \in Collectives \/ (call.cmd \in OwnCommands /\ call.cmd \notin Collectives)
  BY DEF Calls, Commands, Collectives, OwnCommands
<1> QED BY <1>1, <1>2, CollectiveMsg, OwnMsg

\* A process makes a call.
LEMMA AskKeeps ==
    ASSUME PInv, NEW r \in Ranks, Ask(r)
    PROVE  PInv'
<1> DEFINE call == script[r][pc[r]]
           a == Msg(call.cmd, call.key, r)
           u == UpLink(r)
<1>1. Typed /\ LinksInv /\ Rounds
  BY DEF PInv
<1>2. /\ pc[r] <= Len(script[r]) /\ ~asked[r]
      /\ link' = [link EXCEPT ![u] = Append(@, a)]
      /\ asked' = [asked EXCEPT ![r] = TRUE]
      /\ UNCHANGED <<script, pc, puts, barrier, reqs>>
  BY ProcessLink DEF Ask
<1>3. call \in Calls /\ asked'[r] = TRUE /\ \A p \in Ranks : p # r => asked'[p] = asked[p]
  BY <1>1, <1>2, ScriptIs DEF Typed
<1>4. /\ a \in Messages /\ (call.cmd \in Collectives => Class(a) = InC)
      /\ (call.cmd \notin Collectives => Class(a) = OwnC(r))
  BY <1>3, AskMsg
<1>5. r \in Entities /\ u \in Links /\ u = UpLink(r)
  BY ProcessLink
<1>6. link \in [Links -> Seq(Messages)] /\ link[u] \in Seq(Messages)
  BY <1>1, <1>5 DEF Typed
<1>7. InCall(r)' <=> call.cmd \in Collectives
  BY <1>2, <1>3 DEF InCall
<1>8. ~InCall(r) /\ \A p \in Ranks : p # r => (InCall(p)' <=> InCall(p))
  BY <1>2, <1>3 DEF InCall
<1> HIDE DEF call, a, u
<1>9. link'[u] = Append(link[u], a) /\ \A l \in Links : l # u => link'[l] = link[l]
  BY <1>2, <1>5, <1>6
<1>10. Added(link[u], link'[u], Class(a)) /\ link'[u] \in Seq(Messages)
  BY <1>4, <1>6, <1>9, AppendClass DEF Added
<1>11. link' \in [Links -> Seq(Messages)]
  <2>1. \A l \in Links : link'[l] \in Seq(Messages)
    BY <1>6, <1>9, <1>10
  <2>2. link' = [l \in Links |-> link'[l]]
    BY <1>2, <1>6
  <2> QED BY <2>1, <2>2
<1>12. Typed'
  BY <1>1, <1>2, <1>3, <1>11 DEF Typed
<1>13. PICK R : RoundsOf(R, Raised, Released, Callers, Done, barrier)
  BY <1>1 DEF Rounds
<1>14. r \notin Callers /\ r \notin Raised
  <2>1. r \notin Callers
    BY <1>8 DEF Callers
  <2>2. Raised \subseteq Entering(Callers, barrier) /\ Callers \in SUBSET Ranks
    BY <1>13 DEF RoundsOf
  <2> QED BY <2>1, <2>2, EnteringIs
<1>15. ~Has(link[u], InC)
  BY <1>5, <1>14 DEF Raised
<1>16. \A l \in Links : ~Has(link[l], OwnC(r))
  BY <1>1, <1>2 DEF LinksInv, Requests
<1>17. ~Has(link[u], Class(a)) /\ Class(a) \in {InC, OwnC(r)}
  BY <1>4, <1>5, <1>15, <1>16
<1>18. /\ \A p : OwnC(p) \notin {InC, OutC} /\ InC # OutC
       /\ \A p, q : OwnC(p) = OwnC(q) => p = q
  BY ClassIs
<1>19. \A l \in Links : \A c : /\ Has(link'[l], c) <=> Has(link[l], c) \/ (l = u /\ c = Class(a))
                               /\ Once(link[l], c) => Once(link'[l], c)
  BY <1>9, <1>10, <1>17 DEF Added
<1>20. /\ \A e \in Entities : UpLink(e) \in Links /\ DownLink(e) \in Links /\ DownLink(e) # u
       /\ \A e \in Entities : UpLink(e) = u <=> e = r
  BY <1>5, Ends2
<1>21. LinksInv'
  <2>1. Collective(link')
    BY <1>1, <1>17, <1>18, <1>19, <1>20 DEF LinksInv, Collective
  <2>2. OfProcess(link')
    <3> SUFFICES ASSUME NEW p \in Ranks
                 PROVE  /\ Only(link'[UpLink(p)], {InC, OutC, OwnC(p)})
                        /\ Only(link'[DownLink(p)], {InC, OutC, OwnC(p)})
      BY DEF OfProcess
    <3>1. /\ Only(link[UpLink(p)], {InC, OutC, OwnC(p)})
          /\ Only(link[DownLink(p)], {InC, OutC, OwnC(p)}) /\ p \in Entities
      BY <1>1 DEF LinksInv, OfProcess, Entities
    <3>2. Only(link'[DownLink(p)], {InC, OutC, OwnC(p)})
      BY <1>9, <1>20, <3>1
    <3>3. CASE p # r
      BY <1>9, <1>20, <3>1, <3>2, <3>3
    <3>4. CASE p = r
      BY <1>5, <1>10, <1>17, <3>1, <3>2, <3>4 DEF Added
    <3> QED BY <3>3, <3>4
  <2>3. Requests(link)'
    <3> SUFFICES ASSUME NEW p \in Ranks
                 PROVE  /\ \A l \in Links : Has(link'[l], OwnC(p)) => asked'[p] /\ ~InCall(p)'
                        /\ \A l \in Links : Once(link'[l], OwnC(p))
                        /\ \A l, k \in Links : Has(link'[l], OwnC(p)) /\ Has(link'[k], OwnC(p)) => l = k
      BY DEF Requests, InCall
    <3>1. /\ \A l \in Links : Has(link[l], OwnC(p)) => asked[p] /\ ~InCall(p)
          /\ \A l \in Links : Once(link[l], OwnC(p))
          /\ \A l, k \in Links : Has(link[l], OwnC(p)) /\ Has(link[k], OwnC(p)) => l = k
      BY <1>1 DEF LinksInv, Requests
    <3>2. CASE p # r
      <4>1. \A l \in Links : Has(link'[l], OwnC(p)) <=> Has(link[l], OwnC(p))
        BY <1>17, <1>18, <1>19, <3>2
      <4> QED BY <1>3, <1>8, <1>19, <3>1, <3>2, <4>1
    <3>3. CASE p = r
      <4>1. \A l \in Links : Has(link'[l], OwnC(p)) => l = u /\ Class(a) = OwnC(r)
        BY <1>16, <1>19, <3>3
      <4>2. Class(a) = OwnC(r) => ~InCall(r)'
        BY <1>4, <1>7, <1>18
      <4> QED BY <1>3, <1>19, <3>1, <3>3, <4>1, <4>2
    <3> QED BY <3>2, <3>3
  <2> QED BY <2>1, <2>2, <2>3 DEF LinksInv, Collective, OfProcess
<1>22. Released' = Released /\ Done' = Done
  BY <1>2, <1>17, <1>18, <1>19, <1>20 DEF Released, Done
<1>23. CASE call.cmd \in Collectives
  <2>1. Raised' = Raised \cup {r}
    <3>1. \A e \in Entities : Has(link'[UpLink(e)], InC) <=> Has(link[UpLink(e)], InC) \/ e = r
      BY <1>4, <1>19, <1>20, <1>23
    <3> QED BY <1>5, <3>1 DEF Raised
  <2>2. Callers' = Callers \cup {r}
    BY <1>7, <1>8, <1>23 DEF Callers
  <2>3. RoundsOf(R, Raised \cup {r}, Released, Callers \cup {r}, Done, barrier)
    BY <1>13, <1>14, CallRound
  <2>4. Rounds'
    BY <1>2, <1>22, <2>1, <2>2, <2>3 DEF Rounds
  <2> QED BY <1>12, <1>21, <2>4 DEF PInv
<1>24. CASE call.cmd \notin Collectives
  <2>1. Raised' = Raised
    <3>1. \A e \in Entities : Has(link'[UpLink(e)], InC) <=> Has(link[UpLink(e)], InC)
      BY <1>4, <1>18, <1>19, <1>20, <1>24
    <3> QED BY <3>1 DEF Raised
  <2>2. Callers' = Callers
    BY <1>7, <1>8, <1>24 DEF Callers
  <2>3. Rounds'
    BY <1>2, <1>13, <1>22, <2>1, <2>2 DEF Rounds
  <2> QED BY <1>12, <1>21, <2>3 DEF PInv
<1> QED BY <1>23, <1>24

\* A process gets its answer.
LEMMA AnsweredKeeps ==
    ASSUME PInv, NEW r \in Ranks, Answered(r)
    PROVE  PInv'
<1> DEFINE w == DownLink(r)
           c0 == Class(Head(link[w]))
<1>1. Typed /\ LinksInv /\ Rounds
  BY DEF PInv
<1>2. /\ link[w] # << >> /\ link' = [link EXCEPT ![w] = Tail(@)]
      /\ pc' = [pc EXCEPT ![r] = @ + 1] /\ asked' = [asked EXCEPT ![r] = FALSE]
      /\ UNCHANGED <<script, puts, barrier, reqs>>
  BY ProcessLink DEF Answered
<1>3. /\ pc'[r] = pc[r] + 1 /\ asked'[r] = FALSE
      /\ \A p \in Ranks : p # r => pc'[p] = pc[p] /\ asked'[p] = asked[p]
      /\ pc' \in [Ranks -> Nat \ {0}] /\ asked' \in [Ranks -> BOOLEAN]
  BY <1>1, <1>2 DEF Typed
<1>4. r \in Entities /\ w \in Links /\ w = DownLink(r)
  BY ProcessLink
<1>5. link \in [Links -> Seq(Messages)] /\ link[w] \in Seq(Messages)
  BY <1>1, <1>4 DEF Typed
<1>6. ~InCall(r)' /\ \A p \in Ranks : p # r => (InCall(p)' <=> InCall(p))
  BY <1>2, <1>3 DEF InCall
<1>7. /\ \A e \in Entities : UpLink(e) \in Links /\ DownLink(e) \in Links /\ UpLink(e) # w
      /\ \A e \in Entities : DownLink(e) = w <=> e = r
  BY <1>4, Ends2
<1> HIDE DEF w
<1>8. link'[w] = Tail(link[w]) /\ \A l \in Links : l # w => link'[l] = link[l]
  BY <1>2, <1>4, <1>5
<1>9. /\ Gone(link[w], link'[w], c0) /\ link'[w] \in Seq(Messages)
      /\ Has(link[w], c0) /\ \A S : Only(link[w], S) => c0 \in S
  BY <1>2, <1>5, <1>8, TailClass DEF Gone
<1> HIDE DEF c0
<1>10. link' \in [Links -> Seq(Messages)]
  <2>1. \A l \in Links : link'[l] \in Seq(Messages)
    BY <1>5, <1>8, <1>9
  <2>2. link' = [l \in Links |-> link'[l]]
    BY <1>2, <1>5
  <2> QED BY <2>1, <2>2
<1>11. Typed'
  <2>1. \A p \in Ranks : asked'[p] => pc'[p] <= Len(script'[p])
    BY <1>1, <1>2, <1>3 DEF Typed
  <2> QED BY <1>1, <1>2, <1>3, <1>10, <2>1 DEF Typed
<1>12. /\ \A p : OwnC(p) \notin {InC, OutC} /\ InC # OutC
       /\ \A p, q : OwnC(p) = OwnC(q) => p = q
  BY ClassIs
<1>13. c0 \in {OutC, OwnC(r)}
  <2>1. Only(link[w], {InC, OutC, OwnC(r)}) /\ ~Has(link[w], InC)
    BY <1>1, <1>4 DEF LinksInv, Collective, OfProcess
  <2> QED BY <1>9, <2>1
<1>14. Once(link[w], c0)
  BY <1>1, <1>4, <1>13 DEF LinksInv, Collective, Requests
<1>15. \A l \in Links : \A c : /\ Has(link'[l], c) <=> Has(link[l], c) /\ ~(l = w /\ c = c0)
                               /\ Once(link[l], c) => Once(link'[l], c)
  BY <1>8, <1>9, <1>14 DEF Gone
<1>16. PICK R : RoundsOf(R, Raised, Released, Callers, Done, barrier)
  BY <1>1 DEF Rounds
<1>17. c0 = OutC => r \in Released /\ r \in Callers /\ InCall(r)
  <2> SUFFICES ASSUME c0 = OutC PROVE r \in Released /\ r \in Callers /\ InCall(r)
    OBVIOUS
  <2>1. r \in Released
    BY <1>4, <1>9 DEF Released
  <2>2. Released \subseteq Entering(Callers, barrier) /\ Callers \in SUBSET Ranks
    BY <1>16 DEF RoundsOf
  <2>3. r \in Callers
    BY <2>1, <2>2, EnteringIs
  <2> QED BY <2>1, <2>3 DEF Callers
<1>18. c0 = OwnC(r) => asked[r] /\ ~InCall(r)
  BY <1>1, <1>4, <1>9 DEF LinksInv, Requests
<1>19. asked[r] /\ pc[r] <= Len(script[r])
  <2>1. asked[r]
    BY <1>13, <1>17, <1>18 DEF InCall
  <2> QED BY <1>1, <2>1 DEF Typed
<1>20. \A l \in Links : ~Has(link'[l], OwnC(r))
  <2>1. CASE c0 = OutC
    BY <1>1, <1>15, <1>17, <2>1 DEF LinksInv, Requests
  <2>2. CASE c0 = OwnC(r)
    BY <1>1, <1>4, <1>9, <1>15, <2>2 DEF LinksInv, Requests
  <2> QED BY <1>13, <2>1, <2>2
<1>21. LinksInv'
  <2>1. Collective(link')
    BY <1>1, <1>7, <1>15 DEF LinksInv, Collective
  <2>2. OfProcess(link')
    <3> SUFFICES ASSUME NEW p \in Ranks
                 PROVE  /\ Only(link'[UpLink(p)], {InC, OutC, OwnC(p)})
                        /\ Only(link'[DownLink(p)], {InC, OutC, OwnC(p)})
      BY DEF OfProcess
    <3>1. /\ Only(link[UpLink(p)], {InC, OutC, OwnC(p)})
          /\ Only(link[DownLink(p)], {InC, OutC, OwnC(p)}) /\ p \in Entities
      BY <1>1 DEF LinksInv, OfProcess, Entities
    <3>2. Only(link'[UpLink(p)], {InC, OutC, OwnC(p)})
      BY <1>7, <1>8, <3>1
    <3>3. CASE p # r
      BY <1>7, <1>8, <3>1, <3>2, <3>3
    <3>4. CASE p = r
      BY <1>4, <1>9, <3>1, <3>2, <3>4 DEF Gone
    <3> QED BY <3>3, <3>4
  <2>3. Requests(link)'
    <3> SUFFICES ASSUME NEW p \in Ranks
                 PROVE  /\ \A l \in Links : Has(link'[l], OwnC(p)) => asked'[p] /\ ~InCall(p)'
                        /\ \A l \in Links : Once(link'[l], OwnC(p))
                        /\ \A l, k \in Links : Has(link'[l], OwnC(p)) /\ Has(link'[k], OwnC(p)) => l = k
      BY DEF Requests, InCall
    <3>1. /\ \A l \in Links : Has(link[l], OwnC(p)) => asked[p] /\ ~InCall(p)
          /\ \A l \in Links : Once(link[l], OwnC(p))
          /\ \A l, k \in Links : Has(link[l], OwnC(p)) /\ Has(link[k], OwnC(p)) => l = k
      BY <1>1 DEF LinksInv, Requests
    <3>2. CASE p # r
      BY <1>3, <1>6, <1>15, <3>1, <3>2
    <3>3. CASE p = r
      BY <1>15, <1>20, <3>1, <3>3
    <3> QED BY <3>2, <3>3
  <2> QED BY <2>1, <2>2, <2>3 DEF LinksInv, Collective, OfProcess
<1>22. Raised' = Raised
  <2>1. \A e \in Entities : Has(link'[UpLink(e)], InC) <=> Has(link[UpLink(e)], InC)
    BY <1>7, <1>15
  <2> QED BY <2>1 DEF Raised
<1>23. /\ script[r] \in Seq(Calls) /\ pc[r] \in Nat \ {0}
       /\ CollectivesBefore(script[r], pc[r] + 1) =
             CollectivesBefore(script[r], pc[r]) + (IF script[r][pc[r]].cmd \in Collectives THEN 1 ELSE 0)
       /\ CollectivesBefore(script[r], pc[r]) \in Nat
  BY <1>1, <1>19, ScriptIs, OneCallOn
<1>24. /\ Done \in [Ranks -> Nat]
       /\ Done' = [Done EXCEPT ![r] = @ + (IF script[r][pc[r]].cmd \in Collectives THEN 1 ELSE 0)]
  <2>1. Done \in [Ranks -> Nat]
    BY <1>16 DEF RoundsOf
  <2>2. \A p \in Ranks : Done'[p] = IF p = r THEN CollectivesBefore(script[r], pc[r] + 1) ELSE Done[p]
    BY <1>2, <1>3 DEF Done
  <2>3. Done[r] = CollectivesBefore(script[r], pc[r])
    BY DEF Done
  <2>4. Done' = [p \in Ranks |-> Done'[p]]
    BY DEF Done
  <2> QED BY <1>23, <2>1, <2>2, <2>3, <2>4
<1>25. CASE c0 = OutC
  <2>1. Released' = Released \ {r}
    <3>1. \A e \in Entities : Has(link'[DownLink(e)], OutC) <=> Has(link[DownLink(e)], OutC) /\ e # r
      BY <1>7, <1>15, <1>25
    <3> QED BY <3>1 DEF Released
  <2>2. Callers' = Callers \ {r}
    BY <1>6 DEF Callers
  <2>3. Done' = [Done EXCEPT ![r] = @ + 1]
    BY <1>17, <1>24, <1>25 DEF InCall
  <2>4. RoundsOf(R, Raised, Released \ {r}, Callers \ {r}, [Done EXCEPT ![r] = @ + 1], barrier)
    BY <1>16, <1>17, <1>25, LeaveRound
  <2>5. Rounds'
    BY <1>2, <1>22, <2>1, <2>2, <2>3, <2>4 DEF Rounds
  <2> QED BY <1>11, <1>21, <2>5 DEF PInv
<1>26. CASE c0 = OwnC(r)
  <2>1. Released' = Released
    <3>1. \A e \in Entities : Has(link'[DownLink(e)], OutC) <=> Has(link[DownLink(e)], OutC)
      BY <1>7, <1>12, <1>15, <1>26
    <3> QED BY <3>1 DEF Released
  <2>2. Callers' = Callers
    BY <1>6, <1>18, <1>26 DEF Callers
  <2>3. Done' = Done
    <3>1. script[r][pc[r]].cmd \notin Collectives
      BY <1>18, <1>26 DEF InCall
    <3> QED BY <1>24, <3>1
  <2>4. Rounds'
    BY <1>2, <1>16, <1>22, <2>1, <2>2, <2>3 DEF Rounds
  <2> QED BY <1>11, <1>21, <2>4 DEF PInv
<1> QED BY <1>13, <1>25, <1>26

-----------------------------------------------------------------------------
\* At first nobody has asked for anything.
LEMMA FirstPInv == ASSUME Init PROVE PInv
<1>1. \A l \in Links : link[l] = << >> /\ Len(link[l]) = 0
  BY DEF Init
<1>2. \A l \in Links : \A c : ~Has(link[l], c) /\ Once(link[l], c) /\ Only(link[l], c)
  BY <1>1 DEF Has, Once, Only
<1>3. Typed
  <2>1. link \in [Links -> Seq(Messages)]
    BY DEF Init
  <2>2. puts \in [Nodes -> Seq(AllKeys)]
    BY DEF Init
  <2>3. /\ script \in Scripts /\ pc \in [Ranks -> Nat \ {0}] /\ asked \in [Ranks -> BOOLEAN]
        /\ \A r \in Ranks : ~asked[r]
        /\ barrier \in [Nodes -> Nat] /\ \A n \in Nodes : reqs[n] = {}
        /\ reqs \in [Nodes -> SUBSET (Ranks \X (Ranks \cup Nodes))]
    BY DEF Init
  <2> QED BY <2>1, <2>2, <2>3 DEF Typed
<1>4. /\ \A e \in Entities : UpLink(e) \in Links /\ DownLink(e) \in Links
      /\ \A r \in Ranks : UpLink(r) \in Links /\ DownLink(r) \in Links
  BY Ends2, ProcessLink
<1>5. LinksInv
  BY <1>2, <1>4 DEF LinksInv, Collective, OfProcess, Requests
<1>6. Raised = {} /\ Released = {}
  BY <1>2, <1>4 DEF Raised, Released
<1>7. Callers = {}
  BY DEF Callers, InCall, Init
<1>8. Done = [r \in Ranks |-> 0]
  <2> SUFFICES ASSUME NEW r \in Ranks PROVE CollectivesBefore(script[r], pc[r]) = 0
    BY DEF Done
  <2>1. pc[r] = 1
    BY DEF Init
  <2>2. {k \in 1 .. Len(script[r]) : k < 1 /\ script[r][k].cmd \in Collectives} = {}
    <3>1. script[r] \in Seq(Calls)
      BY <1>3, ScriptIs
    <3>2. Len(script[r]) \in Nat
      BY <3>1
    <3>3. \A k \in 1 .. Len(script[r]) : ~(k < 1)
      BY <3>2
    <3> QED BY <3>3
  <2> QED BY <2>1, <2>2, FS_EmptySet DEF CollectivesBefore
<1>9. barrier = [n \in Nodes |-> 0]
  BY DEF Init
<1>10. Rounds
  BY <1>6, <1>7, <1>8, <1>9, FirstRound DEF Rounds
<1> QED BY <1>3, <1>5, <1>10 DEF PInv

\* A step that changes nothing.
LEMMA SamePInv == ASSUME PInv, UNCHANGED vars PROVE PInv'
<1>1. UNCHANGED <<script, pc, asked, link, puts, barrier, reqs>>
  BY DEF vars
<1>2. Typed' /\ Typed
  BY <1>1 DEF PInv, Typed
<1>3. LinksInv'
  BY <1>1 DEF PInv, LinksInv, Collective, OfProcess, Requests, InCall
<1>4. Raised' = Raised /\ Released' = Released /\ Callers' = Callers /\ Done' = Done
  BY <1>1 DEF Raised, Released, Callers, InCall, Done
<1>5. Rounds'
  BY <1>1, <1>4 DEF PInv, Rounds
<1> QED BY <1>2, <1>3, <1>5 DEF PInv

\* The invariant of the tree: collective calls come in rounds.
THEOREM TreeInvariant == Spec => []PInv
<1>1. Init => PInv
  BY FirstPInv
<1>2. PInv /\ [Next]_vars => PInv'
  <2> SUFFICES ASSUME PInv, [Next]_vars PROVE PInv'
    OBVIOUS
  <2>1. ASSUME NEW r \in Ranks, Ask(r) PROVE PInv'
    BY <2>1, AskKeeps
  <2>2. ASSUME NEW r \in Ranks, Answered(r) PROVE PInv'
    BY <2>2, AnsweredKeeps
  <2>3. ASSUME NEW n \in Nodes, NEW s \in Nodes \cup Ranks, mtpmi_processops(n, s) PROVE PInv'
    BY <2>3, NodeKeeps
  <2>4. CASE UNCHANGED vars
    BY <2>4, SamePInv
  <2> QED BY <2>1, <2>2, <2>3, <2>4 DEF Next
<1> QED BY <1>1, <1>2, PTL DEF Spec

-----------------------------------------------------------------------------
(* From the number of collective calls to that of barriers. *)

\* A later call has no fewer collective calls before it, and more than an earlier
\* collective call.
LEMMA CallsGrow ==
    ASSUME NEW calls \in Seq(Calls), NEW i \in Nat \ {0}, NEW j \in Nat \ {0}
    PROVE  /\ i <= j => CollectivesBefore(calls, i) <= CollectivesBefore(calls, j)
           /\ i < j /\ i <= Len(calls) /\ calls[i].cmd \in Collectives =>
                 CollectivesBefore(calls, i) < CollectivesBefore(calls, j)
<1>1. ASSUME NEW k \in Nat \ {0}, k <= j PROVE CollectivesBefore(calls, k) <= CollectivesBefore(calls, j)
  <2> DEFINE S(x) == {y \in 1 .. Len(calls) : y < x /\ calls[y].cmd \in Collectives}
  <2>1. IsFiniteSet(S(j))
    <3>1. Len(calls) \in Nat
      OBVIOUS
    <3>2. IsFiniteSet(1 .. Len(calls))
      BY <3>1, FS_Interval
    <3> QED BY <3>2, FS_Subset
  <2>2. S(k) \subseteq S(j)
    <3>1. Len(calls) \in Nat
      OBVIOUS
    <3> QED BY <1>1, <3>1
  <2>3. \A x : CollectivesBefore(calls, x) = Cardinality(S(x))
    BY DEF CollectivesBefore
  <2> HIDE DEF S
  <2> QED BY <2>1, <2>2, <2>3, FS_Subset
<1>2. i < j => i + 1 \in Nat \ {0} /\ i + 1 <= j
  OBVIOUS
<1>3. i \in Nat \ {0} /\ CollectivesBefore(calls, i) \in Nat /\ CollectivesBefore(calls, j) \in Nat
  BY OneCallOn
<1>4. i <= Len(calls) /\ calls[i].cmd \in Collectives =>
         CollectivesBefore(calls, i + 1) = CollectivesBefore(calls, i) + 1
  BY OneCallOn
<1> QED BY <1>1, <1>2, <1>3, <1>4

\* Every smaller number is that of the collective calls before some collective call.
LEMMA CallsReach ==
    ASSUME NEW calls \in Seq(Calls), NEW e \in Nat \ {0}, NEW k \in Nat,
           k < CollectivesBefore(calls, e)
    PROVE  \E j \in 1 .. Len(calls) :
              j < e /\ calls[j].cmd \in Collectives /\ CollectivesBefore(calls, j) = k
<1> DEFINE Found(x) == \E j \in 1 .. Len(calls) :
              j < x + 1 /\ calls[j].cmd \in Collectives /\ CollectivesBefore(calls, j) = k
           S == {x \in Nat : k < CollectivesBefore(calls, x + 1) => Found(x)}
<1>1. Len(calls) \in Nat
  OBVIOUS
<1>2. 0 \in S
  <2>1. {y \in 1 .. Len(calls) : y < 0 + 1 /\ calls[y].cmd \in Collectives} = {}
    BY <1>1
  <2>2. CollectivesBefore(calls, 0 + 1) = 0
    BY <2>1, FS_EmptySet DEF CollectivesBefore
  <2>3. ~(k < CollectivesBefore(calls, 0 + 1))
    BY <2>2
  <2> QED BY <2>3
<1>3. ASSUME NEW x \in Nat, x \in S PROVE x + 1 \in S
  <2> DEFINE i == x + 1
  <2>1. i \in Nat \ {0} /\ i + 1 \in Nat \ {0}
    OBVIOUS
  <2>2. k < CollectivesBefore(calls, i) => Found(x)
    BY <1>3
  <2>3. Found(x) => Found(i)
    BY <1>1
  <2> SUFFICES ASSUME k < CollectivesBefore(calls, i + 1), ~(k < CollectivesBefore(calls, i)) PROVE Found(i)
    BY <2>2, <2>3
  <2> HIDE DEF i
  <2>4. CollectivesBefore(calls, i) \in Nat
    BY <2>1, OneCallOn
  <2>5. i <= Len(calls)
    <3> SUFFICES ASSUME ~(i <= Len(calls)) PROVE FALSE
      OBVIOUS
    <3>1. \A y \in 1 .. Len(calls) : y < i + 1 <=> y < i
      BY <1>1, <2>1
    <3>2. {y \in 1 .. Len(calls) : y < i + 1 /\ calls[y].cmd \in Collectives}
             = {y \in 1 .. Len(calls) : y < i /\ calls[y].cmd \in Collectives}
      BY <3>1
    <3>3. CollectivesBefore(calls, i + 1) = CollectivesBefore(calls, i)
      BY <3>2 DEF CollectivesBefore
    <3> QED BY <3>3
  <2>6. CollectivesBefore(calls, i + 1) =
           CollectivesBefore(calls, i) + (IF calls[i].cmd \in Collectives THEN 1 ELSE 0)
    BY <2>1, <2>5, OneCallOn
  <2>7. calls[i].cmd \in Collectives /\ CollectivesBefore(calls, i) = k
    BY <2>4, <2>6
  <2>8. i \in 1 .. Len(calls) /\ i < i + 1
    BY <1>1, <2>1, <2>5
  <2> QED BY <2>7, <2>8
<1>4. Nat \subseteq S
  <2> HIDE DEF S
  <2> QED BY ONLY <1>2, <1>3, NatSetInduction
<1>5. e - 1 \in Nat /\ (e - 1) + 1 = e
  OBVIOUS
<1> QED BY <1>4, <1>5

\* If the collective calls of r before its i-th are no more than those of q before its j-th, the
\* same is true of the barriers: both make the same collective calls in the same order.
LEMMA BarriersMatch ==
    ASSUME Typed, NEW r \in Ranks, NEW q \in Ranks, NEW i \in Nat \ {0}, NEW j \in Nat \ {0},
           CollectivesBefore(script[r], i) <= CollectivesBefore(script[q], j)
    PROVE  Barriers(r, i) <= Barriers(q, j)
<1> DEFINE C == script[r]
           D == script[q]
           S == {x \in 1 .. Len(C) : x < i /\ C[x].cmd = "barrier_in"}
           T == {y \in 1 .. Len(D) : y < j /\ D[y].cmd = "barrier_in"}
           f == [x \in S |-> CHOOSE y \in T : CollectivesBefore(D, y) = CollectivesBefore(C, x)]
<1>1. C \in Seq(Calls) /\ D \in Seq(Calls) /\ script \in Scripts
  BY ScriptIs DEF Typed
<1>2. Len(C) \in Nat /\ Len(D) \in Nat /\ "barrier_in" \in Collectives
  BY <1>1 DEF Collectives
<1>3. Barriers(r, i) = Cardinality(S) /\ Barriers(q, j) = Cardinality(T)
  BY DEF Barriers
<1>4. \A x \in 1 .. Len(C), y \in 1 .. Len(D) :
         C[x].cmd \in Collectives /\ D[y].cmd \in Collectives
         /\ CollectivesBefore(C, x) = CollectivesBefore(D, y) => C[x].cmd = D[y].cmd
  BY <1>1, CollectivesAssumption
<1> HIDE DEF C, D
<1>5. ASSUME NEW x \in S PROVE \E y \in T : CollectivesBefore(D, y) = CollectivesBefore(C, x)
  <2>1. x \in 1 .. Len(C) /\ x < i /\ C[x].cmd = "barrier_in"
    OBVIOUS
  <2>2. x \in Nat \ {0} /\ x <= Len(C) /\ C[x].cmd \in Collectives
    BY <1>2, <2>1
  <2>3. CollectivesBefore(C, x) \in Nat /\ CollectivesBefore(C, x) < CollectivesBefore(C, i)
    BY <1>1, <2>1, <2>2, CallsGrow, OneCallOn
  <2>4. CollectivesBefore(C, i) \in Nat /\ CollectivesBefore(D, j) \in Nat
    BY <1>1, OneCallOn
  <2>5. CollectivesBefore(C, x) < CollectivesBefore(D, j)
    BY <2>3, <2>4 DEF C, D
  <2>6. PICK y \in 1 .. Len(D) : /\ y < j /\ D[y].cmd \in Collectives
                                 /\ CollectivesBefore(D, y) = CollectivesBefore(C, x)
    BY <1>1, <2>3, <2>5, CallsReach
  <2>7. D[y].cmd = "barrier_in"
    BY <1>4, <2>1, <2>2, <2>6
  <2> QED BY <2>6, <2>7
<1>6. ASSUME NEW x \in S, NEW z \in S, CollectivesBefore(C, x) = CollectivesBefore(C, z) PROVE x = z
  <2>1. /\ x \in Nat \ {0} /\ x <= Len(C) /\ C[x].cmd \in Collectives
        /\ z \in Nat \ {0} /\ z <= Len(C) /\ C[z].cmd \in Collectives
    BY <1>2
  <2>2. CollectivesBefore(C, x) \in Nat /\ CollectivesBefore(C, z) \in Nat
    BY <1>1, <2>1, OneCallOn
  <2>3. ~(x < z) /\ ~(z < x)
    BY <1>1, <1>6, <2>1, <2>2, CallsGrow
  <2> QED BY <2>1, <2>3
<1>7. IsFiniteSet(T)
  <2>1. IsFiniteSet(1 .. Len(D))
    BY <1>2, FS_Interval
  <2> QED BY <2>1, FS_Subset
<1> HIDE DEF S, T
<1>8. \A x \in S : f[x] \in T /\ CollectivesBefore(D, f[x]) = CollectivesBefore(C, x)
  BY <1>5
<1>9. f \in [S -> T]
  BY <1>8
<1> HIDE DEF f
<1>10. \A x, z \in S : f[x] = f[z] => x = z
  BY <1>6, <1>8
<1>11. f \in Injection(S, T)
  BY <1>9, <1>10 DEF Injection, IsInjective
<1> QED BY <1>3, <1>7, <1>11, FS_Injection

\* Nobody leaves a barrier of PMI before every process has entered it, in whatever tree.
THEOREM BarriersHold == Spec => []BarrierHolds
<1>1. PInv => BarrierHolds
  <2> SUFFICES ASSUME PInv, NEW r \in Ranks, NEW q \in Ranks PROVE Left(r) <= Entered(q)
    BY DEF BarrierHolds
  <2>1. Typed /\ Rounds
    BY DEF PInv
  <2>2. PICK R : RoundsOf(R, Raised, Released, Callers, Done, barrier)
    BY <2>1 DEF Rounds
  <2>3. Done[r] <= Done[q] + (IF q \in Callers THEN 1 ELSE 0)
    BY <2>2, RoundsHold
  <2>4. /\ script[q] \in Seq(Calls) /\ pc[q] \in Nat \ {0} /\ pc[r] \in Nat \ {0}
        /\ asked[q] \in BOOLEAN
        /\ Done[r] = CollectivesBefore(script[r], pc[r])
        /\ Done[q] = CollectivesBefore(script[q], pc[q])
    BY <2>1, ScriptIs
  <2>5. asked[q] => pc[q] <= Len(script[q])
    BY <2>1 DEF Typed
  <2>6. PICK e : e = IF asked[q] THEN pc[q] + 1 ELSE pc[q]
    OBVIOUS
  <2>7. e \in Nat \ {0}
    BY <2>4, <2>6
  <2>8. CollectivesBefore(script[q], e) = Done[q] + (IF q \in Callers THEN 1 ELSE 0)
    <3>1. CollectivesBefore(script[q], pc[q]) \in Nat
      BY <2>4, OneCallOn
    <3>2. asked[q] => CollectivesBefore(script[q], pc[q] + 1) =
             CollectivesBefore(script[q], pc[q]) + (IF script[q][pc[q]].cmd \in Collectives THEN 1 ELSE 0)
      BY <2>4, <2>5, OneCallOn
    <3>3. q \in Callers <=> asked[q] /\ script[q][pc[q]].cmd \in Collectives
      BY DEF Callers, InCall
    <3> QED BY <2>4, <2>6, <3>1, <3>2, <3>3
  <2>9. CollectivesBefore(script[r], pc[r]) <= CollectivesBefore(script[q], e)
    BY <2>3, <2>4, <2>8
  <2>10. Barriers(r, pc[r]) <= Barriers(q, e)
    BY <2>1, <2>4, <2>7, <2>9, BarriersMatch
  <2> QED BY <2>6, <2>10 DEF Left, Entered
<1> QED BY <1>1, TreeInvariant, PTL
-----------------------------------------------------------------------------
(* mpirun_rsh and its mpispawns. *)

\* Launcher starts as JobLife does.
LEMMA LifeInit == JobInit => Life!Init
  BY DEF JobInit, Life!Init

\* The steps of mpirun_rsh that change the job's state are steps of JobLife.
LEMMA MpirunLife == Mpirun => [Life!Next]_(Life!vars)
  <1> SUFFICES ASSUME Mpirun PROVE [Life!Next]_(Life!vars)
    OBVIOUS
  <1> USE DEF Life!Next, Life!vars, Life!Launch, Life!Run, Life!Exit, Life!Fail
  <1>1. CASE Main_launch
    BY <1>1 DEF Main_launch, m_state_transition
  <1>2. CASE start_wfe_thread \/ Main_wait \/ stop_wfe_thread \/ Main_return \/ Wfe_cancelled
             \/ Signal
    BY <1>2 DEF start_wfe_thread, Main_wait, stop_wfe_thread, Main_return, Wfe_cancelled, Signal
  <1>3. CASE mpispawn_checkin
    <2>1. m_state_fail \/ UNCHANGED <<m_state, m_exit_code>>
      BY <1>3 DEF mpispawn_checkin
    <2> QED BY <2>1 DEF m_state_fail, m_state_exit
  <1>4. CASE Send_addresses
    BY <1>4 DEF Send_addresses, m_state_fail, m_state_exit
  <1>5. CASE Wfe_transition
    BY <1>5 DEF Wfe_transition, m_state_transition, m_state_fail, m_state_exit
  <1>6. CASE process_mpispawn_connection
    BY <1>6 DEF process_mpispawn_connection, m_state_fail, m_state_exit
  <1>7. CASE Reaped_all
    BY <1>7 DEF Reaped_all, m_state_exit
  <1>8. CASE cleanup_handler \/ alarm_handler
    BY <1>8 DEF cleanup_handler, alarm_handler, m_state_fail, m_state_exit
  <1>9. ASSUME NEW s \in Spawns, spawn_fast(s) \/ Reap_mpispawn(s)
        PROVE  [Life!Next]_(Life!vars)
    BY <1>9 DEF spawn_fast, mpirun, Reap_mpispawn, m_state_fail, m_state_exit
  <1> QED
    BY <1>1, <1>2, <1>3, <1>4, <1>5, <1>6, <1>7, <1>8, <1>9 DEF Mpirun

\* The mpispawns and the processes do not change it.
LEMMA OthersLife ==
    (Process \/ \E s \in Spawns : Mpispawn(s)) => UNCHANGED <<m_state, m_exit_code>>
  <1> USE DEF mpirun, SameMpirun
  <1>1. Process => UNCHANGED <<m_state, m_exit_code>>
    BY DEF Process, PMI_Finalize, PMI_Init, End
  <1>2. ASSUME NEW s \in Spawns, Mpispawn(s)
        PROVE  UNCHANGED <<m_state, m_exit_code>>
    <2>1. CASE Ssh_fails(s) \/ Check_in(s) \/ Spawned(s) \/ Accept_processes(s)
               \/ mpispawn_tree_init(s) \/ Read_error(s) \/ child_handler(s) \/ No_zombie(s)
      BY <2>1 DEF Ssh_fails, Check_in, Spawned, Accept_processes, mpispawn_tree_init, Read_error,
                  child_handler, No_zombie
    <2>2. ASSUME NEW p \in Procs, Fork(s, p) \/ Store_pid(s, p) \/ Reap_process(s, p)
          PROVE  UNCHANGED <<m_state, m_exit_code>>
      BY <2>2 DEF Fork, Store_pid, Reap_process
    <2> QED BY <1>2, <2>1, <2>2 DEF Mpispawn
  <1> QED BY <1>1, <1>2

\* Every step of Launcher is a step of JobLife or leaves the job's state alone.
LEMMA LifeStep == [JobNext]_jobVars => [Life!Next]_(Life!vars)
  <1>1. JobNext => [Life!Next]_(Life!vars)
    BY MpirunLife, OthersLife DEF JobNext, Life!vars
  <1>2. UNCHANGED jobVars => UNCHANGED Life!vars
    BY DEF jobVars, mpirun, Life!vars
  <1> QED BY <1>1, <1>2

\* An ended job stays ended, and a recorded failure is not forgotten (m_state.c).
THEOREM LauncherLife == JobSpec => JobLifeSpec
  BY LifeInit, LifeStep, PTL DEF JobSpec, JobLifeSpec, Life!Spec
-----------------------------------------------------------------------------
(* A killed process makes the job fail. *)

\* No process ends with another code, none ends before its pid is stored or before all have
\* finalized.
Benign == faults \cap {"nonzero", "unstored", "early"} = {}

\* The values of what the invariant is about.
Shape ==
    /\ m_state \in {"M_INITIALIZE", "M_LAUNCH", "M_RUN", "M_EXIT"}
    /\ m_exit_code \in {"success", "failure"}
    /\ sp \in [Spawns -> {"none", "up", "spawn", "accept", "tree", "ops", "after", "exited"}]
    /\ ended \in [Spawns -> {"no", "zero", "failure"}]
    /\ waited \in [Spawns -> BOOLEAN] /\ hand \in [Spawns -> BOOLEAN]
    /\ sigc \in [Spawns -> BOOLEAN]
    /\ proc \in [Procs -> {"none", "live", "done"} \cup Ends]
    /\ stored \in [Procs -> BOOLEAN] /\ reaped \in [Procs -> BOOLEAN]

\* An mpispawn has an exit code when it has ended, and only then is it reaped; what
\* mpirun_rsh has reaped with a failure it has recorded.
SpawnsInv ==
    \A s \in Spawns :
        /\ sp[s] = "exited" <=> ended[s] # "no"
        /\ waited[s] => sp[s] = "exited"
        /\ waited[s] /\ ended[s] = "failure" => m_exit_code = "failure"

\* A signal comes from an mpispawn or a process that has ended.
SignalsInv ==
    /\ chld \/ sig = "reap" => \E s \in Spawns : sp[s] = "exited"
    /\ \A s \in Spawns : sigc[s] \/ hand[s] => \E p \in LocalProcs(s) : proc[p] \in Ends

\* Main leaves its waits when the job has ended.
MainInv ==
    /\ main \in {"stop_wfe", "join_wfe", "returned"} => m_state = "M_EXIT"
    /\ main = "start" => m_state \in {"M_INITIALIZE", "M_EXIT"}
    /\ main # "start" => m_state # "M_INITIALIZE"

\* All processes have finalized.
Final == \A s \in Spawns : sp[s] \in {"after", "exited"}

\* An mpispawn fails when a process of it was killed; it exits with zero, and a process ends
\* well, only when all have finalized.
ProcessesInv ==
    /\ \A p \in Procs :
          /\ proc[p] \in Ends => stored[p] /\ proc[p] # "nonzero"
          /\ proc[p] = "killed" /\ reaped[p] => ended[NodeOf[p]] = "failure"
          /\ proc[p] \in {"done", "ok"} => Final
          /\ reaped[p] => proc[p] \in Ends
    /\ \A s \in Spawns : ended[s] = "zero" => Final

\* A job that ends without a failure has reaped all of its mpispawns.
SuccessInv == m_state = "M_EXIT" /\ m_exit_code = "success" => \A s \in Spawns : waited[s]

IInv ==
    /\ Shape /\ SpawnsInv /\ SignalsInv /\ MainInv
    /\ Benign => ProcessesInv /\ SuccessInv
-----------------------------------------------------------------------------
(* The steps of mpirun_rsh. *)

\* What a step leaves alone when it is none of an mpispawn's or of a process'.
Elsewhere == <<sp, ended, waited, hand, sigc, proc, stored, reaped, faults>>

\* The state of the job that the steps below change as they may.
JobStep ==
    /\ m_exit_code' \in {m_exit_code, "failure"}
    /\ m_state' \in {"M_INITIALIZE", "M_LAUNCH", "M_RUN", "M_EXIT"}
    /\ m_state = "M_EXIT" => m_state' = "M_EXIT"
    /\ m_state' = "M_EXIT" /\ m_exit_code' = "success" => m_state = "M_EXIT"
    /\ chld' \/ sig' = "reap" => chld \/ sig = "reap"

\* A step that only changes the job's state, and forgets no end of the job, keeps the
\* invariant if it keeps its part about main.
LEMMA JobStepKeeps ==
    ASSUME IInv, JobStep, MainInv', UNCHANGED Elsewhere
    PROVE  IInv'
  <1> USE DEF IInv, Elsewhere, JobStep
  <1>1. Shape'
    BY DEF Shape
  <1>2. SpawnsInv' /\ SignalsInv'
    BY DEF SpawnsInv, SignalsInv, LocalProcs
  <1>3. Benign' => Benign
    BY DEF Benign
  <1>4. ProcessesInv => ProcessesInv'
    BY DEF ProcessesInv, Final
  <1>5. SuccessInv => SuccessInv'
    BY DEF SuccessInv, Shape
  <1> QED BY <1>1, <1>2, <1>3, <1>4, <1>5

\* The signal thread finds nothing left to reap: when the job ends by this without a failure,
\* every mpispawn has ended with zero, hence all have been forked.
LEMMA ReapedAllKeeps ==
    ASSUME IInv, Reaped_all, UNCHANGED faults
    PROVE  IInv'
  <1>1. /\ UNCHANGED <<m_exit_code, main, chld, Elsewhere>>
        /\ sig = "reap" /\ sig' = "wait"
        /\ m_state' = m_state \/ (m_state' = "M_EXIT" /\ \A s \in Forked : waited[s])
    BY DEF Reaped_all, Elsewhere, mpispawn, processes, m_state_exit
  <1>2. MainInv'
    BY <1>1 DEF IInv, MainInv
  <1>3. CASE m_state' = m_state
    BY <1>1, <1>2, <1>3, JobStepKeeps DEF JobStep, IInv, Shape
  <1>4. CASE m_state' = "M_EXIT" /\ \A s \in Forked : waited[s]
    <2>1. Shape' /\ SpawnsInv' /\ SignalsInv'
      BY <1>1, <1>4 DEF IInv, Elsewhere, Shape, SpawnsInv, SignalsInv, LocalProcs
    <2>2. Benign' => Benign /\ ProcessesInv'
      BY <1>1 DEF IInv, Elsewhere, Benign, ProcessesInv, Final
    <2>3. ASSUME Benign, m_exit_code = "success" PROVE \A s \in Spawns : waited[s]
      <3>1. PICK s \in Spawns : sp[s] = "exited"
        BY <1>1 DEF IInv, SignalsInv
      <3>2. waited[s]
        BY <1>4, <3>1 DEF Forked
      <3>3. ended[s] = "zero"
        BY <2>3, <3>1, <3>2 DEF IInv, SpawnsInv, Shape
      <3>4. Final
        BY <2>3, <3>3 DEF IInv, ProcessesInv
      <3> QED BY <1>4, <3>4 DEF Final, Forked
    <2>4. Benign' => SuccessInv'
      BY <1>1, <2>2, <2>3 DEF SuccessInv, Elsewhere
    <2> QED BY <1>2, <2>1, <2>2, <2>4 DEF IInv
  <1> QED BY <1>1, <1>3, <1>4

\* An mpispawn is forked: none is before all are, if one has ended with zero.
LEMMA SpawnFastKeeps ==
    ASSUME IInv, NEW s \in Spawns, spawn_fast(s), UNCHANGED faults
    PROVE  IInv'
  <1>1. /\ UNCHANGED <<mpirun, hand, sigc, ended, waited, proc, stored, reaped>>
        /\ sp[s] = "none" /\ sp' = [sp EXCEPT ![s] = "up"]
    BY DEF spawn_fast, processes
  <1>2. Shape' /\ SpawnsInv' /\ SignalsInv' /\ MainInv'
    BY <1>1 DEF IInv, mpirun, Shape, SpawnsInv, SignalsInv, MainInv, LocalProcs
  <1>3. Benign' => Benign
    BY DEF Benign
  <1>4. ProcessesInv => ProcessesInv'
    BY <1>1 DEF ProcessesInv, Final
  <1>5. SuccessInv => SuccessInv'
    BY <1>1 DEF SuccessInv, mpirun
  <1> QED BY <1>2, <1>3, <1>4, <1>5 DEF IInv

\* The signal thread reaps an mpispawn, and records its failure.
LEMMA ReapMpispawnKeeps ==
    ASSUME IInv, NEW s \in Spawns, Reap_mpispawn(s), UNCHANGED faults
    PROVE  IInv'
  <1>1. /\ UNCHANGED <<main, chld, sig, sp, hand, sigc, ended, proc, stored, reaped>>
        /\ sp[s] = "exited" /\ waited' = [waited EXCEPT ![s] = TRUE]
        /\ \/ ended[s] = "failure" /\ m_exit_code' = "failure" /\ m_state' = "M_EXIT"
           \/ ended[s] # "failure" /\ m_exit_code' = m_exit_code /\ m_state' = m_state
    BY DEF Reap_mpispawn, processes, Bad_status, m_state_fail, m_state_exit
  <1>2. Shape' /\ SignalsInv' /\ MainInv'
    BY <1>1 DEF IInv, Shape, SignalsInv, MainInv, LocalProcs
  <1>3. SpawnsInv'
    BY <1>1 DEF IInv, Shape, SpawnsInv
  <1>4. Benign' => Benign
    BY DEF Benign
  <1>5. ProcessesInv => ProcessesInv'
    BY <1>1 DEF ProcessesInv, Final
  <1>6. SuccessInv => SuccessInv'
    BY <1>1 DEF IInv, Shape, SuccessInv
  <1> QED BY <1>2, <1>3, <1>4, <1>5, <1>6 DEF IInv

\* The main, wfe and signal threads of mpirun_rsh keep the invariant.
LEMMA MpirunKeeps ==
    ASSUME IInv, Mpirun, UNCHANGED faults
    PROVE  IInv'
  <1>0. Shape /\ MainInv
    BY DEF IInv
  <1> USE DEF Elsewhere, JobStep, MainInv, mpispawn, processes, Shape
  <1>1. CASE Main_launch
    BY <1>0, <1>1, JobStepKeeps DEF Main_launch, m_state_transition
  <1>2. CASE start_wfe_thread \/ stop_wfe_thread \/ Main_return
    BY <1>0, <1>2, JobStepKeeps DEF start_wfe_thread, stop_wfe_thread, Main_return
  <1>3. CASE Main_wait
    BY <1>0, <1>3, JobStepKeeps DEF Main_wait
  <1>4. CASE Wfe_cancelled
    BY <1>0, <1>4, JobStepKeeps DEF Wfe_cancelled
  <1>5. CASE mpispawn_checkin
    BY <1>0, <1>5, JobStepKeeps DEF mpispawn_checkin, m_state_fail, m_state_exit
  <1>6. CASE Send_addresses
    BY <1>0, <1>6, JobStepKeeps DEF Send_addresses, m_state_fail, m_state_exit
  <1>7. CASE Wfe_transition
    BY <1>0, <1>7, JobStepKeeps DEF Wfe_transition, m_state_transition, m_state_fail, m_state_exit
  <1>8. CASE process_mpispawn_connection
    BY <1>0, <1>8, JobStepKeeps DEF process_mpispawn_connection, m_state_fail, m_state_exit
  <1>9. CASE Signal
    BY <1>0, <1>9, JobStepKeeps DEF Signal
  <1>10. CASE cleanup_handler \/ alarm_handler
    BY <1>0, <1>10, JobStepKeeps DEF cleanup_handler, alarm_handler, m_state_fail, m_state_exit
  <1>11. CASE Reaped_all
    BY <1>11, ReapedAllKeeps
  <1>12. ASSUME NEW s \in Spawns, spawn_fast(s) PROVE IInv'
    BY <1>12, SpawnFastKeeps
  <1>13. ASSUME NEW s \in Spawns, Reap_mpispawn(s) PROVE IInv'
    BY <1>13, ReapMpispawnKeeps
  <1> QED
    BY <1>1, <1>2, <1>3, <1>4, <1>5, <1>6, <1>7, <1>8, <1>9, <1>10, <1>11, <1>12, <1>13
    DEF Mpirun
-----------------------------------------------------------------------------
(* The steps of an mpispawn. *)

\* What no step of an mpispawn changes.
JobAlone == UNCHANGED <<m_state, m_exit_code, main, sig, waited, faults>>

\* An mpispawn's main thread goes on to another of its states before the end.
MoveStep(s, to) ==
    /\ JobAlone /\ UNCHANGED <<chld, ended, hand, sigc, proc, stored, reaped>>
    /\ sp[s] \notin {"after", "exited"} /\ to \in {"spawn", "accept", "tree", "ops"}
    /\ sp' = [sp EXCEPT ![s] = to]

LEMMA MoveKeeps ==
    ASSUME IInv, NEW s \in Spawns, NEW to, MoveStep(s, to)
    PROVE  IInv'
  <1> USE DEF MoveStep, JobAlone
  <1>1. Shape' /\ SpawnsInv' /\ SignalsInv' /\ MainInv'
    BY DEF IInv, Shape, SpawnsInv, SignalsInv, MainInv, LocalProcs
  <1>2. Benign' => Benign
    BY DEF Benign
  <1>3. ProcessesInv => ProcessesInv'
    BY DEF ProcessesInv, Final
  <1>4. SuccessInv => SuccessInv'
    BY DEF SuccessInv
  <1> QED BY <1>1, <1>2, <1>3, <1>4 DEF IInv

\* An mpispawn ends, having reaped a process perhaps: with zero only when all have finalized,
\* and with a failure if it has reaped one that was killed.
ExitStep(s, code) ==
    /\ JobAlone /\ UNCHANGED <<sigc, proc, stored>>
    /\ sp[s] \notin {"none", "exited"} /\ code \in {"zero", "failure"} /\ Exit(s, code)
    /\ hand' \in {hand, [hand EXCEPT ![s] = FALSE]}
    /\ \/ reaped' = reaped
       \/ \E p \in LocalProcs(s) :
             /\ proc[p] \in Ends /\ (proc[p] = "killed" => code = "failure")
             /\ reaped' = [reaped EXCEPT ![p] = TRUE]
    /\ Benign /\ code = "zero" => Final

LEMMA ExitKeeps ==
    ASSUME IInv, NEW s \in Spawns, NEW code, ExitStep(s, code)
    PROVE  IInv'
  <1> USE DEF ExitStep, JobAlone, Exit
  <1>1. Shape'
    BY DEF IInv, Shape
  <1>2. SpawnsInv' /\ MainInv'
    BY DEF IInv, Shape, SpawnsInv, MainInv
  <1>3. SignalsInv'
    <2>1. sp'[s] = "exited"
      BY DEF IInv, Shape
    <2>2. \A t \in Spawns : hand'[t] => hand[t]
      BY DEF IInv, Shape
    <2> QED BY <2>1, <2>2 DEF IInv, SignalsInv, LocalProcs
  <1>4. Benign' => Benign
    BY DEF Benign
  <1>5. ASSUME Benign PROVE ProcessesInv'
    <2>1. Final => Final'
      BY DEF IInv, Shape, Final
    <2>2. \A t \in Spawns : ended'[t] = "zero" => Final
      BY <1>5 DEF IInv, Shape, ProcessesInv
    <2>3. ASSUME NEW p \in Procs, proc[p] = "killed", reaped'[p]
          PROVE  ended'[NodeOf[p]] = "failure"
      <3>1. CASE reaped[p]
        <4>1. ended[NodeOf[p]] = "failure"
          BY <1>5, <2>3, <3>1 DEF IInv, ProcessesInv
        <4>2. NodeOf[p] \in Spawns
          BY LauncherAssumption
        <4>3. sp[NodeOf[p]] = "exited"
          BY <4>1, <4>2 DEF IInv, SpawnsInv
        <4> QED BY <4>1, <4>2, <4>3 DEF IInv, Shape
      <3>2. CASE ~reaped[p]
        <4>1. p \in LocalProcs(s) /\ code = "failure"
          BY <2>3, <3>2 DEF IInv, Shape
        <4> QED BY <4>1 DEF LocalProcs, IInv, Shape
      <3> QED BY <3>1, <3>2
    <2>4. ASSUME NEW p \in Procs, reaped'[p] PROVE proc[p] \in Ends
      BY <1>5, <2>4 DEF IInv, Shape, ProcessesInv
    <2> QED BY <1>5, <2>1, <2>2, <2>3, <2>4 DEF IInv, ProcessesInv
  <1>6. SuccessInv => SuccessInv'
    BY DEF SuccessInv
  <1> QED BY <1>1, <1>2, <1>3, <1>4, <1>5, <1>6 DEF IInv

\* Signals, forks and what an mpispawn writes of a process: the mpispawns stay where they are.
QuietStep ==
    /\ JobAlone /\ UNCHANGED <<chld, sp, ended>>
    /\ Shape'
    /\ \A p \in Procs : proc'[p] = proc[p] \/ (proc[p] = "none" /\ proc'[p] = "live")
    /\ \A p \in Procs : stored[p] => stored'[p]
    /\ \A s \in Spawns : sigc'[s] \/ hand'[s] => sigc[s] \/ hand[s]
    /\ Benign => \A p \in Procs : reaped'[p] => reaped[p] \/ proc[p] = "ok"

LEMMA QuietKeeps ==
    ASSUME IInv, QuietStep
    PROVE  IInv'
  <1> USE DEF QuietStep, JobAlone
  <1>1. Shape' /\ SpawnsInv' /\ MainInv'
    BY DEF IInv, SpawnsInv, MainInv
  <1>2. SignalsInv'
    BY DEF IInv, SignalsInv, LocalProcs, Ends
  <1>3. Benign' => Benign
    BY DEF Benign
  <1>4. Benign => ProcessesInv'
    BY DEF IInv, ProcessesInv, Final, Ends
  <1>5. SuccessInv => SuccessInv'
    BY DEF SuccessInv
  <1> QED BY <1>1, <1>2, <1>3, <1>4, <1>5 DEF IInv

\* waitpid finds no zombie: an mpispawn that has none left exits with zero.  It was called for a
\* process that has ended, and so has reaped one that ended well.
LEMMA NoZombieKeeps ==
    ASSUME IInv, NEW s \in Spawns, No_zombie(s), UNCHANGED faults
    PROVE  IInv'
  <1>1. /\ JobAlone /\ UNCHANGED <<sigc, proc, stored, reaped>>
        /\ sp[s] \notin {"none", "exited"} /\ hand[s]
        /\ hand' = [hand EXCEPT ![s] = FALSE]
        /\ \A p \in LocalProcs(s) : ~Zombie(p)
        /\ Exit(s, "zero") \/ UNCHANGED <<sp, ended, chld>>
    BY DEF No_zombie, JobAlone, SameMpirun, processes, Alive
  <1>2. ASSUME Benign PROVE Final
    <2>1. PICK p \in LocalProcs(s) : proc[p] \in Ends
      BY <1>1 DEF IInv, SignalsInv
    <2>2. p \in Procs /\ NodeOf[p] = s
      BY DEF LocalProcs
    <2>3. reaped[p]
      BY <1>1, <2>1 DEF Zombie
    <2>4. proc[p] # "killed"
      BY <1>1, <1>2, <2>2, <2>3 DEF IInv, ProcessesInv, SpawnsInv
    <2> QED BY <1>2, <2>1, <2>2, <2>4 DEF IInv, ProcessesInv, Ends
  <1>3. CASE Exit(s, "zero")
    <2>1. ExitStep(s, "zero")
      BY <1>1, <1>2, <1>3 DEF ExitStep
    <2> QED BY <2>1, ExitKeeps
  <1>4. CASE UNCHANGED <<sp, ended, chld>>
    <2>1. Shape'
      BY <1>1, <1>4 DEF IInv, Shape, JobAlone
    <2>2. QuietStep
      BY <1>1, <1>4, <2>1 DEF QuietStep, IInv, Shape
    <2> QED BY <2>2, QuietKeeps
  <1> QED BY <1>1, <1>3, <1>4

\* An mpispawn reaps a process: it aborts if the process was killed.
LEMMA ReapProcessKeeps ==
    ASSUME IInv, NEW s \in Spawns, NEW p \in Procs, Reap_process(s, p), UNCHANGED faults
    PROVE  IInv'
  <1>1. /\ JobAlone /\ UNCHANGED <<sigc, hand, proc, stored>>
        /\ sp[s] \notin {"none", "exited"}
        /\ p \in LocalProcs(s) /\ proc[p] \in Ends
        /\ reaped' = [reaped EXCEPT ![p] = TRUE]
        /\ \/ proc[p] = "ok" /\ (Exit(s, "zero") \/ UNCHANGED <<sp, ended, chld>>)
           \/ proc[p] = "nonzero" /\ UNCHANGED <<sp, ended, chld>>
           \/ proc[p] = "killed" /\ stored[p] /\ Exit(s, "failure")
           \/ proc[p] = "killed" /\ ~stored[p] /\ UNCHANGED <<sp, ended, chld>>
    BY DEF Reap_process, JobAlone, SameMpirun, Alive, Zombie, Reap_ok, Reap_nonzero, Reap_killed,
           mpispawn_abort
  <1>2. Benign => stored[p] /\ proc[p] # "nonzero" /\ (proc[p] = "ok" => Final)
    BY <1>1 DEF IInv, ProcessesInv, Ends
  <1>3. CASE proc[p] = "ok" /\ Exit(s, "zero")
    <2>1. ExitStep(s, "zero")
      BY <1>1, <1>2, <1>3 DEF ExitStep
    <2> QED BY <2>1, ExitKeeps
  <1>4. CASE proc[p] = "killed" /\ Exit(s, "failure")
    <2>1. ExitStep(s, "failure")
      BY <1>1, <1>4 DEF ExitStep
    <2> QED BY <2>1, ExitKeeps
  <1>5. CASE UNCHANGED <<sp, ended, chld>> /\ (proc[p] = "killed" => ~stored[p])
    <2>1. Shape'
      BY <1>1, <1>5 DEF IInv, Shape, JobAlone
    <2>2. QuietStep
      BY <1>1, <1>2, <1>5, <2>1 DEF QuietStep, IInv, Shape, Ends
    <2> QED BY <2>2, QuietKeeps
  <1> QED BY <1>1, <1>3, <1>4, <1>5

\* The two threads of an mpispawn keep the invariant.
LEMMA MpispawnKeeps ==
    ASSUME IInv, NEW s \in Spawns, Mpispawn(s), UNCHANGED faults
    PROVE  IInv'
  <1>0. Shape
    BY DEF IInv
  <1>1. CASE Ssh_fails(s) \/ Read_error(s)
    <2>1. ExitStep(s, "failure")
      BY <1>1 DEF ExitStep, JobAlone, Ssh_fails, Read_error, SameMpirun, mpispawn_abort, processes
    <2> QED BY <2>1, ExitKeeps
  <1>2. CASE Check_in(s)
    <2>1. MoveStep(s, "spawn")
      BY <1>2 DEF MoveStep, JobAlone, Check_in, SameMpirun, processes
    <2> QED BY <2>1, MoveKeeps
  <1>3. CASE Spawned(s)
    <2>1. MoveStep(s, "accept")
      BY <1>3 DEF MoveStep, JobAlone, Spawned, mpirun, processes
    <2> QED BY <2>1, MoveKeeps
  <1>4. CASE Accept_processes(s)
    <2>1. MoveStep(s, "tree")
      BY <1>4 DEF MoveStep, JobAlone, Accept_processes, mpirun, processes
    <2> QED BY <2>1, MoveKeeps
  <1>5. CASE mpispawn_tree_init(s)
    <2>1. ExitStep(s, "failure") \/ MoveStep(s, "ops")
      BY <1>5 DEF MoveStep, ExitStep, JobAlone, mpispawn_tree_init, SameMpirun, processes
    <2> QED BY <2>1, MoveKeeps, ExitKeeps
  <1>6. CASE child_handler(s)
    <2>1. QuietStep
      BY <1>0, <1>6 DEF QuietStep, JobAlone, child_handler, mpirun, processes, Shape
    <2> QED BY <2>1, QuietKeeps
  <1>7. CASE No_zombie(s)
    BY <1>7, NoZombieKeeps
  <1>8. ASSUME NEW p \in Procs, Fork(s, p) \/ Store_pid(s, p) PROVE IInv'
    <2>1. QuietStep
      BY <1>0, <1>8 DEF QuietStep, JobAlone, Fork, Store_pid, mpirun, mpispawn, Shape
    <2> QED BY <2>1, QuietKeeps
  <1>9. ASSUME NEW p \in Procs, Reap_process(s, p) PROVE IInv'
    BY <1>9, ReapProcessKeeps
  <1> QED BY <1>1, <1>2, <1>3, <1>4, <1>5, <1>6, <1>7, <1>8, <1>9 DEF Mpispawn
-----------------------------------------------------------------------------
(* The steps of the processes. *)

\* All processes finalize: none has ended, and no mpispawn.
LEMMA FinalizeKeeps ==
    ASSUME IInv, PMI_Finalize, UNCHANGED faults
    PROVE  IInv'
  <1>1. /\ JobAlone /\ UNCHANGED <<chld, hand, sigc, ended, stored, reaped>>
        /\ \A s \in Spawns : sp[s] = "ops"
        /\ \A p \in Procs : proc[p] = "live"
        /\ proc' = [p \in Procs |-> "done"] /\ sp' = [s \in Spawns |-> "after"]
    BY DEF PMI_Finalize, JobAlone, mpirun
  <1> USE DEF JobAlone
  <1>2. Shape' /\ MainInv'
    BY <1>1 DEF IInv, Shape, MainInv
  <1>3. SpawnsInv'
    BY <1>1 DEF IInv, SpawnsInv
  <1>4. SignalsInv'
    BY <1>1 DEF IInv, SignalsInv, LocalProcs, Ends
  <1>5. Benign' => Benign
    BY <1>1 DEF Benign
  <1>6. Final'
    BY <1>1 DEF Final
  <1>7. ProcessesInv => ProcessesInv'
    BY <1>1, <1>6 DEF ProcessesInv, Ends
  <1>8. SuccessInv => SuccessInv'
    BY <1>1 DEF SuccessInv
  <1> QED BY <1>2, <1>3, <1>4, <1>5, <1>7, <1>8 DEF IInv

\* A process ends.
LEMMA EndKeeps ==
    ASSUME IInv, NEW p \in Procs, NEW how \in Ends, End(p, how), UNCHANGED faults
    PROVE  IInv'
  <1>0. NodeOf[p] \in Spawns
    BY LauncherAssumption
  <1>1. /\ JobAlone /\ UNCHANGED <<chld, sp, hand, ended, stored, reaped>>
        /\ proc[p] \in {"live", "done"}
        /\ proc' = [proc EXCEPT ![p] = how]
        /\ sigc' = [sigc EXCEPT ![NodeOf[p]] = TRUE]
        /\ Benign => how # "nonzero" /\ stored[p] /\ (how = "ok" => proc[p] = "done")
    BY DEF End, JobAlone, mpirun, Benign, Ends
  <1> USE DEF JobAlone
  <1>2. Shape' /\ MainInv'
    BY <1>1 DEF IInv, Shape, MainInv
  <1>3. SpawnsInv'
    BY <1>1 DEF IInv, SpawnsInv
  <1>4. SignalsInv'
    <2>1. chld' \/ sig' = "reap" => \E s \in Spawns : sp'[s] = "exited"
      BY <1>1 DEF IInv, SignalsInv
    <2>2. \A q \in Procs : proc[q] \in Ends => proc'[q] \in Ends
      BY <1>1 DEF IInv, Shape
    <2>3. ASSUME NEW s \in Spawns, sigc'[s] \/ hand'[s]
          PROVE  \E q \in LocalProcs(s) : proc'[q] \in Ends
      <3>1. CASE s = NodeOf[p]
        <4>1. p \in LocalProcs(s) /\ proc'[p] \in Ends
          BY <1>1, <3>1 DEF IInv, Shape, LocalProcs
        <4> QED BY <4>1
      <3>2. CASE s # NodeOf[p]
        <4>1. sigc[s] \/ hand[s]
          BY <1>1, <2>3, <3>2 DEF IInv, Shape
        <4>2. PICK q \in LocalProcs(s) : proc[q] \in Ends
          BY <4>1 DEF IInv, SignalsInv
        <4> QED BY <2>2, <4>2 DEF LocalProcs
      <3> QED BY <3>1, <3>2
    <2> QED BY <2>1, <2>3 DEF SignalsInv, LocalProcs
  <1>5. Benign' => Benign
    BY <1>1 DEF Benign
  <1>6. Benign => ProcessesInv'
    BY <1>1 DEF IInv, Shape, ProcessesInv, Final, Ends
  <1>7. SuccessInv => SuccessInv'
    BY <1>1 DEF SuccessInv
  <1> QED BY <1>2, <1>3, <1>4, <1>5, <1>6, <1>7 DEF IInv

LEMMA ProcessKeeps ==
    ASSUME IInv, Process, UNCHANGED faults
    PROVE  IInv'
  <1>1. CASE PMI_Finalize
    BY <1>1, FinalizeKeeps
  <1>2. ASSUME NEW p \in Procs, PMI_Init(p) PROVE IInv'
    <2>1. QuietStep
      BY <1>2 DEF QuietStep, JobAlone, PMI_Init, mpirun, mpispawn, IInv, Shape
    <2> QED BY <2>1, QuietKeeps
  <1>3. ASSUME NEW p \in Procs, NEW how \in Ends, End(p, how) PROVE IInv'
    BY <1>3, EndKeeps
  <1> QED BY <1>1, <1>2, <1>3 DEF Process
-----------------------------------------------------------------------------
LEMMA IInvInit == JobInit => IInv
  BY DEF JobInit, IInv, Shape, SpawnsInv, SignalsInv, MainInv, ProcessesInv, SuccessInv, Ends

LEMMA IInvNext == IInv /\ [JobNext]_jobVars => IInv'
  <1> SUFFICES ASSUME IInv, [JobNext]_jobVars PROVE IInv'
    OBVIOUS
  <1>1. CASE JobNext
    BY <1>1, MpirunKeeps, ProcessKeeps, MpispawnKeeps DEF JobNext, Running
  <1>2. CASE UNCHANGED jobVars
    <2>1. QuietStep
      BY <1>2 DEF QuietStep, JobAlone, jobVars, mpirun, mpispawn, processes, IInv, Shape
    <2> QED BY <2>1, QuietKeeps
  <1> QED BY <1>1, <1>2

\* What the invariant says of a job that has returned.
LEMMA IInvKilled == IInv => KilledIsFailure
  <1> SUFFICES ASSUME IInv, Benign, main = "returned",
                      NEW p \in Procs, proc[p] = "killed", reaped[p]
               PROVE  m_exit_code = "failure"
    BY DEF KilledIsFailure, Benign
  <1>1. NodeOf[p] \in Spawns /\ ended[NodeOf[p]] = "failure"
    BY LauncherAssumption DEF IInv, ProcessesInv
  <1>2. m_state = "M_EXIT"
    BY DEF IInv, MainInv
  <1>3. m_exit_code = "success" => waited[NodeOf[p]]
    BY <1>1, <1>2 DEF IInv, SuccessInv
  <1> QED BY <1>1, <1>3 DEF IInv, Shape, SpawnsInv

\* The invariant holds of every job.
THEOREM LauncherInvariant == JobSpec => []IInv
  BY IInvInit, IInvNext, PTL DEF JobSpec

\* A job fails when a process of it was killed and its mpispawn has reaped it, whatever the
\* three threads of mpirun_rsh and the mpispawns have done in between.
THEOREM KilledMakesFailure == JobSpec => []KilledIsFailure
  BY IInvKilled, LauncherInvariant, PTL
=============================================================================
