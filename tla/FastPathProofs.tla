--------------------------- MODULE FastPathProofs ---------------------------
(* Proofs about FastPath: for rings of any size, messages of any lengths and   *)
(* words, and any number of them, equal flags mean that a message is there, no *)
(* slot of the ring is lost, and every message is in one place, once.          *)
(*                                                                             *)
(* The invariant has two layers.  Core says what each slot holds (SlotsInv)    *)
(* and where the slots are on the ring (RingInv): counted from the last one    *)
(* given back, first those the receiver holds, then those sent and not polled, *)
(* then those free at the sender, then those on their way back.  Mess says     *)
(* which message is where, and needs Core.  The lemmas on sums are those of    *)
(* CreditFlowProofs, which is about other variables and cannot be extended.    *)
EXTENDS FastPath, TLAPS, SequenceTheorems, FiniteSetTheorems

-----------------------------------------------------------------------------
(* Induction over naturals, finite sets and sequences, from the well-founded order of *)
(* finite sets, and with it what SumFunction gives for sequences of naturals.         *)

\* A set of naturals that holds 0 and the successor of each of its members holds all.
LEMMA NatSetInduction ==
    ASSUME NEW S, 0 \in S, \A n \in Nat : n \in S => n + 1 \in S
    PROVE  Nat \subseteq S
<1> SUFFICES ASSUME NEW n \in Nat, n \notin S PROVE FALSE
    OBVIOUS
<1> DEFINE T == {0 .. k : k \in {j \in 0 .. n : j \notin S}}
<1>1. T \subseteq FiniteSubsetsOf(0 .. n)
    <2> SUFFICES ASSUME NEW k \in 0 .. n, k \notin S PROVE 0 .. k \in FiniteSubsetsOf(0 .. n)
        OBVIOUS
    <2>1. IsFiniteSet(0 .. k)
        BY FS_Interval
    <2> QED
        BY <2>1 DEF FiniteSubsetsOf
<1>2. T # {}
    OBVIOUS
<1>3. PICK x \in T : \A y \in T : ~ (<<y, x>> \in StrictSubsetOrdering(0 .. n))
    <2> HIDE DEF T
    <2>1. IsWellFoundedOn(StrictSubsetOrdering(0 .. n), FiniteSubsetsOf(0 .. n))
        BY FS_StrictSubsetOrderingWellFounded
    <2> QED
        BY ONLY <1>1, <1>2, <2>1, WFMin
<1>4. PICK k \in 0 .. n : k \notin S /\ x = 0 .. k
    OBVIOUS
<1>5. k # 0 /\ k - 1 \in S
    <2>1. k # 0
        BY <1>4
    <2>2. ASSUME k - 1 \notin S PROVE FALSE
        <3>1. 0 .. (k - 1) \in T
            BY <1>4, <2>1, <2>2
        <3>2. <<0 .. (k - 1), 0 .. k>> \in StrictSubsetOrdering(0 .. n)
            BY <2>1 DEF StrictSubsetOrdering
        <3> QED
            BY <3>1, <3>2, <1>3, <1>4
    <2> QED
        BY <2>1, <2>2
<1> QED
    BY <1>4, <1>5

\* A set of finite sets that holds the empty one, and each whose parts with one element
\* less it holds.
LEMMA SubsetInduction ==
    ASSUME NEW D, IsFiniteSet(D), NEW P,
           \A s \in SUBSET D : (\A t \in SUBSET s : t # s => t \in P) => s \in P
    PROVE  SUBSET D \subseteq P
<1> SUFFICES ASSUME NEW n \in SUBSET D, n \notin P PROVE FALSE
    OBVIOUS
<1> DEFINE T == {s \in SUBSET D : s \notin P}
<1>1. T \subseteq FiniteSubsetsOf(D)
    <2>1. \A s \in SUBSET D : IsFiniteSet(s)
        BY FS_Subset
    <2> QED
        BY <2>1 DEF FiniteSubsetsOf
<1>2. T # {}
    OBVIOUS
<1>3. PICK x \in T : \A y \in T : ~ (<<y, x>> \in StrictSubsetOrdering(D))
    <2> HIDE DEF T
    <2>1. IsWellFoundedOn(StrictSubsetOrdering(D), FiniteSubsetsOf(D))
        BY FS_StrictSubsetOrderingWellFounded
    <2> QED
        BY ONLY <1>1, <1>2, <2>1, WFMin
<1>4. \A t \in SUBSET x : t # x => t \in P
    <2> SUFFICES ASSUME NEW t \in SUBSET x, t # x, t \notin P PROVE FALSE
        OBVIOUS
    <2>1. t \in T
        OBVIOUS
    <2>2. <<t, x>> \in StrictSubsetOrdering(D)
        BY DEF StrictSubsetOrdering
    <2> QED
        BY <2>1, <2>2, <1>3
<1> QED
    BY <1>4

Some(s) == CHOOSE x \in s : TRUE

\* A set that is not empty has the member chosen from it.
LEMMA SomeIn == ASSUME NEW s, s # {} PROVE Some(s) \in s
BY DEF Some

\* g gives the sum of v over each subset of the finite set D.
SumsOn(g, v, D) ==
    /\ IsFiniteSet(D) /\ v \in [D -> Nat]
    /\ g \in [SUBSET D -> Nat] /\ g[{}] = 0
    /\ \A s \in SUBSET D : s # {} => g[s] = v[Some(s)] + g[s \ {Some(s)}]

IsSum(g, v, D) ==
   g = [s \in SUBSET D |-> IF s = {} THEN 0 ELSE v[Some(s)] + g[s \ {Some(s)}]]

\* w is a part of v.
PartOf(w, E, v, D) == E \in SUBSET D /\ w \in [E -> Nat] /\ \A x \in E : w[x] = v[x]

\* g gives the sum of v over each subset of D with at most n elements.
Upto(D, n) == {s \in SUBSET D : Cardinality(s) <= n}
SumsUpto(g, v, D, n) ==
    /\ g \in [Upto(D, n) -> Nat] /\ g[{}] = 0
    /\ \A s \in Upto(D, n) : s # {} => g[s] = v[Some(s)] + g[s \ {Some(s)}]

\* Taking an element out of a set with at most n + 1 leaves at most n.
LEMMA UptoLess ==
    ASSUME NEW D, IsFiniteSet(D), NEW n \in Nat
    PROVE  /\ {} \in Upto(D, n) /\ Upto(D, n) \subseteq Upto(D, n + 1)
           /\ \A s \in Upto(D, n + 1) : s # {} => Some(s) \in D /\ s \ {Some(s)} \in Upto(D, n)
<1>1. \A s \in SUBSET D : Cardinality(s) \in Nat /\ IsFiniteSet(s)
    BY FS_Subset, FS_CardinalityType
<1>2. {} \in Upto(D, n)
    BY FS_EmptySet DEF Upto
<1>3. Upto(D, n) \subseteq Upto(D, n + 1)
    BY <1>1 DEF Upto
<1>4. ASSUME NEW s \in Upto(D, n + 1), s # {}
      PROVE  Some(s) \in D /\ s \ {Some(s)} \in Upto(D, n)
    <2>1. s \in SUBSET D /\ Cardinality(s) <= n + 1
        BY DEF Upto
    <2>2. Some(s) \in s
        BY <1>4, SomeIn
    <2>3. Cardinality(s \ {Some(s)}) = Cardinality(s) - 1
        BY <2>1, <2>2, <1>1, FS_RemoveElement
    <2> QED
        BY <2>1, <2>2, <2>3, <1>1 DEF Upto
<1> QED
    BY <1>2, <1>3, <1>4

\* Sums over small sets give sums over sets with one element more.
LEMMA SumsGrow ==
    ASSUME NEW D, IsFiniteSet(D), NEW v \in [D -> Nat], NEW n \in Nat,
           NEW g, SumsUpto(g, v, D, n)
    PROVE  \E h : SumsUpto(h, v, D, n + 1)
<1> DEFINE h == [s \in Upto(D, n + 1) |-> IF s = {} THEN 0 ELSE v[Some(s)] + g[s \ {Some(s)}]]
<1>1. /\ g \in [Upto(D, n) -> Nat] /\ g[{}] = 0
      /\ \A s \in Upto(D, n) : s # {} => g[s] = v[Some(s)] + g[s \ {Some(s)}]
    BY DEF SumsUpto
<1>2. h \in [Upto(D, n + 1) -> Nat]
    <2> SUFFICES ASSUME NEW s \in Upto(D, n + 1), s # {}
                 PROVE  v[Some(s)] + g[s \ {Some(s)}] \in Nat
        OBVIOUS
    <2> QED
        BY <1>1, UptoLess
<1>3. h[{}] = 0
    BY UptoLess
<1>4. \A s \in Upto(D, n) : h[s] = g[s]
    BY <1>1, UptoLess
<1>5. ASSUME NEW s \in Upto(D, n + 1), s # {} PROVE h[s] = v[Some(s)] + h[s \ {Some(s)}]
    <2>1. h[s] = v[Some(s)] + g[s \ {Some(s)}]
        BY <1>5
    <2>2. s \ {Some(s)} \in Upto(D, n)
        BY <1>5, UptoLess
    <2> HIDE DEF h
    <2> QED
        BY <2>1, <2>2, <1>4
<1> HIDE DEF h
<1>6. SumsUpto(h, v, D, n + 1)
    BY <1>2, <1>3, <1>5 DEF SumsUpto
<1> QED
    BY <1>6

\* There are such sums for every finite D.
LEMMA SumsExist ==
    ASSUME NEW D, IsFiniteSet(D), NEW v \in [D -> Nat]
    PROVE  \E g : SumsOn(g, v, D)
<1> DEFINE P == {n \in Nat : \E g : SumsUpto(g, v, D, n)}
<1>1. 0 \in P
    <2> DEFINE g == [s \in Upto(D, 0) |-> 0]
    <2>1. \A s \in SUBSET D : IsFiniteSet(s) /\ Cardinality(s) \in Nat
        BY FS_Subset, FS_CardinalityType
    <2>2. \A s \in Upto(D, 0) : s = {}
        BY <2>1, FS_EmptySet DEF Upto
    <2>3. {} \in Upto(D, 0)
        BY UptoLess
    <2>4. SumsUpto(g, v, D, 0)
        BY <2>2, <2>3 DEF SumsUpto
    <2> HIDE DEF g
    <2> QED
        BY <2>4
<1>2. ASSUME NEW n \in Nat, n \in P PROVE n + 1 \in P
    BY <1>2, SumsGrow
<1>3. Nat \subseteq P
    <2> HIDE DEF P
    <2> QED
        BY <1>1, <1>2, NatSetInduction
<1>4. PICK g : SumsUpto(g, v, D, Cardinality(D))
    BY <1>3, FS_CardinalityType
<1>5. Upto(D, Cardinality(D)) = SUBSET D
    BY FS_Subset DEF Upto
<1> QED
    BY <1>4, <1>5 DEF SumsOn, SumsUpto

\* There is only one.
LEMMA SumsUnique ==
    ASSUME NEW D, NEW v, NEW g, SumsOn(g, v, D), NEW E, NEW w, PartOf(w, E, v, D),
           NEW h, IsSum(h, w, E)
    PROVE  \A s \in SUBSET E : h[s] = g[s]
<1> DEFINE P == {s \in SUBSET E : h[s] = g[s]}
<1>1. ASSUME NEW s \in SUBSET E, \A t \in SUBSET s : t # s => t \in P PROVE s \in P
    <2>1. CASE s = {}
        BY <2>1 DEF SumsOn, IsSum
    <2>2. CASE s # {}
        <3>1. Some(s) \in s
            BY <2>2, SomeIn
        <3>2. h[s \ {Some(s)}] = g[s \ {Some(s)}]
            BY <3>1, <1>1
        <3>3. h[s] = w[Some(s)] + h[s \ {Some(s)}]
            BY <2>2 DEF IsSum
        <3>4. g[s] = v[Some(s)] + g[s \ {Some(s)}]
            BY <2>2 DEF SumsOn, PartOf
        <3>5. w[Some(s)] = v[Some(s)]
            BY <3>1 DEF PartOf
        <3> QED
            BY <3>2, <3>3, <3>4, <3>5
    <2> QED
        BY <2>1, <2>2
<1>2. IsFiniteSet(E)
    BY FS_Subset DEF SumsOn, PartOf
<1>3. SUBSET E \subseteq P
    <2> HIDE DEF P
    <2> QED
        BY <1>1, <1>2, SubsetInduction
<1> QED
    BY <1>3

\* The order does not matter.
LEMMA SumsAnyOrder ==
    ASSUME NEW D, NEW v, NEW g, SumsOn(g, v, D)
    PROVE  \A s \in SUBSET D : \A x \in s : g[s] = v[x] + g[s \ {x}]
<1> DEFINE P == {s \in SUBSET D : \A x \in s : g[s] = v[x] + g[s \ {x}]}
<1>1. ASSUME NEW s \in SUBSET D, \A t \in SUBSET s : t # s => t \in P PROVE s \in P
    <2> SUFFICES ASSUME NEW x \in s PROVE g[s] = v[x] + g[s \ {x}]
        OBVIOUS
    <2> DEFINE c == Some(s)
    <2>1. c \in s
        BY SomeIn
    <2>2. g[s] = v[c] + g[s \ {c}]
        BY DEF SumsOn
    <2>3. CASE x = c
        BY <2>3, <2>2
    <2>4. CASE x # c
        <3>1. s \ {c} \in P /\ s \ {x} \in P
            BY <2>1, <1>1
        <3>2. x \in s \ {c} /\ c \in s \ {x}
            BY <2>1, <2>4
        <3>3. g[s \ {c}] = v[x] + g[(s \ {c}) \ {x}]
            BY <3>1, <3>2
        <3>4. g[s \ {x}] = v[c] + g[(s \ {x}) \ {c}]
            BY <3>1, <3>2
        <3>5. (s \ {c}) \ {x} = (s \ {x}) \ {c}
            OBVIOUS
        <3>6. v[x] \in Nat /\ v[c] \in Nat /\ g[(s \ {x}) \ {c}] \in Nat
            BY <2>1 DEF SumsOn
        <3>7. PICK r : r = g[(s \ {x}) \ {c}]
            OBVIOUS
        <3>8. g[s \ {c}] = v[x] + r /\ g[s \ {x}] = v[c] + r /\ r \in Nat
            BY <3>3, <3>4, <3>5, <3>6, <3>7
        <3> HIDE DEF c
        <3> QED
            BY <3>8, <3>6, <2>2
    <2> QED
        BY <2>3, <2>4
<1>2. SUBSET D \subseteq P
    <2> HIDE DEF P
    <2> QED
        BY <1>1, SubsetInduction DEF SumsOn
<1> QED
    BY <1>2

\* The sum of a part is what the sums over the subsets say.
LEMMA SumFunctionIs ==
    ASSUME NEW D, NEW v, NEW g, SumsOn(g, v, D), NEW E, NEW w, PartOf(w, E, v, D)
    PROVE  SumFunction(w) = g[E]
<1> DEFINE iter == CHOOSE h : IsSum(h, w, E)
<1>1. DOMAIN w = E
    BY DEF PartOf
<1>2. SumFunction(w) = iter[E]
    BY <1>1 DEF SumFunction, SumFunctionOnSet, FoldFunctionOnSet, MapThenFoldSet, IsSum, Some
<1>3. IsSum(iter, w, E)
    <2>1. IsFiniteSet(E)
        BY FS_Subset DEF SumsOn, PartOf
    <2>2. PICK h : SumsOn(h, w, E)
        BY <2>1, SumsExist DEF PartOf
    <2>3. IsSum(h, w, E)
        BY <2>2 DEF SumsOn, IsSum
    <2> QED
        BY <2>3
<1> HIDE DEF iter
<1>4. E \in SUBSET E
    OBVIOUS
<1> QED
    BY <1>2, <1>3, <1>4, SumsUnique

\* Sequences: a set that holds the empty one, and each of its members with an element
\* appended, holds all.
LEMMA SeqInduction ==
    ASSUME NEW S, NEW P, << >> \in P, \A f \in P \cap Seq(S) : \A e \in S : Append(f, e) \in P
    PROVE  Seq(S) \subseteq P
<1> DEFINE N == {n \in Nat : \A s \in Seq(S) : Len(s) = n => s \in P}
<1>1. 0 \in N
    BY EmptySeq
<1>2. ASSUME NEW n \in Nat, n \in N PROVE n + 1 \in N
    <2> SUFFICES ASSUME NEW s \in Seq(S), Len(s) = n + 1 PROVE s \in P
        OBVIOUS
    <2> DEFINE f == [i \in 1 .. n |-> s[i]]
    <2>1. f \in Seq(S) /\ Len(f) = n
        OBVIOUS
    <2>2. s[n + 1] \in S
        OBVIOUS
    <2>3. Append(f, s[n + 1]) \in Seq(S) /\ Len(Append(f, s[n + 1])) = n + 1
        BY <2>1, <2>2
    <2>4. \A i \in 1 .. n + 1 : s[i] = Append(f, s[n + 1])[i]
        BY <2>1, <2>2
    <2>5. s = Append(f, s[n + 1])
        BY <2>3, <2>4, SeqEqual
    <2>6. f \in P
        BY <2>1, <1>2
    <2> HIDE DEF f
    <2> QED
        BY <2>1, <2>2, <2>5, <2>6
<1>3. Nat \subseteq N
    <2> HIDE DEF N
    <2> QED
        BY <1>1, <1>2, NatSetInduction
<1> QED
    BY <1>3, LenProperties

\* The sum of no numbers is 0.
LEMMA SumEmpty == SumFunction(<< >>) = 0
<1>1. PICK w : w = << >>
    OBVIOUS
<1>2. IsFiniteSet({}) /\ w \in [{} -> Nat]
    BY <1>1, FS_EmptySet
<1>3. PICK g : SumsOn(g, w, {})
    BY <1>2, SumsExist
<1>4. PartOf(w, {}, w, {})
    BY <1>2 DEF PartOf
<1>5. SumFunction(w) = g[{}]
    BY <1>3, <1>4, SumFunctionIs
<1> QED
    BY <1>1, <1>3, <1>5 DEF SumsOn

\* The sum of natural numbers is one.
LEMMA SumNat ==
    ASSUME NEW s \in Seq(Nat)
    PROVE  SumFunction(s) \in Nat
<1>1. IsFiniteSet(1 .. Len(s)) /\ s \in [1 .. Len(s) -> Nat]
    BY FS_Interval
<1>2. PICK g : SumsOn(g, s, 1 .. Len(s))
    BY <1>1, SumsExist
<1>3. PartOf(s, 1 .. Len(s), s, 1 .. Len(s))
    BY <1>1 DEF PartOf
<1>4. SumFunction(s) = g[1 .. Len(s)]
    BY <1>2, <1>3, SumFunctionIs
<1> QED
    BY <1>2, <1>4 DEF SumsOn

\* A number appended is added to the sum.
LEMMA SumAppend ==
    ASSUME NEW s \in Seq(Nat), NEW e \in Nat
    PROVE  SumFunction(Append(s, e)) = SumFunction(s) + e
<1>1. PICK n : n = Len(s)
    OBVIOUS
<1>2. PICK t : t = Append(s, e)
    OBVIOUS
<1>3. PICK D : D = 1 .. n + 1
    OBVIOUS
<1>4. n \in Nat /\ s \in [1 .. n -> Nat]
    BY <1>1
<1>5. t \in [D -> Nat] /\ t[n + 1] = e /\ \A i \in 1 .. n : t[i] = s[i]
    <2>1. t \in Seq(Nat) /\ Len(t) = n + 1 /\ t[n + 1] = e /\ \A i \in 1 .. n : t[i] = s[i]
        BY <1>1, <1>2, AppendProperties
    <2> QED
        BY <2>1, <1>3
<1>6. IsFiniteSet(D)
    BY <1>3, <1>4, FS_Interval
<1>7. PICK g : SumsOn(g, t, D)
    BY <1>5, <1>6, SumsExist
<1>8. PartOf(t, D, t, D) /\ PartOf(s, 1 .. n, t, D)
    BY <1>3, <1>4, <1>5 DEF PartOf
<1>9. SumFunction(t) = g[D] /\ SumFunction(s) = g[1 .. n]
    BY <1>7, <1>8, SumFunctionIs
<1>10. D \in SUBSET D /\ n + 1 \in D /\ D \ {n + 1} = 1 .. n
    BY <1>3, <1>4
<1>11. g[D] = t[n + 1] + g[D \ {n + 1}]
    BY <1>7, <1>10, SumsAnyOrder
<1>12. g[1 .. n] \in Nat
    BY <1>7, <1>10 DEF SumsOn
<1>13. PICK k : k = g[1 .. n]
    OBVIOUS
<1>14. SumFunction(t) = e + k
    BY <1>5, <1>9, <1>10, <1>11, <1>13
<1>15. SumFunction(s) = k /\ k \in Nat
    BY <1>9, <1>12, <1>13
<1> QED
    BY <1>2, <1>14, <1>15

\* The sum of two sequences joined is that of both sums.
LEMMA SumConcat ==
    ASSUME NEW s \in Seq(Nat), NEW t \in Seq(Nat)
    PROVE  SumFunction(s \o t) = SumFunction(s) + SumFunction(t)
<1> DEFINE P == {u \in Seq(Nat) : SumFunction(s \o u) = SumFunction(s) + SumFunction(u)}
<1>1. << >> \in P
    <2>1. s \o << >> = s
        BY ConcatEmptySeq
    <2> QED
        BY <2>1, SumEmpty, SumNat
<1>2. ASSUME NEW f \in Seq(Nat), f \in P, NEW e \in Nat PROVE Append(f, e) \in P
    <2>1. s \o Append(f, e) = Append(s \o f, e)
        <3>1. Append(f, e) = f \o <<e>> /\ Append(s \o f, e) = (s \o f) \o <<e>>
            BY AppendIsConcat, ConcatProperties
        <3>2. <<e>> \in Seq(Nat)
            OBVIOUS
        <3>3. (s \o f) \o <<e>> = s \o (f \o <<e>>)
            BY <3>2, ConcatAssociative
        <3> QED
            BY <3>1, <3>3
    <2>2. s \o f \in Seq(Nat)
        BY ConcatProperties
    <2>3. SumFunction(s \o Append(f, e)) = SumFunction(s \o f) + e
        BY <2>1, <2>2, SumAppend
    <2>4. SumFunction(Append(f, e)) = SumFunction(f) + e
        BY SumAppend
    <2>5. SumFunction(s \o f) = SumFunction(s) + SumFunction(f)
        BY <1>2
    <2>6. SumFunction(s) \in Nat /\ SumFunction(f) \in Nat
        BY SumNat
    <2>7. Append(f, e) \in Seq(Nat)
        OBVIOUS
    <2> QED
        BY <2>3, <2>4, <2>5, <2>6, <2>7
<1>3. Seq(Nat) \subseteq P
    <2> HIDE DEF P
    <2> QED
        BY <1>1, <1>2, SeqInduction
<1> QED
    BY <1>3

\* The sum is its first number and the sum of the others.
LEMMA SumTail ==
    ASSUME NEW s \in Seq(Nat), s # << >>
    PROVE  SumFunction(s) = Head(s) + SumFunction(Tail(s))
<1>1. Head(s) \in Nat /\ Tail(s) \in Seq(Nat)
    BY HeadTailProperties
<1>2. <<Head(s)>> \in Seq(Nat) /\ <<Head(s)>> = Append(<< >>, Head(s)) /\ << >> \in Seq(Nat)
    BY <1>1
<1>3. s = <<Head(s)>> \o Tail(s)
    OBVIOUS
<1>4. SumFunction(<<Head(s)>>) = 0 + Head(s)
    BY <1>1, <1>2, SumAppend, SumEmpty
<1>5. SumFunction(s) = SumFunction(<<Head(s)>>) + SumFunction(Tail(s))
    BY <1>1, <1>2, <1>3, SumConcat
<1> QED
    BY <1>1, <1>4, <1>5
-----------------------------------------------------------------------------
(* The ring.  Its slots are counted from the one after the last that the receiver has *)
(* given back: first those it holds, then those sent and not polled yet, then those   *)
(* free at the sender, and at last those on their way back as credits.                *)

At(t, i) == (t + 1 + i) % NumSlots

\* Without the modulus.
LEMMA AtIs ==
    ASSUME NEW t \in Slots, NEW i \in 0 .. NumSlots - 1
    PROVE  /\ At(t, i) \in Slots
           /\ At(t, i) = IF t + 1 + i < NumSlots THEN t + 1 + i ELSE t + 1 + i - NumSlots
<1>1. NumSlots \in Nat /\ NumSlots > 1 /\ t \in Nat /\ t < NumSlots /\ i \in Nat /\ i < NumSlots
  BY FastAssumption DEF Slots
<1>2. CASE t + 1 + i < NumSlots
  <2>1. (t + 1 + i) % NumSlots = t + 1 + i
    BY <1>1, <1>2
  <2> QED BY <1>1, <1>2, <2>1 DEF At, Slots
<1>3. CASE t + 1 + i >= NumSlots
  <2>1. (t + 1 + i) % NumSlots = t + 1 + i - NumSlots
    BY <1>1, <1>3
  <2> QED BY <1>1, <1>3, <2>1 DEF At, Slots
<1> QED BY <1>1, <1>2, <1>3

\* Each slot has one place.
LEMMA OnePlace ==
    ASSUME NEW t \in Slots
    PROVE  /\ \A i, j \in 0 .. NumSlots - 1 : At(t, i) = At(t, j) => i = j
           /\ \A s \in Slots : \E i \in 0 .. NumSlots - 1 : s = At(t, i)
<1>1. NumSlots \in Nat /\ NumSlots > 1 /\ t \in Nat /\ t < NumSlots
  BY FastAssumption DEF Slots
<1>2. ASSUME NEW i \in 0 .. NumSlots - 1, NEW j \in 0 .. NumSlots - 1, At(t, i) = At(t, j)
      PROVE  i = j
  BY <1>1, <1>2, AtIs
<1>3. ASSUME NEW s \in Slots PROVE \E i \in 0 .. NumSlots - 1 : s = At(t, i)
  <2>1. s \in Nat /\ s < NumSlots
    BY <1>1 DEF Slots
  <2>2. CASE s > t
    <3>1. s - t - 1 \in 0 .. NumSlots - 1 /\ t + 1 + (s - t - 1) < NumSlots
      BY <1>1, <2>1, <2>2
    <3>2. At(t, s - t - 1) = t + 1 + (s - t - 1)
      BY <3>1, AtIs
    <3>3. s = At(t, s - t - 1)
      BY <1>1, <2>1, <3>2
    <3> QED BY <3>1, <3>3
  <2>3. CASE s <= t
    <3>1. /\ s - t - 1 + NumSlots \in 0 .. NumSlots - 1
          /\ ~(t + 1 + (s - t - 1 + NumSlots) < NumSlots)
      BY <1>1, <2>1, <2>3
    <3>2. At(t, s - t - 1 + NumSlots) = t + 1 + (s - t - 1 + NumSlots) - NumSlots
      BY <3>1, AtIs
    <3>3. s = At(t, s - t - 1 + NumSlots)
      BY <1>1, <2>1, <3>2
    <3> QED BY <3>1, <3>3
  <2> QED BY <1>1, <2>1, <2>2, <2>3
<1> QED BY <1>2, <1>3

\* Going on from a place.
LEMMA GoOn ==
    ASSUME NEW t \in Slots, NEW i \in Nat, NEW h \in Nat, i + h <= NumSlots - 1
    PROVE  (At(t, i) + h) % NumSlots = At(t, i + h)
<1>1. NumSlots \in Nat /\ NumSlots > 1 /\ t \in Nat /\ t < NumSlots
  BY FastAssumption DEF Slots
<1>2. i \in 0 .. NumSlots - 1 /\ i + h \in 0 .. NumSlots - 1
  BY <1>1
<1>3. PICK a, b : a = At(t, i) /\ b = At(t, i + h)
  OBVIOUS
<1>4. /\ a = IF t + 1 + i < NumSlots THEN t + 1 + i ELSE t + 1 + i - NumSlots
      /\ b = IF t + 1 + (i + h) < NumSlots THEN t + 1 + (i + h) ELSE t + 1 + (i + h) - NumSlots
      /\ a \in Nat /\ b \in Nat
  BY <1>1, <1>2, <1>3, AtIs DEF Slots
<1>5. a + h = b \/ a + h = b + NumSlots
  BY <1>1, <1>4
<1>6. b < NumSlots
  BY <1>1, <1>2, <1>3, AtIs DEF Slots
<1>7. (a + h) % NumSlots = b
  <2>1. CASE a + h = b
    BY <1>1, <1>4, <1>6, <2>1
  <2>2. CASE a + h = b + NumSlots
    BY <1>1, <1>4, <1>6, <2>2
  <2> QED BY <1>5, <2>1, <2>2
<1> QED BY <1>3, <1>7

\* The slot after a place has the next place.
LEMMA NextPlace ==
    ASSUME NEW t \in Slots, NEW i \in Nat, i + 1 <= NumSlots - 1
    PROVE  Next_(At(t, i)) = At(t, i + 1)
<1>1. 1 \in Nat
  OBVIOUS
<1> QED BY <1>1, GoOn DEF Next_

\* Counting from n slots further on.
LEMMA CountFrom ==
    ASSUME NEW t \in Slots, NEW n \in 0 .. NumSlots - 1, NEW i \in 0 .. NumSlots - 1
    PROVE  /\ (t + n) % NumSlots \in Slots
           /\ At((t + n) % NumSlots, i) =
                 At(t, IF i + n < NumSlots THEN i + n ELSE i + n - NumSlots)
<1>1. NumSlots \in Nat /\ NumSlots > 1 /\ t \in Nat /\ t < NumSlots /\ n \in Nat /\ i \in Nat
      /\ n < NumSlots /\ i < NumSlots
  BY FastAssumption DEF Slots
<1>2. PICK u : u = (t + n) % NumSlots
  OBVIOUS
<1>3. u \in Nat /\ u < NumSlots /\ (u = t + n \/ u = t + n - NumSlots)
  <2>1. CASE t + n < NumSlots
    BY <1>1, <1>2, <2>1
  <2>2. CASE t + n >= NumSlots
    <3>1. u = t + n - NumSlots
      BY <1>1, <1>2, <2>2
    <3> QED BY <1>1, <2>2, <3>1
  <2> QED BY <1>1, <2>1, <2>2
<1>4. u \in Slots
  BY <1>1, <1>3 DEF Slots
<1>5. PICK k : k = IF i + n < NumSlots THEN i + n ELSE i + n - NumSlots
  OBVIOUS
<1>6. k \in 0 .. NumSlots - 1 /\ (k = i + n \/ k = i + n - NumSlots)
  BY <1>1, <1>5
<1>7. PICK a, b : a = At(u, i) /\ b = At(t, k)
  OBVIOUS
<1>8. /\ a = IF u + 1 + i < NumSlots THEN u + 1 + i ELSE u + 1 + i - NumSlots
      /\ b = IF t + 1 + k < NumSlots THEN t + 1 + k ELSE t + 1 + k - NumSlots
      /\ a \in Nat /\ a < NumSlots /\ b \in Nat /\ b < NumSlots
  BY <1>1, <1>4, <1>6, <1>7, AtIs DEF Slots
<1>9. a = b
  BY <1>1, <1>3, <1>6, <1>8
<1> QED BY <1>2, <1>4, <1>5, <1>7, <1>9

\* The distance between two places.
LEMMA Distance ==
    ASSUME NEW t \in Slots, NEW i \in Nat, NEW j \in Nat, i <= j, j <= NumSlots - 1
    PROVE  (At(t, j) - At(t, i)) % NumSlots = j - i
<1>1. NumSlots \in Nat /\ NumSlots > 1 /\ t \in Nat /\ t < NumSlots
  BY FastAssumption DEF Slots
<1>2. i \in 0 .. NumSlots - 1 /\ j \in 0 .. NumSlots - 1
  BY <1>1
<1>3. PICK a, b : a = At(t, i) /\ b = At(t, j)
  OBVIOUS
<1>4. /\ a = IF t + 1 + i < NumSlots THEN t + 1 + i ELSE t + 1 + i - NumSlots
      /\ b = IF t + 1 + j < NumSlots THEN t + 1 + j ELSE t + 1 + j - NumSlots
      /\ a \in Nat /\ b \in Nat
  BY <1>1, <1>2, <1>3, AtIs DEF Slots
<1>5. b - a = j - i \/ b - a = j - i - NumSlots
  BY <1>1, <1>4
<1>6. j - i \in Nat /\ j - i < NumSlots
  BY <1>1
<1>7. PICK d : d = b - a
  OBVIOUS
<1>8. d \in Int /\ (d = j - i \/ d = j - i - NumSlots)
  BY <1>4, <1>5, <1>7
<1>9. d % NumSlots = j - i
  <2>1. CASE d = j - i
    BY <1>1, <1>6, <2>1
  <2>2. CASE d = j - i - NumSlots
    BY <1>1, <1>6, <2>2
  <2> QED BY <1>8, <2>1, <2>2
<1> QED BY <1>3, <1>7, <1>9
-----------------------------------------------------------------------------
(* What is where on the ring, for the slots H held and U not polled, and g credits.  *)

RingAt(t, a, b, g, recv, head, tail, H, U) ==
    /\ t \in Slots /\ a \in Nat /\ b \in Nat /\ g \in Nat /\ a + b + g <= NumSlots - 1
    /\ recv = At(t, a) /\ head = At(t, a + b) /\ tail = At(t, NumSlots - 1 - g)
    /\ H \subseteq Slots /\ U \subseteq Slots
    /\ \A i \in 0 .. NumSlots - 1 : /\ At(t, i) \in H <=> i < a
                                    /\ At(t, i) \in U <=> a <= i /\ i < a + b

\* The slot that the sender takes is nobody else's.
LEMMA RingSends ==
    ASSUME NEW t, NEW a, NEW b, NEW g, NEW recv, NEW head, NEW tail, NEW H, NEW U,
           RingAt(t, a, b, g, recv, head, tail, H, U), head # tail
    PROVE  /\ RingAt(t, a, b + 1, g, recv, Next_(head), tail, H, U \cup {head})
           /\ head \notin H /\ head \notin U /\ head \in Slots
<1>0. NumSlots \in Nat /\ NumSlots > 1
  BY FastAssumption
<1>1. /\ t \in Slots /\ a \in Nat /\ b \in Nat /\ g \in Nat /\ a + b + g <= NumSlots - 1
      /\ recv = At(t, a) /\ head = At(t, a + b) /\ tail = At(t, NumSlots - 1 - g)
      /\ H \subseteq Slots /\ U \subseteq Slots
      /\ \A i \in 0 .. NumSlots - 1 : /\ At(t, i) \in H <=> i < a
                                      /\ At(t, i) \in U <=> a <= i /\ i < a + b
  BY DEF RingAt
<1>2. a + b # NumSlots - 1 - g
  BY <1>1
<1>3. a + (b + 1) + g <= NumSlots - 1 /\ a + b \in 0 .. NumSlots - 1 /\ a + (b + 1) = (a + b) + 1
  BY <1>0, <1>1, <1>2
<1>4. Next_(head) = At(t, a + (b + 1))
  <2>1. a + b \in Nat /\ (a + b) + 1 <= NumSlots - 1
    BY <1>0, <1>1, <1>3
  <2> QED BY <1>1, <1>3, <2>1, NextPlace
<1>5. head \in Slots /\ head \notin H /\ head \notin U
  <2>1. ~(a + b < a) /\ ~(a + b < a + b)
    BY <1>1
  <2> QED BY <1>1, <1>3, <2>1, AtIs
<1>6. ASSUME NEW i \in 0 .. NumSlots - 1
      PROVE  At(t, i) \in U \cup {head} <=> a <= i /\ i < a + (b + 1)
  <2>1. At(t, i) = head <=> i = a + b
    BY <1>1, <1>3, OnePlace
  <2>2. At(t, i) \in U <=> a <= i /\ i < a + b
    BY <1>1
  <2>3. (a <= i /\ i < a + (b + 1)) <=> ((a <= i /\ i < a + b) \/ i = a + b)
    BY <1>0, <1>1
  <2> QED BY <2>1, <2>2, <2>3
<1> QED BY <1>1, <1>3, <1>4, <1>5, <1>6 DEF RingAt

\* Credits taken set the tail on.
LEMMA RingGetsCredit ==
    ASSUME NEW t, NEW a, NEW b, NEW g \in Nat, NEW h \in Nat,
           NEW recv, NEW head, NEW tail, NEW H, NEW U,
           RingAt(t, a, b, h + g, recv, head, tail, H, U)
    PROVE  RingAt(t, a, b, g, recv, head, (tail + h) % NumSlots, H, U)
<1>0. NumSlots \in Nat /\ NumSlots > 1
  BY FastAssumption
<1>1. /\ t \in Slots /\ a \in Nat /\ b \in Nat /\ a + b + (h + g) <= NumSlots - 1
      /\ tail = At(t, NumSlots - 1 - (h + g))
  BY DEF RingAt
<1>2. PICK i : i = NumSlots - 1 - (h + g)
  OBVIOUS
<1>3. i \in Nat /\ i + h <= NumSlots - 1 /\ i + h = NumSlots - 1 - g /\ a + b + g <= NumSlots - 1
  BY <1>0, <1>1, <1>2
<1>4. (tail + h) % NumSlots = At(t, NumSlots - 1 - g)
  BY <1>1, <1>2, <1>3, GoOn
<1> QED BY <1>3, <1>4 DEF RingAt

\* The receiver polls the first of the slots sent.
LEMMA RingPolls ==
    ASSUME NEW t, NEW a, NEW b, NEW g, NEW recv, NEW head, NEW tail, NEW H, NEW U,
           RingAt(t, a, b, g, recv, head, tail, H, U), recv \in U
    PROVE  /\ RingAt(t, a + 1, b - 1, g, Next_(recv), head, tail, H \cup {recv}, U \ {recv})
           /\ recv \notin H /\ recv \in Slots
<1>0. NumSlots \in Nat /\ NumSlots > 1
  BY FastAssumption
<1>1. /\ t \in Slots /\ a \in Nat /\ b \in Nat /\ g \in Nat /\ a + b + g <= NumSlots - 1
      /\ recv = At(t, a) /\ head = At(t, a + b) /\ tail = At(t, NumSlots - 1 - g)
      /\ H \subseteq Slots /\ U \subseteq Slots
      /\ \A i \in 0 .. NumSlots - 1 : /\ At(t, i) \in H <=> i < a
                                      /\ At(t, i) \in U <=> a <= i /\ i < a + b
  BY DEF RingAt
<1>2. a \in 0 .. NumSlots - 1
  BY <1>0, <1>1
<1>3. b > 0 /\ recv \notin H /\ recv \in Slots
  <2>1. a < a + b /\ ~(a < a)
    BY <1>1, <1>2
  <2> QED BY <1>1, <1>2, <2>1
<1>4. /\ b - 1 \in Nat /\ a + 1 \in Nat /\ (a + 1) + (b - 1) = a + b
      /\ (a + 1) + (b - 1) + g <= NumSlots - 1 /\ a + 1 <= NumSlots - 1
  BY <1>0, <1>1, <1>3
<1>5. Next_(recv) = At(t, a + 1)
  BY <1>1, <1>4, NextPlace
<1>6. ASSUME NEW i \in 0 .. NumSlots - 1
      PROVE  /\ At(t, i) \in H \cup {recv} <=> i < a + 1
             /\ At(t, i) \in U \ {recv} <=> a + 1 <= i /\ i < (a + 1) + (b - 1)
  <2>1. At(t, i) = recv <=> i = a
    BY <1>1, <1>2, OnePlace
  <2>2. (At(t, i) \in H <=> i < a) /\ (At(t, i) \in U <=> a <= i /\ i < a + b)
    BY <1>1
  <2>3. /\ (i < a + 1) <=> (i < a \/ i = a)
        /\ (a + 1 <= i /\ i < (a + 1) + (b - 1)) <=> (a <= i /\ i < a + b /\ i # a)
    BY <1>0, <1>1, <1>4
  <2> QED BY <2>1, <2>2, <2>3
<1> QED BY <1>1, <1>3, <1>4, <1>5, <1>6 DEF RingAt

\* The receiver gives back the first n slots that it holds.
LEMMA RingGivesBack ==
    ASSUME NEW t, NEW a, NEW b, NEW g, NEW recv, NEW head, NEW tail, NEW H, NEW U,
           RingAt(t, a, b, g, recv, head, tail, H, U), NEW n \in Nat, n <= a,
           NEW B, B = {At(t, i) : i \in 0 .. n - 1}
    PROVE  RingAt((t + n) % NumSlots, a - n, b, g + n, recv, head, tail, H \ B, U)
<1>0. NumSlots \in Nat /\ NumSlots > 1
  BY FastAssumption
<1>1. /\ t \in Slots /\ a \in Nat /\ b \in Nat /\ g \in Nat /\ a + b + g <= NumSlots - 1
      /\ recv = At(t, a) /\ head = At(t, a + b) /\ tail = At(t, NumSlots - 1 - g)
      /\ H \subseteq Slots /\ U \subseteq Slots
      /\ \A i \in 0 .. NumSlots - 1 : /\ At(t, i) \in H <=> i < a
                                      /\ At(t, i) \in U <=> a <= i /\ i < a + b
  BY DEF RingAt
<1>2. /\ n \in 0 .. NumSlots - 1 /\ a - n \in Nat /\ g + n \in Nat
      /\ (a - n) + b + (g + n) <= NumSlots - 1
  BY <1>0, <1>1
<1> DEFINE u == (t + n) % NumSlots
<1>3. u \in Slots
  BY <1>1, <1>2, CountFrom
<1>4. ASSUME NEW i \in 0 .. NumSlots - 1, i + n < NumSlots PROVE At(u, i) = At(t, i + n)
  BY <1>1, <1>2, <1>4, CountFrom
<1>5. ASSUME NEW i \in 0 .. NumSlots - 1, ~(i + n < NumSlots)
      PROVE  At(u, i) = At(t, i + n - NumSlots)
  BY <1>1, <1>2, <1>5, CountFrom
<1> HIDE DEF u
<1>6. recv = At(u, a - n) /\ head = At(u, (a - n) + b) /\ tail = At(u, NumSlots - 1 - (g + n))
  <2>1. ASSUME NEW k \in Nat, n <= k, k <= NumSlots - 1 PROVE At(t, k) = At(u, k - n)
    <3>1. k - n \in 0 .. NumSlots - 1 /\ (k - n) + n < NumSlots /\ (k - n) + n = k
      BY <1>0, <2>1
    <3> QED BY <1>4, <3>1
  <2>2. /\ a <= NumSlots - 1 /\ a + b \in Nat /\ n <= a + b /\ a + b <= NumSlots - 1
        /\ (a + b) - n = (a - n) + b
        /\ NumSlots - 1 - g \in Nat /\ n <= NumSlots - 1 - g /\ NumSlots - 1 - g <= NumSlots - 1
        /\ (NumSlots - 1 - g) - n = NumSlots - 1 - (g + n)
    BY <1>0, <1>1
  <2> QED BY <1>1, <2>1, <2>2
<1>7. ASSUME NEW i \in 0 .. NumSlots - 1
      PROVE  /\ At(u, i) \in H \ B <=> i < a - n
             /\ At(u, i) \in U <=> a - n <= i /\ i < (a - n) + b
  <2>1. CASE i + n < NumSlots
    <3>1. i + n \in 0 .. NumSlots - 1 /\ At(u, i) = At(t, i + n)
      BY <1>0, <1>4, <2>1
    <3>2. /\ At(t, i + n) \in H <=> i + n < a
          /\ At(t, i + n) \in U <=> a <= i + n /\ i + n < a + b
      BY <1>1, <3>1
    <3>3. At(t, i + n) \notin B
      <4>1. ASSUME NEW j \in 0 .. n - 1, At(t, i + n) = At(t, j) PROVE FALSE
        <5>1. j \in 0 .. NumSlots - 1 /\ j # i + n
          BY <1>0, <1>2
        <5> QED BY <1>1, <3>1, <4>1, <5>1, OnePlace
      <4> QED BY <4>1
    <3>4. /\ (i + n < a) <=> (i < a - n)
          /\ (a <= i + n /\ i + n < a + b) <=> (a - n <= i /\ i < (a - n) + b)
      BY <1>0, <1>1
    <3> QED BY <3>1, <3>2, <3>3, <3>4
  <2>2. CASE ~(i + n < NumSlots)
    <3>1. i + n - NumSlots \in 0 .. NumSlots - 1 /\ At(u, i) = At(t, i + n - NumSlots)
      BY <1>0, <1>2, <1>5, <2>2
    <3>2. i + n - NumSlots \in 0 .. n - 1 /\ i + n - NumSlots < a
      BY <1>0, <1>1, <1>2, <3>1
    <3>3. At(u, i) \in B /\ At(u, i) \notin U
      BY <1>1, <3>1, <3>2
    <3>4. ~(i < a - n) /\ ~(a - n <= i /\ i < (a - n) + b)
      BY <1>0, <1>1, <1>2, <2>2
    <3> QED BY <3>3, <3>4
  <2> QED BY <2>1, <2>2
<1>8. H \ B \subseteq Slots
  BY <1>1
<1> QED BY <1>1, <1>2, <1>3, <1>6, <1>7, <1>8 DEF RingAt, u

\* So many slots are given back.
LEMMA GivenBack ==
    ASSUME NEW t \in Slots, NEW n \in 0 .. NumSlots - 1
    PROVE  /\ IsFiniteSet({At(t, i) : i \in 0 .. n - 1})
           /\ Cardinality({At(t, i) : i \in 0 .. n - 1}) = n
<1> DEFINE B == {At(t, i) : i \in 0 .. n - 1}
           f == [j \in 1 .. n |-> At(t, j - 1)]
<1>0. NumSlots \in Nat /\ NumSlots > 1 /\ n \in Nat
  BY FastAssumption
<1>1. \A j \in 1 .. n : j - 1 \in 0 .. n - 1 /\ j - 1 \in 0 .. NumSlots - 1
  BY <1>0
<1>2. \A i \in 0 .. n - 1 : i + 1 \in 1 .. n /\ (i + 1) - 1 = i
  BY <1>0
<1>3. f \in [1 .. n -> B]
  BY <1>1
<1>4. \A j, k \in 1 .. n : f[j] = f[k] => j = k
  <2>1. ASSUME NEW j \in 1 .. n, NEW k \in 1 .. n, f[j] = f[k] PROVE j = k
    <3>1. At(t, j - 1) = At(t, k - 1)
      BY <2>1
    <3>2. j - 1 = k - 1
      BY <1>1, <3>1, OnePlace
    <3> QED BY <1>0, <3>2
  <2> QED BY <2>1
<1>5. \A s \in B : \E j \in 1 .. n : f[j] = s
  <2>1. ASSUME NEW s \in B PROVE \E j \in 1 .. n : f[j] = s
    <3>1. PICK i \in 0 .. n - 1 : s = At(t, i)
      OBVIOUS
    <3>2. f[i + 1] = At(t, (i + 1) - 1)
      BY <1>2
    <3>3. f[i + 1] = s
      BY <1>2, <3>1, <3>2
    <3> QED BY <1>2, <3>3
  <2> QED BY <2>1
<1> HIDE DEF f, B
<1>6. f \in Bijection(1 .. n, B)
  BY <1>3, <1>4, <1>5 DEF Bijection, Injection, Surjection, IsInjective
<1>7. ExistsBijection(1 .. n, B)
  BY <1>6 DEF ExistsBijection
<1>8. IsFiniteSet(B)
  BY <1>0, <1>7, FS_NatBijection
<1> QED BY <1>0, <1>7, <1>8, FS_CountingElements DEF B
-----------------------------------------------------------------------------
(* Where the messages are: f gives the numbers of those in the ring, W and Q are those *)
(* of the send/receive path.                                                           *)

Single(q) == \A i, j \in 1 .. Len(q) : q[i] = q[j] => i = j

MessAt(f, W, Q, lo, hi) ==
    /\ lo \in Nat /\ hi \in Nat /\ W \in Seq(Nat) /\ Q \in Seq(Nat)
    /\ IsFiniteSet(DOMAIN f) /\ \A x, y \in DOMAIN f : f[x] = f[y] => x = y
    /\ Single(W) /\ Single(Q)
    /\ Range(W) \cap Range(Q) = {}
    /\ \A x \in DOMAIN f : f[x] \notin Range(W) \cup Range(Q)
    /\ {f[x] : x \in DOMAIN f} \cup (Range(W) \cup Range(Q)) = lo .. hi - 1
    /\ Cardinality(DOMAIN f) + Len(W) + Len(Q) = hi - lo

\* A queue with one more, and with one less.
LEMMA QueueMore ==
    ASSUME NEW S, NEW q \in Seq(S), NEW x \in S
    PROVE  /\ Append(q, x) \in Seq(S) /\ Len(Append(q, x)) = Len(q) + 1
           /\ Range(Append(q, x)) = Range(q) \cup {x}
           /\ Single(q) /\ x \notin Range(q) => Single(Append(q, x))
<1>1. PICK p : p = Append(q, x)
  OBVIOUS
<1>2. /\ p \in Seq(S) /\ Len(p) = Len(q) + 1 /\ Len(q) \in Nat
      /\ \A i \in 1 .. Len(q) : p[i] = q[i]
      /\ p[Len(q) + 1] = x
  BY <1>1, AppendProperties, LenProperties
<1>3. Range(p) = {p[i] : i \in 1 .. Len(p)} /\ Range(q) = {q[i] : i \in 1 .. Len(q)}
  BY <1>2, RangeEquality
<1>4. \A i \in 1 .. Len(p) : i \in 1 .. Len(q) \/ i = Len(q) + 1
  BY <1>2
<1>5. 1 .. Len(q) \subseteq 1 .. Len(p) /\ Len(q) + 1 \in 1 .. Len(p)
  BY <1>2
<1>6. Range(p) = Range(q) \cup {x}
  <2>1. Range(p) \subseteq Range(q) \cup {x}
    BY <1>2, <1>3, <1>4
  <2>2. Range(q) \cup {x} \subseteq Range(p)
    BY <1>2, <1>3, <1>5
  <2> QED BY <2>1, <2>2
<1>7. ASSUME Single(q), x \notin Range(q), NEW i \in 1 .. Len(p), NEW j \in 1 .. Len(p), p[i] = p[j]
      PROVE  i = j
  BY <1>2, <1>3, <1>4, <1>7 DEF Single
<1> QED BY <1>1, <1>2, <1>6, <1>7 DEF Single

\* A queue that loses its head.
LEMMA QueueLess ==
    ASSUME NEW S, NEW q \in Seq(S), q # << >>
    PROVE  /\ Head(q) \in S /\ Tail(q) \in Seq(S) /\ Len(Tail(q)) = Len(q) - 1
           /\ Len(q) \in Nat /\ Len(q) > 0
           /\ Head(q) \in Range(q) /\ Range(q) = Range(Tail(q)) \cup {Head(q)}
           /\ Single(q) => Single(Tail(q)) /\ Head(q) \notin Range(Tail(q))
<1>1. PICK p : p = Tail(q)
  OBVIOUS
<1>2. PICK h : h = Head(q)
  OBVIOUS
<1>3. /\ p \in Seq(S) /\ Len(p) = Len(q) - 1 /\ Len(q) \in Nat /\ Len(q) > 0 /\ h \in S
      /\ \A i \in 1 .. Len(p) : p[i] = q[i + 1]
      /\ h = q[1]
  BY <1>1, <1>2, HeadTailProperties, LenProperties, EmptySeq
<1>4. Range(p) = {p[i] : i \in 1 .. Len(p)} /\ Range(q) = {q[i] : i \in 1 .. Len(q)}
  BY <1>3, RangeEquality
<1>5. /\ \A i \in 1 .. Len(q) : i = 1 \/ (i - 1 \in 1 .. Len(p) /\ (i - 1) + 1 = i)
      /\ \A i \in 1 .. Len(p) : i + 1 \in 1 .. Len(q) /\ i + 1 # 1
      /\ 1 \in 1 .. Len(q)
  BY <1>3
<1>6. Range(q) = Range(p) \cup {h}
  <2>1. Range(q) \subseteq Range(p) \cup {h}
    <3>1. ASSUME NEW i \in 1 .. Len(q) PROVE q[i] \in Range(p) \cup {h}
      <4>1. CASE i = 1
        BY <1>3, <4>1
      <4>2. CASE i - 1 \in 1 .. Len(p) /\ (i - 1) + 1 = i
        <5>1. p[i - 1] = q[i]
          BY <1>3, <4>2
        <5> QED BY <1>4, <4>2, <5>1
      <4> QED BY <1>5, <4>1, <4>2
    <3> QED BY <1>4, <3>1
  <2>2. Range(p) \cup {h} \subseteq Range(q)
    BY <1>3, <1>4, <1>5
  <2> QED BY <2>1, <2>2
<1>7. ASSUME Single(q) PROVE Single(p) /\ h \notin Range(p)
  <2>1. ASSUME NEW i \in 1 .. Len(p), NEW j \in 1 .. Len(p), p[i] = p[j] PROVE i = j
    <3>1. q[i + 1] = q[j + 1] /\ i + 1 \in 1 .. Len(q) /\ j + 1 \in 1 .. Len(q)
      BY <1>3, <1>5, <2>1
    <3>2. i + 1 = j + 1
      BY <1>7, <3>1 DEF Single
    <3> QED BY <3>2
  <2>2. ASSUME NEW i \in 1 .. Len(p), p[i] = h PROVE FALSE
    BY <1>3, <1>5, <1>7, <2>2 DEF Single
  <2> QED BY <1>4, <2>1, <2>2 DEF Single
<1> QED BY <1>1, <1>2, <1>3, <1>4, <1>5, <1>6, <1>7

\* A message sent over the ring is the last one.
LEMMA MessToRing ==
    ASSUME NEW f, NEW W, NEW Q, NEW lo, NEW hi, MessAt(f, W, Q, lo, hi), lo <= hi,
           NEW x, x \notin DOMAIN f,
           NEW e, DOMAIN e = DOMAIN f \cup {x}, e[x] = hi, \A y \in DOMAIN f : e[y] = f[y]
    PROVE  MessAt(e, W, Q, lo, hi + 1)
<1> DEFINE D == DOMAIN f
           R == Range(W) \cup Range(Q)
<1>1. /\ lo \in Nat /\ hi \in Nat /\ W \in Seq(Nat) /\ Q \in Seq(Nat)
      /\ IsFiniteSet(D) /\ \A y, z \in D : f[y] = f[z] => y = z
      /\ Single(W) /\ Single(Q) /\ Range(W) \cap Range(Q) = {}
      /\ \A y \in D : f[y] \notin R
      /\ {f[y] : y \in D} \cup R = lo .. hi - 1
      /\ Cardinality(D) + Len(W) + Len(Q) = hi - lo
  BY DEF MessAt
<1>2. IsFiniteSet(D \cup {x}) /\ Cardinality(D \cup {x}) = Cardinality(D) + 1
  BY <1>1, FS_AddElement
<1> HIDE DEF D, R
<1>3. Cardinality(D) \in Nat /\ Len(W) \in Nat /\ Len(Q) \in Nat
  BY <1>1, FS_CardinalityType, LenProperties
<1>4. hi \notin lo .. hi - 1 /\ (lo .. hi - 1) \cup {hi} = lo .. (hi + 1) - 1
  BY <1>1
<1>5. (\A y \in D : f[y] # hi) /\ hi \notin R
  BY <1>1, <1>4
<1>6. DOMAIN e = D \cup {x} /\ e[x] = hi /\ (\A y \in D : e[y] = f[y]) /\ x \notin D
  BY DEF D
<1>7. \A y, z \in DOMAIN e : e[y] = e[z] => y = z
  BY <1>1, <1>5, <1>6
<1>8. \A y \in DOMAIN e : e[y] \notin R
  BY <1>1, <1>5, <1>6
<1>9. {e[y] : y \in DOMAIN e} \cup R = lo .. (hi + 1) - 1
  <2>1. {e[y] : y \in DOMAIN e} = {f[y] : y \in D} \cup {hi}
    BY <1>6
  <2> QED BY <1>1, <1>4, <2>1
<1>10. Cardinality(DOMAIN e) + Len(W) + Len(Q) = (hi + 1) - lo
  <2>1. Cardinality(DOMAIN e) = Cardinality(D) + 1
    BY <1>2, <1>6
  <2>2. PICK c, d, v, w : c = Cardinality(DOMAIN e) /\ d = Cardinality(D) /\ v = Len(W) /\ w = Len(Q)
    OBVIOUS
  <2>3. c = d + 1 /\ d \in Nat /\ v \in Nat /\ w \in Nat /\ d + v + w = hi - lo
    BY <1>1, <1>3, <2>1, <2>2
  <2>4. c + v + w = (hi + 1) - lo
    BY ONLY <1>1, <2>3
  <2> QED BY <2>2, <2>4
<1>11. IsFiniteSet(DOMAIN e) /\ hi + 1 \in Nat
  BY <1>1, <1>2, <1>6
<1> QED BY <1>1, <1>7, <1>8, <1>9, <1>10, <1>11 DEF MessAt, R

\* One sent by the send/receive path too.
LEMMA MessToQueue ==
    ASSUME NEW f, NEW W, NEW Q, NEW lo, NEW hi, MessAt(f, W, Q, lo, hi), lo <= hi
    PROVE  MessAt(f, Append(W, hi), Q, lo, hi + 1)
<1>1. /\ lo \in Nat /\ hi \in Nat /\ W \in Seq(Nat) /\ Q \in Seq(Nat)
      /\ Single(W) /\ Range(W) \cap Range(Q) = {}
      /\ IsFiniteSet(DOMAIN f)
      /\ \A y \in DOMAIN f : f[y] \notin Range(W) \cup Range(Q)
      /\ {f[y] : y \in DOMAIN f} \cup (Range(W) \cup Range(Q)) = lo .. hi - 1
      /\ Cardinality(DOMAIN f) + Len(W) + Len(Q) = hi - lo
  BY DEF MessAt
<1>2. PICK V : V = Append(W, hi)
  OBVIOUS
<1>3. hi \notin lo .. hi - 1 /\ (lo .. hi - 1) \cup {hi} = lo .. (hi + 1) - 1
  BY <1>1
<1>4. hi \notin Range(W) /\ hi \notin Range(Q) /\ \A y \in DOMAIN f : f[y] # hi
  BY <1>1, <1>3
<1>5. V \in Seq(Nat) /\ Len(V) = Len(W) + 1 /\ Range(V) = Range(W) \cup {hi} /\ Single(V)
  BY <1>1, <1>2, <1>4, QueueMore
<1>6. Range(V) \cap Range(Q) = {} /\ \A y \in DOMAIN f : f[y] \notin Range(V) \cup Range(Q)
  BY <1>1, <1>4, <1>5
<1>7. {f[y] : y \in DOMAIN f} \cup (Range(V) \cup Range(Q)) = lo .. (hi + 1) - 1
  BY <1>1, <1>3, <1>5
<1>8. Cardinality(DOMAIN f) \in Nat /\ Len(W) \in Nat /\ Len(Q) \in Nat
  BY <1>1, FS_CardinalityType, LenProperties
<1>9. Cardinality(DOMAIN f) + Len(V) + Len(Q) = (hi + 1) - lo /\ hi + 1 \in Nat
  BY <1>1, <1>5, <1>8
<1>10. MessAt(f, V, Q, lo, hi + 1)
  BY <1>5, <1>6, <1>7, <1>9 DEF MessAt
<1> QED BY <1>2, <1>10

\* The next message is handed up from the ring.
LEMMA MessFromRing ==
    ASSUME NEW f, NEW W, NEW Q, NEW lo, NEW hi, MessAt(f, W, Q, lo, hi),
           NEW x \in DOMAIN f, f[x] = lo,
           NEW e, DOMAIN e = DOMAIN f \ {x}, \A y \in DOMAIN e : e[y] = f[y]
    PROVE  MessAt(e, W, Q, lo + 1, hi) /\ lo + 1 <= hi
<1> DEFINE D == DOMAIN f
           R == Range(W) \cup Range(Q)
<1>1. /\ lo \in Nat /\ hi \in Nat /\ W \in Seq(Nat) /\ Q \in Seq(Nat)
      /\ IsFiniteSet(D) /\ \A y, z \in D : f[y] = f[z] => y = z
      /\ Single(W) /\ Single(Q) /\ Range(W) \cap Range(Q) = {}
      /\ \A y \in D : f[y] \notin R
      /\ {f[y] : y \in D} \cup R = lo .. hi - 1
      /\ Cardinality(D) + Len(W) + Len(Q) = hi - lo
  BY DEF MessAt
<1>2. IsFiniteSet(D \ {x}) /\ Cardinality(D \ {x}) = Cardinality(D) - 1
  BY <1>1, FS_RemoveElement
<1> HIDE DEF D, R
<1>3. Cardinality(D) \in Nat /\ Len(W) \in Nat /\ Len(Q) \in Nat
  BY <1>1, FS_CardinalityType, LenProperties
<1>4. x \in D /\ f[x] = lo /\ DOMAIN e = D \ {x} /\ \A y \in D \ {x} : e[y] = f[y]
  BY DEF D
<1>5. lo \in lo .. hi - 1 /\ lo \notin R
  BY <1>1, <1>4
<1>6. lo + 1 <= hi /\ (lo .. hi - 1) \ {lo} = (lo + 1) .. hi - 1
  BY <1>1, <1>5
<1>7. {e[y] : y \in DOMAIN e} = {f[y] : y \in D} \ {lo}
  <2>1. ASSUME NEW y \in DOMAIN e PROVE e[y] \in {f[z] : z \in D} \ {lo}
    <3>1. y \in D /\ y # x /\ e[y] = f[y]
      BY <1>4
    <3>2. f[y] # lo
      BY <1>1, <1>4, <3>1
    <3> QED BY <3>1, <3>2
  <2>2. ASSUME NEW y \in D, f[y] # lo PROVE f[y] \in {e[z] : z \in DOMAIN e}
    <3>1. y \in DOMAIN e /\ e[y] = f[y]
      BY <1>4, <2>2
    <3> QED BY <3>1
  <2> QED BY <2>1, <2>2
<1>8. {e[y] : y \in DOMAIN e} \cup R = (lo + 1) .. hi - 1
  BY <1>1, <1>5, <1>6, <1>7
<1>9. /\ \A y, z \in DOMAIN e : e[y] = e[z] => y = z
      /\ \A y \in DOMAIN e : e[y] \notin R
  BY <1>1, <1>4
<1>10. Cardinality(DOMAIN e) + Len(W) + Len(Q) = hi - (lo + 1)
  BY <1>1, <1>2, <1>3, <1>4
<1>11. IsFiniteSet(DOMAIN e) /\ lo + 1 \in Nat
  BY <1>1, <1>2, <1>4
<1> QED BY <1>1, <1>6, <1>8, <1>9, <1>10, <1>11 DEF MessAt, R

\* It is handed up from the head of a queue.
LEMMA MessFromQueue ==
    ASSUME NEW f, NEW W, NEW Q, NEW lo, NEW hi, MessAt(f, W, Q, lo, hi),
           W # << >>, Head(W) = lo
    PROVE  MessAt(f, Tail(W), Q, lo + 1, hi) /\ lo + 1 <= hi
<1>1. /\ lo \in Nat /\ hi \in Nat /\ W \in Seq(Nat) /\ Q \in Seq(Nat)
      /\ Single(W) /\ Range(W) \cap Range(Q) = {}
      /\ IsFiniteSet(DOMAIN f)
      /\ \A y \in DOMAIN f : f[y] \notin Range(W) \cup Range(Q)
      /\ {f[y] : y \in DOMAIN f} \cup (Range(W) \cup Range(Q)) = lo .. hi - 1
      /\ Cardinality(DOMAIN f) + Len(W) + Len(Q) = hi - lo
  BY DEF MessAt
<1>2. PICK V : V = Tail(W)
  OBVIOUS
<1>3. /\ V \in Seq(Nat) /\ Len(V) = Len(W) - 1 /\ Len(W) \in Nat
      /\ lo \in Range(W) /\ Range(W) = Range(V) \cup {lo}
      /\ Single(V) /\ lo \notin Range(V)
  BY <1>1, <1>2, QueueLess
<1>4. lo \in lo .. hi - 1 /\ lo \notin Range(Q) /\ \A y \in DOMAIN f : f[y] # lo
  BY <1>1, <1>3
<1>5. lo + 1 <= hi /\ (lo .. hi - 1) \ {lo} = (lo + 1) .. hi - 1
  BY <1>1, <1>4
<1>6. Range(V) \cap Range(Q) = {} /\ \A y \in DOMAIN f : f[y] \notin Range(V) \cup Range(Q)
  BY <1>1, <1>3
<1>7. {f[y] : y \in DOMAIN f} \cup (Range(V) \cup Range(Q)) = (lo + 1) .. hi - 1
  BY <1>1, <1>3, <1>4, <1>5
<1>8. Cardinality(DOMAIN f) \in Nat /\ Len(Q) \in Nat
  BY <1>1, FS_CardinalityType, LenProperties
<1>9. Cardinality(DOMAIN f) + Len(V) + Len(Q) = hi - (lo + 1) /\ lo + 1 \in Nat
  BY <1>1, <1>3, <1>8
<1>10. MessAt(f, V, Q, lo + 1, hi)
  BY <1>3, <1>6, <1>7, <1>9 DEF MessAt
<1> QED BY <1>2, <1>5, <1>10

\* The two sequences of the send/receive path may change places.
LEMMA MessEitherWay ==
    \A f, W, Q, lo, hi : MessAt(f, W, Q, lo, hi) => MessAt(f, Q, W, lo, hi)
<1> SUFFICES ASSUME NEW f, NEW W, NEW Q, NEW lo, NEW hi, MessAt(f, W, Q, lo, hi)
             PROVE  MessAt(f, Q, W, lo, hi)
  OBVIOUS
<1>1. Range(W) \cup Range(Q) = Range(Q) \cup Range(W) /\ Range(W) \cap Range(Q) = Range(Q) \cap Range(W)
  OBVIOUS
<1>2. IsFiniteSet(DOMAIN f) /\ W \in Seq(Nat) /\ Q \in Seq(Nat)
  BY DEF MessAt
<1>3. Cardinality(DOMAIN f) \in Nat /\ Len(W) \in Nat /\ Len(Q) \in Nat
  BY <1>2, FS_CardinalityType, LenProperties
<1>4. Cardinality(DOMAIN f) + Len(W) + Len(Q) = Cardinality(DOMAIN f) + Len(Q) + Len(W)
  BY <1>3
<1> QED BY <1>1, <1>4 DEF MessAt

\* A message early by the send/receive path is queued.
LEMMA MessQueued ==
    ASSUME NEW f, NEW W, NEW Q, NEW lo, NEW hi, MessAt(f, W, Q, lo, hi), W # << >>
    PROVE  MessAt(f, Tail(W), Append(Q, Head(W)), lo, hi)
<1>1. /\ W \in Seq(Nat) /\ Q \in Seq(Nat)
      /\ Single(W) /\ Single(Q) /\ Range(W) \cap Range(Q) = {}
      /\ IsFiniteSet(DOMAIN f) /\ lo \in Nat /\ hi \in Nat
      /\ \A y \in DOMAIN f : f[y] \notin Range(W) \cup Range(Q)
      /\ {f[y] : y \in DOMAIN f} \cup (Range(W) \cup Range(Q)) = lo .. hi - 1
      /\ Cardinality(DOMAIN f) + Len(W) + Len(Q) = hi - lo
  BY DEF MessAt
<1>2. PICK V, h : V = Tail(W) /\ h = Head(W)
  OBVIOUS
<1>3. /\ V \in Seq(Nat) /\ Len(V) = Len(W) - 1 /\ Len(W) \in Nat /\ h \in Nat
      /\ h \in Range(W) /\ Range(W) = Range(V) \cup {h}
      /\ Single(V) /\ h \notin Range(V)
  BY <1>1, <1>2, QueueLess
<1>4. PICK P : P = Append(Q, h)
  OBVIOUS
<1>5. h \notin Range(Q)
  BY <1>1, <1>3
<1>6. P \in Seq(Nat) /\ Len(P) = Len(Q) + 1 /\ Range(P) = Range(Q) \cup {h} /\ Single(P)
  BY <1>1, <1>3, <1>4, <1>5, QueueMore
<1>7. Range(V) \cup Range(P) = Range(W) \cup Range(Q) /\ Range(V) \cap Range(P) = {}
  BY <1>1, <1>3, <1>6
<1>8. Cardinality(DOMAIN f) \in Nat /\ Len(Q) \in Nat
  BY <1>1, FS_CardinalityType, LenProperties
<1>9. Cardinality(DOMAIN f) + Len(V) + Len(P) = hi - lo
  BY <1>1, <1>3, <1>6, <1>8
<1>10. MessAt(f, V, P, lo, hi)
  BY <1>3, <1>6, <1>7, <1>9 DEF MessAt
<1> QED BY <1>2, <1>4, <1>10
-----------------------------------------------------------------------------
(* One slot: the write w on its way to it, the message m in it, the sender's copy c of  *)
(* its words and its head flag f.                                                       *)

Write == [len : 0 .. MaxLen, at : 0 .. MaxLen + 1, num : 0 .. MaxMsgs]
Message == [head : Words, words : [Lens -> Words], num : 0 .. MaxMsgs]

\* A write of which words are still to land.
Partial(w) == w.len > 0 /\ w.at <= w.len

\* What has landed of a message is equal to the copy, as is what the slot held behind it;
\* in the place of its tail there is something else than its flag until it lands.
SlotOK(w, m, c, f) ==
    /\ w.len = 0 => m.words = c
    /\ w.len > 0 =>
          /\ w.at <= w.len + 1
          /\ f \in {w.len, w.len + ALT} /\ c[w.len] = f
          /\ \A i \in Lens : i < w.at \/ i > w.len => m.words[i] = c[i]
          /\ w.at = 0 => m.head = 0
          /\ 1 <= w.at /\ w.at <= w.len => m.head = f
          /\ w.at <= w.len => m.words[w.len] # f
          /\ w.at > w.len => m.num = w.num

\* Lengths are numbers that fit a word, with and without the mark (FAST_RDMA_ALT_TAG), and
\* FlagSize finds them in both.
LEMMA LensAre ==
    /\ MaxLen \in Nat /\ ALT \in Nat /\ ALT = MaxLen + 1
    /\ \A n \in Lens : /\ n \in Nat /\ n > 0 /\ n <= MaxLen /\ n \in Words /\ n + ALT \in Words
                       /\ n % ALT = n /\ (n + ALT) % ALT = n /\ n # n + ALT
    /\ 0 \in Words
<1>1. MaxLen \in Nat /\ MaxLen > 0 /\ ALT = MaxLen + 1 /\ ALT \in Nat
  BY FastAssumption DEF ALT
<1>2. ASSUME NEW n \in Lens
      PROVE  /\ n \in Nat /\ n > 0 /\ n <= MaxLen /\ n \in Words /\ n + ALT \in Words
             /\ n % ALT = n /\ (n + ALT) % ALT = n /\ n # n + ALT
  <2>1. n \in Nat /\ n > 0 /\ n <= MaxLen /\ n < ALT
    BY <1>1 DEF Lens
  <2>2. n \in Words /\ n + ALT \in Words
    BY <1>1, <2>1 DEF Words
  <2>3. n % ALT = n
    BY <1>1, <2>1
  <2>4. (n + ALT) % ALT = n
    BY <1>1, <2>1
  <2> QED BY <1>1, <2>1, <2>2, <2>3, <2>4
<1>3. 0 \in Words
  BY <1>1 DEF Words
<1> QED BY <1>1, <1>2, <1>3

\* A message is put into a slot whose last one has been given back.
LEMMA SlotSent ==
    ASSUME NEW w \in Write, NEW m \in Message, NEW c \in [Lens -> Words], NEW f,
           SlotOK(w, m, c, f), w.len = 0, m.head = 0, NEW n \in Lens, NEW k \in Numbers,
           NEW d \in [1 .. n - 1 -> Words],
           NEW e, e = [i \in Lens |-> IF i < n THEN d[i] ELSE IF i = n THEN TailFlag(c[n], n)
                                                              ELSE c[i]]
    PROVE  /\ SlotOK([len |-> n, at |-> 0, num |-> k], m, e, TailFlag(c[n], n))
           /\ e \in [Lens -> Words] /\ TailFlag(c[n], n) \in Words
           /\ [len |-> n, at |-> 0, num |-> k] \in Write
<1> DEFINE g == TailFlag(c[n], n)
           v == [len |-> n, at |-> 0, num |-> k]
<1>1. /\ n \in Nat /\ n > 0 /\ n <= MaxLen /\ n \in Words /\ n + ALT \in Words /\ n # n + ALT
      /\ MaxLen \in Nat /\ ALT \in Nat
  BY LensAre
<1>2. g \in {n, n + ALT} /\ g # c[n] /\ g \in Words
  BY <1>1 DEF TailFlag
<1> HIDE DEF g
<1>3. ASSUME NEW i \in Lens
      PROVE  (i < n => e[i] = d[i] /\ i \in 1 .. n - 1) /\ (i = n => e[i] = g)
             /\ (i > n => e[i] = c[i])
  <2>1. i \in Nat /\ i > 0
    BY LensAre
  <2> QED BY <1>1, <2>1 DEF g
<1>4. e \in [Lens -> Words]
  <2>1. ASSUME NEW i \in Lens PROVE e[i] \in Words
    <3>1. i \in Nat
      BY LensAre
    <3>2. i < n \/ i = n \/ i > n
      BY <1>1, <3>1
    <3> QED BY <1>2, <1>3, <3>2
  <2>2. e = [i \in Lens |-> e[i]]
    OBVIOUS
  <2> QED BY <2>1, <2>2
<1>5. m.words = c
  BY DEF SlotOK
<1>6. v.len = n /\ v.at = 0 /\ v.num = k
  OBVIOUS
<1>7. v \in Write
  <2>1. k \in 0 .. MaxMsgs
    BY FastAssumption DEF Numbers
  <2>2. n \in 0 .. MaxLen /\ 0 \in 0 .. MaxLen + 1
    BY <1>1
  <2> QED BY <2>1, <2>2 DEF Write
<1> HIDE DEF v
<1>8. \A i \in Lens : i < 0 \/ i > n => m.words[i] = e[i]
  <2>1. \A i \in Lens : ~(i < 0)
    BY LensAre
  <2> QED BY <1>3, <1>5, <2>1
<1>9. SlotOK(v, m, e, g)
  BY <1>1, <1>2, <1>3, <1>5, <1>6, <1>8 DEF SlotOK
<1> QED BY <1>2, <1>4, <1>7, <1>9 DEF g, v

\* The write and the message after the next word has landed.
Landing(w, m, c, f, v, l) ==
    /\ v = [w EXCEPT !.at = @ + 1]
    /\ l.head = IF w.at = 0 THEN f ELSE m.head
    /\ l.words = IF w.at = 0 THEN m.words ELSE [m.words EXCEPT ![w.at] = c[w.at]]
    /\ l.num = IF w.at = w.len THEN w.num ELSE m.num

\* The next word of a write lands.
LEMMA SlotLands ==
    ASSUME NEW w \in Write, NEW m \in Message, NEW c \in [Lens -> Words], NEW f \in Words,
           SlotOK(w, m, c, f), Partial(w), NEW v, NEW l, Landing(w, m, c, f, v, l)
    PROVE  /\ SlotOK(v, l, c, f) /\ v \in Write
           /\ v.len = w.len /\ v.num = w.num /\ (Partial(v) \/ l.head # 0)
           /\ l.head \in Words /\ l.words \in [Lens -> Words] /\ l.num \in 0 .. MaxMsgs
<1>0. /\ v = [w EXCEPT !.at = @ + 1]
      /\ l.head = IF w.at = 0 THEN f ELSE m.head
      /\ l.words = IF w.at = 0 THEN m.words ELSE [m.words EXCEPT ![w.at] = c[w.at]]
      /\ l.num = IF w.at = w.len THEN w.num ELSE m.num
  BY DEF Landing
<1>1. /\ w.len \in Lens /\ w.len \in Nat /\ w.at \in Nat /\ w.at <= w.len /\ w.len > 0
      /\ w.len <= MaxLen /\ MaxLen \in Nat /\ ALT \in Nat
  BY LensAre DEF Write, Partial, Lens
<1>2. /\ v \in Write /\ v.len = w.len /\ v.at = w.at + 1 /\ v.num = w.num
  <2>1. v.len = w.len /\ v.at = w.at + 1 /\ v.num = w.num
    BY <1>0 DEF Write
  <2>2. w.at + 1 \in 0 .. MaxLen + 1
    BY <1>1
  <2> QED BY <1>0, <2>1, <2>2 DEF Write
<1>3. /\ f \in {w.len, w.len + ALT} /\ c[w.len] = f
      /\ \A i \in Lens : i < w.at \/ i > w.len => m.words[i] = c[i]
      /\ w.at = 0 => m.head = 0
      /\ 1 <= w.at => m.head = f
      /\ m.words[w.len] # f
  BY <1>1 DEF SlotOK
<1>4. l.head = f /\ f # 0
  BY <1>0, <1>1, <1>3
<1>5. m.words \in [Lens -> Words] /\ m.num \in 0 .. MaxMsgs /\ w.num \in 0 .. MaxMsgs
  BY DEF Message, Write
<1>6. w.at > 0 => w.at \in Lens
  BY <1>1 DEF Lens
<1>7. ASSUME NEW i \in Lens
      PROVE  l.words[i] = IF i = w.at THEN c[i] ELSE m.words[i]
  <2>1. i > 0 /\ i \in Nat
    BY LensAre
  <2>2. CASE w.at = 0
    BY <1>0, <2>1, <2>2
  <2>3. CASE w.at # 0
    BY <1>0, <1>1, <1>5, <1>6, <2>3
  <2> QED BY <2>2, <2>3
<1>8. l.words \in [Lens -> Words]
  BY <1>0, <1>1, <1>5, <1>6
<1>9. \A i \in Lens : i < w.at + 1 \/ i > w.len => l.words[i] = c[i]
  <2>1. ASSUME NEW i \in Lens, i < w.at + 1 \/ i > w.len PROVE l.words[i] = c[i]
    <3>0. i \in Nat
      BY LensAre
    <3>1. i = w.at \/ i < w.at \/ i > w.len
      BY <1>1, <2>1, <3>0
    <3> QED BY <1>3, <1>7, <3>1
  <2> QED BY <2>1
<1>10. w.at + 1 <= w.len => l.words[w.len] # f
  <2>1. w.at + 1 <= w.len => w.at # w.len
    BY <1>1
  <2> QED BY <1>1, <1>3, <1>7, <2>1
<1>11. w.at + 1 > w.len => l.num = w.num
  BY <1>0, <1>1
<1>12. SlotOK(v, l, c, f)
  <2>1. w.at + 1 # 0 /\ w.at + 1 <= w.len + 1
    BY <1>1
  <2> QED BY <1>1, <1>2, <1>3, <1>4, <1>9, <1>10, <1>11, <2>1 DEF SlotOK
<1>13. Partial(v) \/ l.head # 0
  BY <1>4
<1>14. l.head \in Words /\ l.num \in 0 .. MaxMsgs
  BY <1>0, <1>4, <1>5
<1> QED BY <1>2, <1>8, <1>12, <1>13, <1>14

\* The completion of a write: the copy is what is in the slot.
LEMMA SlotDone ==
    ASSUME NEW w \in Write, NEW m \in Message, NEW c \in [Lens -> Words], NEW f,
           SlotOK(w, m, c, f), w.len > 0, w.at > w.len
    PROVE  SlotOK(NoWrite, m, c, f) /\ NoWrite \in Write /\ NoWrite.len = 0
<1>1. \A i \in Lens : m.words[i] = c[i]
  <2>1. ASSUME NEW i \in Lens PROVE i < w.at \/ i > w.len
    BY LensAre DEF Write
  <2> QED BY <2>1 DEF SlotOK
<1>2. m.words \in [Lens -> Words]
  BY DEF Message
<1>3. m.words = c
  BY <1>1, <1>2
<1>4. NoWrite.len = 0 /\ NoWrite.at = 0 /\ NoWrite.num = 0
  BY DEF NoWrite
<1>5. NoWrite \in Write
  BY FastAssumption DEF NoWrite, Write
<1> QED BY <1>3, <1>4, <1>5 DEF SlotOK

\* The head flag of a message that has arrived may be cleared.
LEMMA SlotCleared ==
    ASSUME NEW w \in Write, NEW m, NEW c, NEW f, SlotOK(w, m, c, f), ~Partial(w),
           NEW l, l.words = m.words, l.num = m.num
    PROVE  SlotOK(w, l, c, f)
<1>1. w.len \in Nat /\ w.at \in Nat
  BY FastAssumption DEF Write
<1>2. CASE w.len = 0
  BY <1>2 DEF SlotOK
<1>3. CASE w.len > 0 /\ w.at > w.len
  BY <1>1, <1>3 DEF SlotOK
<1> QED BY <1>1, <1>2, <1>3 DEF Partial

\* Equal flags tell that all of the message is there.
LEMMA FlagsTell ==
    ASSUME NEW w \in Write, NEW m, NEW c, NEW f, SlotOK(w, m, c, f), m.head # 0,
           m.words[FlagSize(m.head)] = m.head
    PROVE  ~Partial(w)
<1> SUFFICES ASSUME Partial(w) PROVE FALSE
  OBVIOUS
<1>1. w.len \in Lens /\ w.len \in Nat /\ w.at \in Nat /\ w.at <= w.len /\ w.len > 0
  BY LensAre DEF Write, Partial, Lens
<1>2. /\ f \in {w.len, w.len + ALT} /\ m.words[w.len] # f
      /\ (w.at = 0 => m.head = 0) /\ (1 <= w.at => m.head = f)
  BY <1>1 DEF SlotOK
<1>3. m.head = f
  BY <1>1, <1>2
<1>4. FlagSize(f) = w.len
  BY <1>1, <1>2, LensAre DEF FlagSize
<1> QED BY <1>2, <1>3, <1>4
-----------------------------------------------------------------------------
(* The invariant of the slots and the ring. *)

ShapeInv ==
    /\ nextToSend \in 0 .. MaxMsgs /\ nextToRecv \in Nat
    /\ phead \in Slots /\ ptail \in Slots /\ pRecv \in Slots /\ pTail \in Slots
    /\ busy \subseteq Slots /\ using \subseteq Slots /\ freed \subseteq Slots
    /\ copy \in [Slots -> [Lens -> Words]] /\ flag \in [Slots -> Words]
    /\ writes \in [Slots -> Write] /\ slot \in [Slots -> Message]
    /\ srWire \in Seq(Numbers) /\ srQueue \in Seq(Numbers) /\ ringQueue \in Seq(Slots)
    /\ creditWire \in Seq(1 .. NumSlots) /\ credit \in Nat
    /\ blocking \in BOOLEAN

SlotsInv ==
    /\ \A s \in Slots : SlotOK(writes[s], slot[s], copy[s], flag[s])
    /\ busy = {s \in Slots : writes[s].len > 0}

\* The slots that the receiver has polled and not given back, how many they are, how many
\* are sent and not polled, and how many are on their way back.
Held == using \cup freed \cup Range(ringQueue)
Polled == Cardinality(using) + Cardinality(freed) + Len(ringQueue)
Sent == Cardinality(Unpolled)
Given == credit + SumFunction(creditWire)

RingInv ==
    /\ using \cap freed = {} /\ using \cap Range(ringQueue) = {}
    /\ freed \cap Range(ringQueue) = {} /\ Single(ringQueue)
    /\ \A s \in freed : slot[s].head = 0
    /\ Next_(pTail) \notin freed
    /\ RingAt(pTail, Polled, Sent, Given, pRecv, phead, ptail, Held, Unpolled)

Core == ShapeInv /\ SlotsInv /\ RingInv

\* The slots of the ring queue.
InQueue == Range(ringQueue)

\* Which slots are unpolled.
LEMMA UnpolledIs ==
    \A s : s \in Unpolled <=>
        s \in Slots /\ (Partial(writes[s]) \/ (slot[s].head # 0 /\ s \notin using \cup InQueue))
BY DEF Unpolled, Partial, InQueue

\* Which slots are unpolled after a step.
LEMMA UnpolledNext ==
    \A s : s \in Unpolled' <=>
        s \in Slots /\ (Partial(writes'[s]) \/ (slot'[s].head # 0 /\ s \notin using' \cup InQueue'))
BY DEF Unpolled, Partial, InQueue, Slots

\* Sets of slots are finite.
LEMMA SlotSets ==
    ASSUME ShapeInv
    PROVE  /\ IsFiniteSet(Slots) /\ \A S \in SUBSET Slots : IsFiniteSet(S) /\ Cardinality(S) \in Nat
           /\ Unpolled \subseteq Slots /\ InQueue \subseteq Slots /\ Len(ringQueue) \in Nat
           /\ creditWire \in Seq(Nat) /\ SumFunction(creditWire) \in Nat /\ Given \in Nat
           /\ Polled \in Nat /\ Sent \in Nat
<1>1. IsFiniteSet(Slots)
  <2>1. 0 \in Int /\ NumSlots - 1 \in Int
    BY FastAssumption
  <2> QED BY <2>1, FS_Interval DEF Slots
<1>2. ASSUME NEW S \in SUBSET Slots PROVE IsFiniteSet(S) /\ Cardinality(S) \in Nat
  <2>1. IsFiniteSet(S)
    BY <1>1, FS_Subset
  <2> QED BY <2>1, FS_CardinalityType
<1>3. Unpolled \subseteq Slots
  BY DEF Unpolled
<1>4. InQueue \subseteq Slots /\ Len(ringQueue) \in Nat
  <2>1. ringQueue \in Seq(Slots)
    BY DEF ShapeInv
  <2> QED BY <2>1, RangeOfSeq, LenProperties DEF InQueue
<1>5. creditWire \in Seq(Nat)
  <2>1. creditWire \in Seq(1 .. NumSlots) /\ 1 .. NumSlots \subseteq Nat
    BY FastAssumption DEF ShapeInv
  <2> QED BY <2>1, SeqMonotonic
<1>6. SumFunction(creditWire) \in Nat
  BY <1>5, SumNat
<1>7. credit \in Nat /\ using \subseteq Slots /\ freed \subseteq Slots
  BY DEF ShapeInv
<1>8. Given \in Nat
  BY <1>6, <1>7 DEF Given
<1>9. Polled \in Nat
  <2>1. Cardinality(using) \in Nat /\ Cardinality(freed) \in Nat
    BY <1>2, <1>7
  <2> QED BY <1>4, <2>1 DEF Polled
<1>10. Sent \in Nat
  BY <1>2, <1>3 DEF Sent
<1> QED BY <1>1, <1>2, <1>3, <1>4, <1>5, <1>6, <1>8, <1>9, <1>10

\* No part of a message is still to land in a slot that is held or free.
LEMMA Landed ==
    ASSUME Core, NEW s \in Slots, s \notin Unpolled
    PROVE  ~Partial(writes[s]) /\ (s \notin using \cup InQueue => slot[s].head = 0)
BY UnpolledIs

\* The receiver holds no slot that it has still to poll.
LEMMA HeldApart ==
    ASSUME Core
    PROVE  Held \cap Unpolled = {} /\ Held \subseteq Slots
<1>1. /\ pTail \in Slots
      /\ Held \subseteq Slots
      /\ \A i \in 0 .. NumSlots - 1 : /\ At(pTail, i) \in Held <=> i < Polled
                                      /\ At(pTail, i) \in Unpolled <=>
                                            Polled <= i /\ i < Polled + Sent
      /\ Polled \in Nat
  BY DEF Core, RingInv, RingAt
<1>2. ASSUME NEW s \in Held, s \in Unpolled PROVE FALSE
  <2>1. PICK i \in 0 .. NumSlots - 1 : s = At(pTail, i)
    BY <1>1, OnePlace
  <2>2. i < Polled /\ Polled <= i
    BY <1>1, <1>2, <2>1
  <2>3. i \in Nat
    BY FastAssumption
  <2> QED BY <1>1, <2>2, <2>3
<1> QED BY <1>1, <1>2

\* What a step leaves of the ring when it changes no pointers and no sets of slots.
LEMMA RingStays ==
    ASSUME RingInv, UNCHANGED <<pTail, pRecv, phead, ptail, using, freed, ringQueue>>,
           Unpolled' = Unpolled, Given' = Given, \A s \in freed : slot'[s].head = 0
    PROVE  RingInv'
<1>1. Held' = Held /\ Polled' = Polled /\ Sent' = Sent
  BY DEF Held, Polled, Sent
<1>2. RingAt(pTail, Polled, Sent, Given, pRecv, phead, ptail, Held, Unpolled)'
         <=> RingAt(pTail, Polled, Sent, Given, pRecv, phead, ptail, Held, Unpolled)
  BY <1>1 DEF RingAt, At, Slots
<1> QED BY <1>1, <1>2 DEF RingInv, Next_, Single

\* RingAt after a step, of the values after it.
LEMMA RingAtNext ==
    ASSUME NEW t, NEW a, NEW b, NEW g, NEW recv, NEW head, NEW tail, NEW H, NEW U,
           RingAt(t, a, b, g, recv, head, tail, H, U),
           pTail' = t, Polled' = a, Sent' = b, Given' = g, pRecv' = recv, phead' = head,
           ptail' = tail, Held' = H, Unpolled' = U
    PROVE  RingAt(pTail, Polled, Sent, Given, pRecv, phead, ptail, Held, Unpolled)'
BY DEF RingAt, At, Slots

\* The invariant holds at first.
LEMMA CoreAtFirst == Init => Core
<1> SUFFICES ASSUME Init PROVE Core
  OBVIOUS
<1>0. NumSlots \in Nat /\ NumSlots > 1 /\ MaxMsgs \in Nat /\ MaxLen \in Nat
  BY FastAssumption
<1>1. PICK z : z = << >>
  OBVIOUS
<1>2. 0 \in Slots /\ NumSlots - 1 \in Slots /\ 0 \in Words
  BY <1>0, LensAre DEF Slots
<1>3. /\ nextToSend = 0 /\ phead = 0 /\ ptail = NumSlots - 1 /\ busy = {}
      /\ nextToRecv = 0 /\ pRecv = 0 /\ pTail = NumSlots - 1
      /\ using = {} /\ freed = {} /\ credit = 0 /\ blocking = FALSE
      /\ srWire = z /\ creditWire = z /\ ringQueue = z /\ srQueue = z
  BY <1>1 DEF Init
<1>4. NoWrite \in Write /\ NoWrite.len = 0
  BY <1>0 DEF NoWrite, Write
<1>5. PICK c, m : /\ c = [w \in Lens |-> 0] /\ m = [head |-> 0, words |-> c, num |-> 0]
  OBVIOUS
<1>6. /\ c \in [Lens -> Words] /\ m \in Message /\ m.head = 0 /\ m.words = c
      /\ copy = [s \in Slots |-> c] /\ slot = [s \in Slots |-> m]
      /\ writes = [s \in Slots |-> NoWrite] /\ flag = [s \in Slots |-> 0]
  BY <1>0, <1>2, <1>5 DEF Init, Message
<1>7. ShapeInv
  <2>1. /\ z \in Seq(Numbers) /\ z \in Seq(Slots) /\ z \in Seq(1 .. NumSlots)
    BY <1>1
  <2>2. /\ copy \in [Slots -> [Lens -> Words]] /\ flag \in [Slots -> Words]
        /\ writes \in [Slots -> Write] /\ slot \in [Slots -> Message]
    BY <1>2, <1>4, <1>6
  <2>3. nextToSend \in 0 .. MaxMsgs /\ nextToRecv \in Nat /\ credit \in Nat
    <3>1. nextToSend = 0 /\ nextToRecv = 0 /\ credit = 0
      BY <1>3
    <3> QED BY ONLY <1>0, <3>1
  <2>7. blocking \in BOOLEAN
    BY <1>3
  <2>4. phead \in Slots /\ ptail \in Slots /\ pRecv \in Slots /\ pTail \in Slots
    BY <1>2, <1>3
  <2>5. busy \subseteq Slots /\ using \subseteq Slots /\ freed \subseteq Slots
    BY <1>3
  <2>6. /\ srWire \in Seq(Numbers) /\ srQueue \in Seq(Numbers) /\ ringQueue \in Seq(Slots)
        /\ creditWire \in Seq(1 .. NumSlots)
    BY <1>3, <2>1
  <2> QED BY <2>2, <2>3, <2>4, <2>5, <2>6, <2>7 DEF ShapeInv
<1>8. SlotsInv
  <2>1. SlotOK(NoWrite, m, c, 0)
    BY <1>4, <1>6 DEF SlotOK
  <2>2. \A s \in Slots : SlotOK(writes[s], slot[s], copy[s], flag[s])
    BY <1>6, <2>1
  <2>3. \A s \in Slots : ~(writes[s].len > 0)
    BY <1>4, <1>6
  <2> QED BY <1>3, <2>2, <2>3 DEF SlotsInv
<1>9. RingInv
  <2>1. Range(ringQueue) = {} /\ Len(ringQueue) = 0
    BY <1>1, <1>3 DEF Range
  <2>2. Held = {} /\ Polled = 0
    BY <1>3, <2>1, FS_EmptySet DEF Held, Polled
  <2>3. Unpolled = {}
    <3>1. \A s \in Slots : slot[s].head = 0 /\ ~Partial(writes[s])
      BY <1>4, <1>6 DEF Partial
    <3> QED BY <3>1, UnpolledIs
  <2>4. Sent = 0
    BY <2>3, FS_EmptySet DEF Sent
  <2>5. Given = 0
    <3>1. SumFunction(creditWire) = 0
      BY <1>1, <1>3, SumEmpty
    <3> QED BY <1>3, <3>1 DEF Given
  <2>6. At(NumSlots - 1, 0) = 0 /\ At(NumSlots - 1, 0 + 0) = 0
        /\ At(NumSlots - 1, NumSlots - 1 - 0) = NumSlots - 1
    <3>1. 0 \in 0 .. NumSlots - 1 /\ NumSlots - 1 \in 0 .. NumSlots - 1
      BY <1>0
    <3>2. At(NumSlots - 1, 0) = 0
      BY <1>0, <1>2, <3>1, AtIs
    <3>3. At(NumSlots - 1, NumSlots - 1) = NumSlots - 1
      BY <1>0, <1>2, <3>1, AtIs
    <3> QED BY <1>0, <3>2, <3>3
  <2>7. \A i \in 0 .. NumSlots - 1 : ~(i < 0) /\ ~(0 <= i /\ i < 0 + 0)
    BY <1>0
  <2>8. RingAt(NumSlots - 1, 0, 0, 0, 0, 0, NumSlots - 1, {}, {})
    BY <1>0, <1>2, <2>6, <2>7 DEF RingAt
  <2> QED BY <1>3, <2>1, <2>2, <2>3, <2>4, <2>5, <2>8 DEF RingInv, Single
<1> QED BY <1>7, <1>8, <1>9 DEF Core
-----------------------------------------------------------------------------
(* Each step keeps the invariant: the sender and the network. *)

\* SlotsInv after a step, of the values after it.
LEMMA SlotsNext ==
    ASSUME \A s \in Slots : SlotOK(writes'[s], slot'[s], copy'[s], flag'[s]),
           busy' = {s \in Slots : writes'[s].len > 0}
    PROVE  SlotsInv'
BY DEF SlotsInv, SlotOK, Slots, Lens, ALT

\* A step that changes one slot.
LEMMA OneSlot ==
    ASSUME SlotsInv, NEW s \in Slots,
           \A t \in Slots \ {s} : /\ writes'[t] = writes[t] /\ slot'[t] = slot[t]
                                  /\ copy'[t] = copy[t] /\ flag'[t] = flag[t],
           SlotOK(writes'[s], slot'[s], copy'[s], flag'[s]),
           busy' = IF writes'[s].len > 0 THEN busy \cup {s} ELSE busy \ {s}
    PROVE  SlotsInv'
<1>1. ASSUME NEW t \in Slots PROVE SlotOK(writes'[t], slot'[t], copy'[t], flag'[t])
  <2>1. CASE t = s
    BY <2>1
  <2>2. CASE t # s
    <3>1. SlotOK(writes[t], slot[t], copy[t], flag[t])
      BY DEF SlotsInv
    <3> QED BY <2>2, <3>1
  <2> QED BY <2>1, <2>2
<1>2. busy' = {t \in Slots : writes'[t].len > 0}
  BY DEF SlotsInv
<1> QED BY <1>1, <1>2, SlotsNext

\* What the invariant says of one slot.
LEMMA OfSlot ==
    ASSUME ShapeInv, SlotsInv, NEW s \in Slots
    PROVE  /\ writes[s] \in Write /\ slot[s] \in Message
           /\ copy[s] \in [Lens -> Words] /\ flag[s] \in Words
           /\ SlotOK(writes[s], slot[s], copy[s], flag[s])
           /\ writes[s].len \in Nat /\ writes[s].at \in Nat
           /\ s \in busy <=> writes[s].len > 0
<1>1. /\ writes \in [Slots -> Write] /\ slot \in [Slots -> Message]
      /\ copy \in [Slots -> [Lens -> Words]] /\ flag \in [Slots -> Words]
  BY DEF ShapeInv
<1>2. writes[s] \in Write
  BY <1>1
<1>3. writes[s].len \in Nat /\ writes[s].at \in Nat
  BY <1>2, FastAssumption DEF Write
<1> QED BY <1>1, <1>2, <1>3 DEF SlotsInv

\* A message is put into the next slot.
LEMMA CoreSend ==
    ASSUME Core, NEW n \in Lens, NEW d \in DataOf(n), Fast_rdma_send(n, d)
    PROVE  /\ Core' /\ Unpolled' = Unpolled \cup {phead}
           /\ phead \in Slots /\ phead \notin Held /\ phead \notin Unpolled
<1>0. ShapeInv /\ SlotsInv /\ RingInv
  BY DEF Core
<1>1. RingAt(pTail, Polled, Sent, Given, pRecv, phead, ptail, Held, Unpolled)
  BY <1>0 DEF RingInv
<1>2. phead # ptail /\ phead \notin busy
  BY DEF Fast_rdma_send, Fast_rdma_ok
<1>3. /\ RingAt(pTail, Polled, Sent + 1, Given, pRecv, Next_(phead), ptail, Held, Unpolled \cup {phead})
      /\ phead \notin Held /\ phead \notin Unpolled /\ phead \in Slots
  BY <1>1, <1>2, RingSends
<1>4. PICK s : s = phead
  OBVIOUS
<1>5. slot[s].head = 0 /\ writes[s].len = 0
  <2>1. s \notin using \cup InQueue
    BY <1>3, <1>4 DEF Held, InQueue
  <2> QED BY <1>0, <1>2, <1>3, <1>4, <2>1, Landed, OfSlot
<1>6. d \in [1 .. n - 1 -> Words]
  BY DEF DataOf
<1>7. PICK e, g, v : /\ e = [i \in Lens |-> IF i < n THEN d[i] ELSE IF i = n THEN TailFlag(copy[s][n], n)
                                                               ELSE copy[s][i]]
                     /\ g = TailFlag(copy[s][n], n)
                     /\ v = [len |-> n, at |-> 0, num |-> nextToSend]
  OBVIOUS
<1>8. nextToSend \in Numbers /\ nextToSend + 1 \in 0 .. MaxMsgs
  BY <1>0, FastAssumption DEF ShapeInv, Fast_rdma_send, Numbers
<1>9. SlotOK(v, slot[s], e, g) /\ e \in [Lens -> Words] /\ g \in Words /\ v \in Write
  <2>1. PICK w, m, c, f : w = writes[s] /\ m = slot[s] /\ c = copy[s] /\ f = flag[s]
    OBVIOUS
  <2>2. w \in Write /\ m \in Message /\ c \in [Lens -> Words] /\ SlotOK(w, m, c, f)
    BY <1>0, <1>3, <1>4, <2>1, OfSlot
  <2>3. w.len = 0 /\ m.head = 0
    BY <1>5, <2>1
  <2>4. /\ e = [i \in Lens |-> IF i < n THEN d[i] ELSE IF i = n THEN TailFlag(c[n], n) ELSE c[i]]
        /\ g = TailFlag(c[n], n)
    BY <1>7, <2>1
  <2>5. /\ SlotOK([len |-> n, at |-> 0, num |-> nextToSend], m, e, TailFlag(c[n], n))
        /\ e \in [Lens -> Words] /\ TailFlag(c[n], n) \in Words
        /\ [len |-> n, at |-> 0, num |-> nextToSend] \in Write
    BY <1>6, <1>8, <2>2, <2>3, <2>4, SlotSent
  <2> QED BY <1>7, <2>1, <2>4, <2>5
<1>10. /\ copy' = [copy EXCEPT ![s] = e] /\ flag' = [flag EXCEPT ![s] = g]
       /\ writes' = [writes EXCEPT ![s] = v] /\ busy' = busy \cup {s}
       /\ phead' = Next_(phead) /\ nextToSend' = nextToSend + 1
       /\ UNCHANGED <<ptail, srWire, creditWire, nextToRecv, pRecv, slot, ringQueue, srQueue,
                      blocking, pTail, using, freed, credit>>
  BY <1>4, <1>7 DEF Fast_rdma_send, queueVars, freeVars
<1>11. /\ copy \in [Slots -> [Lens -> Words]] /\ flag \in [Slots -> Words]
       /\ writes \in [Slots -> Write] /\ s \in Slots
  BY <1>0, <1>3, <1>4 DEF ShapeInv
<1>12. ShapeInv'
  <2>1. Next_(phead) \in Slots
    <3>1. phead \in Nat /\ NumSlots \in Nat /\ NumSlots > 1
      BY <1>3, FastAssumption DEF Slots
    <3> QED BY <3>1 DEF Next_, Slots
  <2>2. /\ copy' \in [Slots -> [Lens -> Words]] /\ flag' \in [Slots -> Words]
        /\ writes' \in [Slots -> Write]
    BY <1>9, <1>10, <1>11
  <2>3. busy' \subseteq Slots
    BY <1>0, <1>10, <1>11 DEF ShapeInv
  <2> QED BY <1>0, <1>8, <1>10, <2>1, <2>2, <2>3
          DEF ShapeInv, Slots, Words, Lens, ALT, Write, Message, Numbers
<1>13. /\ writes'[s] = v /\ slot'[s] = slot[s] /\ copy'[s] = e /\ flag'[s] = g
       /\ \A t \in Slots \ {s} : /\ writes'[t] = writes[t] /\ slot'[t] = slot[t]
                                 /\ copy'[t] = copy[t] /\ flag'[t] = flag[t]
  BY <1>10, <1>11
<1>14. v.len = n /\ v.at = 0 /\ n > 0 /\ n \in Nat
  BY <1>7, LensAre
<1>15. SlotsInv'
  BY <1>0, <1>9, <1>10, <1>11, <1>13, <1>14, OneSlot
<1>16. Unpolled' = Unpolled \cup {s}
  <2>1. Partial(v)
    BY <1>14 DEF Partial
  <2>2. using' = using /\ InQueue' = InQueue
    BY <1>10 DEF InQueue
  <2>3. ASSUME NEW t PROVE t \in Unpolled' <=> t \in Unpolled \cup {s}
    <3>1. CASE t = s
      BY <1>11, <1>13, <2>1, <3>1, UnpolledNext
    <3>2. CASE t # s
      BY <1>13, <2>2, <3>2, UnpolledIs, UnpolledNext
    <3> QED BY <3>1, <3>2
  <2> QED BY <2>3
<1>17. Sent' = Sent + 1
  <2>1. IsFiniteSet(Unpolled) /\ s \notin Unpolled
    BY <1>0, <1>3, <1>4, SlotSets
  <2>2. Cardinality(Unpolled \cup {s}) = Cardinality(Unpolled) + 1
    BY <2>1, FS_AddElement
  <2> QED BY <1>16, <2>2 DEF Sent
<1>18. Held' = Held /\ Polled' = Polled /\ Given' = Given
  BY <1>10 DEF Held, Polled, Given
<1>19. RingAt(pTail, Polled, Sent, Given, pRecv, phead, ptail, Held, Unpolled)'
  <2>1. RingAt(pTail, Polled, Sent + 1, Given, pRecv, Next_(phead), ptail, Held, Unpolled \cup {s})
    BY <1>3, <1>4
  <2> QED BY <1>10, <1>16, <1>17, <1>18, <2>1, RingAtNext
<1>20. RingInv'
  BY <1>0, <1>10, <1>19 DEF RingInv, Next_, Single
<1> QED BY <1>3, <1>4, <1>12, <1>15, <1>16, <1>20 DEF Core

\* A message is sent by the send/receive path.
LEMMA CoreEager ==
    ASSUME Core, Eager_send
    PROVE  Core' /\ Unpolled' = Unpolled
<1>0. ShapeInv /\ SlotsInv /\ RingInv
  BY DEF Core
<1>1. nextToSend \in Numbers /\ nextToSend + 1 \in 0 .. MaxMsgs
  BY <1>0, FastAssumption DEF ShapeInv, Eager_send, Numbers
<1>2. /\ srWire' = Append(srWire, nextToSend) /\ nextToSend' = nextToSend + 1
      /\ UNCHANGED <<phead, ptail, busy, copy, flag, writes, creditWire, nextToRecv, pRecv, slot,
                     ringQueue, srQueue, blocking, pTail, using, freed, credit>>
  BY DEF Eager_send, queueVars, freeVars
<1>3. srWire' \in Seq(Numbers)
  <2>1. srWire \in Seq(Numbers)
    BY <1>0 DEF ShapeInv
  <2> QED BY <1>1, <1>2, <2>1, AppendProperties
<1>4. ShapeInv'
  BY <1>0, <1>1, <1>2, <1>3 DEF ShapeInv, Slots, Words, Lens, ALT, Write, Message, Numbers
<1>5. SlotsInv'
  BY <1>0, <1>2, SlotsNext DEF SlotsInv
<1>6. Unpolled' = Unpolled /\ Given' = Given
  BY <1>2 DEF Unpolled, Given, Slots
<1>7. \A s \in freed : slot'[s].head = 0
  BY <1>0, <1>2 DEF RingInv
<1>8. RingInv'
  BY <1>0, <1>2, <1>6, <1>7, RingStays
<1> QED BY <1>4, <1>5, <1>6, <1>8 DEF Core

\* A word lands.
LEMMA CoreLand ==
    ASSUME Core, NEW s \in Slots, Land(s)
    PROVE  /\ Core' /\ Unpolled' = Unpolled
           /\ writes'[s].len = writes[s].len /\ writes'[s].num = writes[s].num
<1>0. ShapeInv /\ SlotsInv /\ RingInv
  BY DEF Core
<1>1. PICK w, m, c, f : w = writes[s] /\ m = slot[s] /\ c = copy[s] /\ f = flag[s]
  OBVIOUS
<1>2. PICK v, l : v = writes'[s] /\ l = slot'[s]
  OBVIOUS
<1>3. /\ writes \in [Slots -> Write] /\ slot \in [Slots -> Message]
  BY <1>0 DEF ShapeInv
<1>4. /\ w \in Write /\ m \in Message /\ c \in [Lens -> Words] /\ f \in Words
      /\ SlotOK(w, m, c, f) /\ w.len \in Nat /\ w.at \in Nat /\ s \in busy <=> w.len > 0
  BY <1>0, <1>1, OfSlot
<1>5. w.len > 0 /\ w.at <= w.len /\ Partial(w)
  BY <1>1 DEF Land, Partial
<1>6. /\ writes' = [writes EXCEPT ![s] = [w EXCEPT !.at = @ + 1]]
      /\ slot' = [slot EXCEPT ![s] =
                     [m EXCEPT !.head = IF w.at = 0 THEN f ELSE m.head,
                               !.words = IF w.at = 0 THEN m.words ELSE [m.words EXCEPT ![w.at] = c[w.at]],
                               !.num = IF w.at = w.len THEN w.num ELSE m.num]]
      /\ UNCHANGED <<nextToSend, phead, ptail, busy, copy, flag, srWire, creditWire, nextToRecv, pRecv,
                     ringQueue, srQueue, blocking, pTail, using, freed, credit>>
  BY <1>1, <1>3 DEF Land, sendVars, queueVars, freeVars, Message, Write
<1>7. /\ v = [w EXCEPT !.at = @ + 1]
      /\ l.head = IF w.at = 0 THEN f ELSE m.head
      /\ l.words = IF w.at = 0 THEN m.words ELSE [m.words EXCEPT ![w.at] = c[w.at]]
      /\ l.num = IF w.at = w.len THEN w.num ELSE m.num
      /\ l = [head |-> l.head, words |-> l.words, num |-> l.num]
  BY <1>2, <1>3, <1>4, <1>6 DEF Message
<1>8. /\ SlotOK(v, l, c, f) /\ v \in Write
      /\ v.len = w.len /\ v.num = w.num /\ (Partial(v) \/ l.head # 0)
      /\ l.head \in Words /\ l.words \in [Lens -> Words] /\ l.num \in 0 .. MaxMsgs
  <2>1. Landing(w, m, c, f, v, l)
    BY <1>7 DEF Landing
  <2> QED BY <1>4, <1>5, <2>1, SlotLands
<1>9. l \in Message
  BY <1>7, <1>8 DEF Message
<1>10. /\ \A t \in Slots \ {s} : /\ writes'[t] = writes[t] /\ slot'[t] = slot[t]
                                 /\ copy'[t] = copy[t] /\ flag'[t] = flag[t]
       /\ copy'[s] = c /\ flag'[s] = f
  BY <1>1, <1>3, <1>6
<1>11. writes' \in [Slots -> Write] /\ slot' \in [Slots -> Message]
  <2>1. /\ DOMAIN writes' = Slots /\ DOMAIN slot' = Slots
        /\ writes' = [t \in Slots |-> writes'[t]] /\ slot' = [t \in Slots |-> slot'[t]]
    BY <1>3, <1>6
  <2>2. \A t \in Slots : writes'[t] \in Write /\ slot'[t] \in Message
    BY <1>2, <1>3, <1>8, <1>9, <1>10
  <2> QED BY <2>1, <2>2
<1>12. ShapeInv'
  BY <1>0, <1>6, <1>11 DEF ShapeInv, Slots, Words, Lens, ALT, Write, Message, Numbers
<1>13. SlotsInv'
  <2>1. busy' = IF writes'[s].len > 0 THEN busy \cup {s} ELSE busy \ {s}
    BY <1>2, <1>4, <1>5, <1>6, <1>8
  <2> QED BY <1>0, <1>2, <1>8, <1>10, <2>1, OneSlot
<1>14. s \in Unpolled
  BY <1>1, <1>5, UnpolledIs
<1>15. s \notin Held
  BY <1>14, HeldApart
<1>16. Unpolled' = Unpolled
  <2>1. using' = using /\ InQueue' = InQueue
    BY <1>6 DEF InQueue
  <2>2. s \notin using /\ s \notin InQueue
    BY <1>15 DEF Held, InQueue
  <2>3. ASSUME NEW t PROVE t \in Unpolled' <=> t \in Unpolled
    <3>1. CASE t = s
      BY <1>2, <1>8, <1>14, <2>1, <2>2, <3>1, UnpolledNext
    <3>2. CASE t # s
      BY <1>10, <2>1, <3>2, UnpolledIs, UnpolledNext
    <3> QED BY <3>1, <3>2
  <2> QED BY <2>3
<1>17. \A t \in freed : slot'[t].head = 0
  <2>1. s \notin freed /\ freed \subseteq Slots
    BY <1>0, <1>15 DEF Held, ShapeInv
  <2> QED BY <1>0, <1>10, <2>1 DEF RingInv
<1>18. Given' = Given
  BY <1>6 DEF Given
<1>19. RingInv'
  BY <1>0, <1>6, <1>16, <1>17, <1>18, RingStays
<1> QED BY <1>1, <1>2, <1>8, <1>12, <1>13, <1>16, <1>19 DEF Core

\* A write completes.
LEMMA CoreSent ==
    ASSUME Core, NEW s \in Slots, Process_send(s)
    PROVE  Core' /\ Unpolled' = Unpolled
<1>0. ShapeInv /\ SlotsInv /\ RingInv
  BY DEF Core
<1>1. /\ writes \in [Slots -> Write] /\ slot \in [Slots -> Message]
  BY <1>0 DEF ShapeInv
<1>2. writes[s].len > 0 /\ writes[s].at > writes[s].len
  BY DEF Process_send
<1>3. /\ writes' = [writes EXCEPT ![s] = NoWrite] /\ busy' = busy \ {s}
      /\ UNCHANGED <<nextToSend, phead, ptail, copy, flag, srWire, creditWire, nextToRecv, pRecv, slot,
                     ringQueue, srQueue, blocking, pTail, using, freed, credit>>
  BY DEF Process_send, queueVars, freeVars
<1>4. SlotOK(NoWrite, slot[s], copy[s], flag[s]) /\ NoWrite \in Write /\ NoWrite.len = 0
  BY <1>0, <1>2, OfSlot, SlotDone
<1>5. /\ writes'[s] = NoWrite /\ slot' = slot /\ copy' = copy /\ flag' = flag
      /\ \A t \in Slots \ {s} : writes'[t] = writes[t]
  BY <1>1, <1>3
<1>6. ShapeInv'
  <2>1. writes' \in [Slots -> Write]
    BY <1>1, <1>3, <1>4
  <2>2. busy' \subseteq Slots
    BY <1>0, <1>3 DEF ShapeInv
  <2> QED BY <1>0, <1>3, <2>1, <2>2 DEF ShapeInv, Slots, Words, Lens, ALT, Write, Message, Numbers
<1>7. SlotsInv'
  BY <1>0, <1>3, <1>4, <1>5, OneSlot
<1>8. ~Partial(writes[s]) /\ ~Partial(NoWrite)
  BY <1>0, <1>2, <1>4, OfSlot DEF Partial
<1>9. Unpolled' = Unpolled
  <2>1. using' = using /\ InQueue' = InQueue
    BY <1>3 DEF InQueue
  <2>2. ASSUME NEW t PROVE t \in Unpolled' <=> t \in Unpolled
    <3>1. CASE t = s
      BY <1>5, <1>8, <2>1, <3>1, UnpolledIs, UnpolledNext
    <3>2. CASE t # s
      BY <1>5, <2>1, <3>2, UnpolledIs, UnpolledNext
    <3> QED BY <3>1, <3>2
  <2> QED BY <2>2
<1>10. /\ Given' = Given
       /\ \A t \in freed : slot'[t].head = 0
  BY <1>0, <1>3 DEF Given, RingInv
<1>11. RingInv'
  BY <1>0, <1>3, <1>9, <1>10, RingStays
<1> QED BY <1>6, <1>7, <1>9, <1>11 DEF Core

\* Credits arrive.
LEMMA CoreCredit ==
    ASSUME Core, SET_CREDIT
    PROVE  Core' /\ Unpolled' = Unpolled
<1>0. ShapeInv /\ SlotsInv /\ RingInv
  BY DEF Core
<1>1. PICK h, q : h = Head(creditWire) /\ q = Tail(creditWire)
  OBVIOUS
<1>2. /\ creditWire # << >> /\ ptail' = (ptail + h) % NumSlots /\ creditWire' = q
      /\ UNCHANGED <<nextToSend, phead, busy, copy, flag, writes, srWire, nextToRecv, pRecv, slot,
                     ringQueue, srQueue, blocking, pTail, using, freed, credit>>
  BY <1>1 DEF SET_CREDIT, queueVars, freeVars
<1>3. creditWire \in Seq(1 .. NumSlots) /\ creditWire \in Seq(Nat) /\ credit \in Nat
  BY <1>0, SlotSets DEF ShapeInv
<1>4. q \in Seq(1 .. NumSlots) /\ q \in Seq(Nat) /\ h \in Nat
  BY <1>1, <1>2, <1>3, HeadTailProperties
<1>5. SumFunction(creditWire) = h + SumFunction(q) /\ SumFunction(q) \in Nat
  BY <1>1, <1>2, <1>3, <1>4, SumTail, SumNat
<1>6. PICK g : g = credit + SumFunction(q)
  OBVIOUS
<1>7. g \in Nat /\ Given = h + g /\ Given' = g
  BY <1>2, <1>3, <1>4, <1>5, <1>6 DEF Given
<1>8. Unpolled' = Unpolled /\ Sent' = Sent /\ Held' = Held /\ Polled' = Polled
  BY <1>2 DEF Unpolled, Slots, Sent, Held, Polled
<1>9. RingAt(pTail, Polled, Sent, g, pRecv, phead, (ptail + h) % NumSlots, Held, Unpolled)
  <2>1. RingAt(pTail, Polled, Sent, h + g, pRecv, phead, ptail, Held, Unpolled)
    BY <1>0, <1>7 DEF RingInv
  <2> QED BY <1>4, <1>7, <2>1, RingGetsCredit
<1>10. RingAt(pTail, Polled, Sent, Given, pRecv, phead, ptail, Held, Unpolled)'
  BY <1>2, <1>7, <1>8, <1>9, RingAtNext
<1>11. RingInv'
  BY <1>0, <1>2, <1>10 DEF RingInv, Next_, Single
<1>12. ShapeInv'
  <2>1. ptail' \in Slots
    <3>1. ptail \in Nat /\ NumSlots \in Nat /\ NumSlots > 1
      BY <1>0, FastAssumption DEF ShapeInv, Slots
    <3> QED BY <1>2, <1>4, <3>1 DEF Slots
  <2> QED BY <1>0, <1>2, <1>4, <2>1 DEF ShapeInv, Slots, Words, Lens, ALT, Write, Message, Numbers
<1>13. SlotsInv'
  BY <1>0, <1>2, SlotsNext DEF SlotsInv
<1> QED BY <1>8, <1>11, <1>12, <1>13 DEF Core

\* The receiver sends its credits.
LEMMA CoreCreditSent ==
    ASSUME Core, SendCredits
    PROVE  Core' /\ Unpolled' = Unpolled
<1>0. ShapeInv /\ SlotsInv /\ RingInv
  BY DEF Core
<1>1. /\ credit > 0 /\ creditWire' = Append(creditWire, credit) /\ credit' = 0
      /\ UNCHANGED <<nextToSend, phead, ptail, busy, copy, flag, writes, srWire, nextToRecv, pRecv, slot,
                     ringQueue, srQueue, blocking, pTail, using, freed>>
  BY DEF SendCredits, sendVars, queueVars
<1>2. creditWire \in Seq(1 .. NumSlots) /\ creditWire \in Seq(Nat) /\ credit \in Nat
      /\ SumFunction(creditWire) \in Nat
  BY <1>0, SlotSets DEF ShapeInv
<1>3. Given' = Given
  <2>1. SumFunction(Append(creditWire, credit)) = SumFunction(creditWire) + credit
    BY <1>2, SumAppend
  <2> QED BY <1>1, <1>2, <2>1 DEF Given
<1>4. credit \in 1 .. NumSlots
  <2>1. /\ Polled \in Nat /\ Sent \in Nat /\ Given \in Nat
        /\ Polled + Sent + Given <= NumSlots - 1
    BY <1>0 DEF RingInv, RingAt
  <2>2. credit <= Given
    BY <1>2 DEF Given
  <2>3. NumSlots \in Nat
    BY FastAssumption
  <2> QED BY <1>1, <1>2, <2>1, <2>2, <2>3
<1>5. creditWire' \in Seq(1 .. NumSlots) /\ credit' \in Nat
  <2>1. Append(creditWire, credit) \in Seq(1 .. NumSlots)
    BY <1>2, <1>4, AppendProperties
  <2> QED BY <1>1, <2>1
<1>6. ShapeInv'
  BY <1>0, <1>1, <1>5 DEF ShapeInv, Slots, Words, Lens, ALT, Write, Message, Numbers
<1>7. SlotsInv'
  BY <1>0, <1>1, SlotsNext DEF SlotsInv
<1>8. Unpolled' = Unpolled
  BY <1>1 DEF Unpolled, Slots
<1>9. \A s \in freed : slot'[s].head = 0
  BY <1>0, <1>1 DEF RingInv
<1>10. RingInv'
  BY <1>0, <1>1, <1>3, <1>8, <1>9, RingStays
<1> QED BY <1>6, <1>7, <1>8, <1>10 DEF Core
-----------------------------------------------------------------------------
(* Each step keeps the invariant: the receiver. *)

\* The slot at the receive pointer, when its flags agree.
LEMMA PolledSlot ==
    ASSUME Core, MayPoll, FlagsAgree(pRecv)
    PROVE  /\ pRecv \in Slots /\ pRecv \notin Held /\ pRecv \in Unpolled
           /\ ~Partial(writes[pRecv])
<1>0. ShapeInv /\ SlotsInv /\ RingInv
  BY DEF Core
<1>1. pRecv \in Slots
  BY <1>0 DEF ShapeInv
<1>2. slot[pRecv].head # 0 /\ slot[pRecv].words[FlagSize(slot[pRecv].head)] = slot[pRecv].head
  BY DEF MayPoll, FlagsAgree
<1>3. ~Partial(writes[pRecv])
  BY <1>0, <1>1, <1>2, OfSlot, FlagsTell
<1>4. pRecv \notin Held
  <2>1. /\ Polled \in Nat /\ Sent \in Nat /\ Given \in Nat /\ Polled + Sent + Given <= NumSlots - 1
        /\ pRecv = At(pTail, Polled)
        /\ \A i \in 0 .. NumSlots - 1 : At(pTail, i) \in Held <=> i < Polled
    BY <1>0 DEF RingInv, RingAt
  <2>2. Polled \in 0 .. NumSlots - 1 /\ ~(Polled < Polled)
    <3>1. NumSlots \in Nat
      BY FastAssumption
    <3> QED BY <2>1, <3>1
  <2> QED BY <2>1, <2>2
<1>5. pRecv \in Unpolled
  BY <1>1, <1>2, <1>4, UnpolledIs DEF Held, InQueue
<1> QED BY <1>1, <1>3, <1>4, <1>5

\* A message is taken from the ring.
LEMMA CorePoll ==
    ASSUME Core, PollRing
    PROVE  Core' /\ Unpolled' = Unpolled \ {pRecv}
<1>0. ShapeInv /\ SlotsInv /\ RingInv
  BY DEF Core
<1>1. PICK s : s = pRecv
  OBVIOUS
<1>2. s \in Slots /\ s \notin Held /\ s \in Unpolled /\ ~Partial(writes[s])
  BY <1>1, PolledSlot DEF PollRing
<1>3. /\ RingAt(pTail, Polled + 1, Sent - 1, Given, Next_(pRecv), phead, ptail,
                Held \cup {s}, Unpolled \ {s})
  BY <1>0, <1>1, <1>2, RingPolls DEF RingInv
<1>4. PICK l : l = [slot[s] EXCEPT !.head = IF blocking THEN @ ELSE 0]
  OBVIOUS
<1>5. /\ pRecv' = Next_(pRecv) /\ slot' = [slot EXCEPT ![s] = l]
      /\ UNCHANGED <<nextToSend, phead, ptail, busy, copy, flag, writes, srWire, creditWire,
                     srQueue, pTail, freed, credit>>
  BY <1>1, <1>4 DEF PollRing, sendVars
<1>6. \/ using' = using \cup {s} /\ ringQueue' = ringQueue
            /\ nextToRecv' = nextToRecv + 1 /\ blocking' = FALSE
      \/ using' = using /\ ringQueue' = Append(ringQueue, s) /\ UNCHANGED <<nextToRecv, blocking>>
  BY <1>1 DEF PollRing, HandUp
<1>7. writes[s] \in Write /\ slot[s] \in Message /\ slot \in [Slots -> Message]
  BY <1>0, <1>2, OfSlot DEF ShapeInv
<1>8. l \in Message /\ l.words = slot[s].words /\ l.num = slot[s].num
  <2>1. 0 \in Words
    BY LensAre
  <2> QED BY <1>4, <1>7, <2>1 DEF Message
<1>9. slot' \in [Slots -> Message] /\ slot'[s] = l /\ \A t \in Slots \ {s} : slot'[t] = slot[t]
  BY <1>2, <1>5, <1>7, <1>8
<1>10. /\ using \subseteq Slots /\ freed \subseteq Slots /\ ringQueue \in Seq(Slots)
       /\ InQueue \subseteq Slots
       /\ IsFiniteSet(using) /\ Cardinality(using) \in Nat /\ Cardinality(freed) \in Nat
       /\ Len(ringQueue) \in Nat
  BY <1>0, SlotSets DEF ShapeInv
<1>11. s \notin using /\ s \notin freed /\ s \notin InQueue
  BY <1>2 DEF Held, InQueue
<1>12. /\ using \cap freed = {} /\ using \cap InQueue = {} /\ freed \cap InQueue = {}
       /\ Single(ringQueue)
  BY <1>0 DEF RingInv, InQueue
<1>13. /\ using' \subseteq Slots /\ ringQueue' \in Seq(Slots)
       /\ using' \cap freed = {} /\ using' \cap InQueue' = {} /\ freed \cap InQueue' = {}
       /\ Single(ringQueue') /\ using' \cup InQueue' = (using \cup InQueue) \cup {s}
       /\ Cardinality(using') + Len(ringQueue') = (Cardinality(using) + Len(ringQueue)) + 1
  <2>1. CASE using' = using \cup {s} /\ ringQueue' = ringQueue
    <3>1. InQueue' = InQueue
      BY <2>1 DEF InQueue
    <3>2. Cardinality(using \cup {s}) = Cardinality(using) + 1
      BY <1>10, <1>11, FS_AddElement
    <3>3. Cardinality(using') + Len(ringQueue') = (Cardinality(using) + Len(ringQueue)) + 1
      BY <1>10, <2>1, <3>2
    <3>4. /\ using' \subseteq Slots /\ ringQueue' \in Seq(Slots) /\ Single(ringQueue')
          /\ using' \cap freed = {} /\ using' \cap InQueue' = {} /\ freed \cap InQueue' = {}
          /\ using' \cup InQueue' = (using \cup InQueue) \cup {s}
      BY <1>2, <1>10, <1>11, <1>12, <2>1, <3>1
    <3> QED BY <3>3, <3>4
  <2>2. CASE using' = using /\ ringQueue' = Append(ringQueue, s)
    <3>1. /\ Append(ringQueue, s) \in Seq(Slots) /\ Len(Append(ringQueue, s)) = Len(ringQueue) + 1
          /\ Range(Append(ringQueue, s)) = Range(ringQueue) \cup {s}
          /\ Single(Append(ringQueue, s))
      BY <1>2, <1>10, <1>11, <1>12, QueueMore DEF InQueue
    <3>2. InQueue' = InQueue \cup {s}
      BY <2>2, <3>1 DEF InQueue
    <3>3. Cardinality(using') + Len(ringQueue') = (Cardinality(using) + Len(ringQueue)) + 1
      BY <1>10, <2>2, <3>1
    <3>4. /\ using' \subseteq Slots /\ ringQueue' \in Seq(Slots) /\ Single(ringQueue')
          /\ using' \cap freed = {} /\ using' \cap InQueue' = {} /\ freed \cap InQueue' = {}
          /\ using' \cup InQueue' = (using \cup InQueue) \cup {s}
      BY <1>10, <1>11, <1>12, <2>2, <3>1, <3>2
    <3> QED BY <3>3, <3>4
  <2> QED BY <1>6, <2>1, <2>2
<1>14. ShapeInv'
  <2>1. pRecv' \in Slots
    <3>1. pRecv \in Nat /\ NumSlots \in Nat /\ NumSlots > 1
      BY <1>0, FastAssumption DEF ShapeInv, Slots
    <3> QED BY <1>5, <3>1 DEF Next_, Slots
  <2>2. nextToRecv' \in Nat
    BY <1>0, <1>6 DEF ShapeInv
  <2>3. blocking' \in BOOLEAN
    BY <1>0, <1>6 DEF ShapeInv
  <2> QED BY <1>0, <1>5, <1>9, <1>13, <2>1, <2>2, <2>3
          DEF ShapeInv, Slots, Words, Lens, ALT, Write, Message, Numbers
<1>15. SlotsInv'
  <2>1. SlotOK(writes[s], l, copy[s], flag[s])
    BY <1>0, <1>2, <1>7, <1>8, OfSlot, SlotCleared
  <2>2. busy' = IF writes'[s].len > 0 THEN busy \cup {s} ELSE busy \ {s}
    BY <1>0, <1>2, <1>5, OfSlot
  <2> QED BY <1>0, <1>2, <1>5, <1>9, <2>1, <2>2, OneSlot
<1>16. Unpolled' = Unpolled \ {s}
  <2>1. ASSUME NEW t PROVE t \in Unpolled' <=> t \in Unpolled \ {s}
    <3>1. CASE t = s
      BY <1>2, <1>5, <1>13, <3>1, UnpolledNext
    <3>2. CASE t # s
      BY <1>5, <1>9, <1>13, <3>2, UnpolledIs, UnpolledNext
    <3> QED BY <3>1, <3>2
  <2> QED BY <2>1
<1>17. Sent' = Sent - 1 /\ Given' = Given
  <2>1. IsFiniteSet(Unpolled)
    BY <1>0, SlotSets
  <2>2. Cardinality(Unpolled \ {s}) = Cardinality(Unpolled) - 1
    BY <1>2, <2>1, FS_RemoveElement
  <2> QED BY <1>5, <1>16, <2>2 DEF Sent, Given
<1>18. Held' = Held \cup {s} /\ Polled' = Polled + 1
  <2>1. Held' = Held \cup {s}
    BY <1>5, <1>13 DEF Held, InQueue
  <2>2. PICK u, v, x, y, z : /\ u = Cardinality(using) /\ v = Cardinality(freed) /\ x = Len(ringQueue)
                             /\ y = Cardinality(using') /\ z = Len(ringQueue')
    OBVIOUS
  <2>3. u \in Nat /\ v \in Nat /\ x \in Nat /\ y \in Nat /\ z \in Nat /\ y + z = (u + x) + 1
    <3>1. Cardinality(using') \in Nat /\ Len(ringQueue') \in Nat
      BY <1>0, <1>13, SlotSets, LenProperties
    <3> QED BY <1>10, <1>13, <2>2, <3>1
  <2>4. Polled = u + v + x /\ Polled' = y + v + z
    BY <1>5, <2>2 DEF Polled
  <2>5. y + v + z = (u + v + x) + 1
    BY ONLY <2>3
  <2> QED BY <2>1, <2>4, <2>5
<1>19. RingAt(pTail, Polled, Sent, Given, pRecv, phead, ptail, Held, Unpolled)'
  BY <1>3, <1>5, <1>16, <1>17, <1>18, RingAtNext
<1>20. \A t \in freed : slot'[t].head = 0
  BY <1>0, <1>9, <1>10, <1>11 DEF RingInv
<1>21. RingInv'
  BY <1>0, <1>5, <1>12, <1>13, <1>19, <1>20 DEF RingInv, Next_, Single, InQueue
<1> QED BY <1>1, <1>14, <1>15, <1>16, <1>21 DEF Core

\* What the slots and the ring do not see.
LEMMA CoreQueues ==
    ASSUME Core, srWire' \in Seq(Numbers), srQueue' \in Seq(Numbers), nextToRecv' \in Nat,
           blocking' \in BOOLEAN,
           UNCHANGED <<nextToSend, phead, ptail, busy, copy, flag, writes, creditWire, pRecv, slot,
                       ringQueue, pTail, using, freed, credit>>
    PROVE  Core' /\ Unpolled' = Unpolled
<1>0. ShapeInv /\ SlotsInv /\ RingInv
  BY DEF Core
<1>1. Unpolled' = Unpolled /\ Given' = Given
  BY DEF Unpolled, Given, Slots
<1>2. ShapeInv'
  BY <1>0 DEF ShapeInv, Slots, Words, Lens, ALT, Write, Message, Numbers
<1>3. SlotsInv'
  BY <1>0, SlotsNext DEF SlotsInv
<1>4. \A s \in freed : slot'[s].head = 0
  BY <1>0 DEF RingInv
<1>5. RingInv'
  BY <1>0, <1>1, <1>4, RingStays
<1> QED BY <1>1, <1>2, <1>3, <1>5 DEF Core

\* A message is taken from the send/receive path.
LEMMA CoreCq ==
    ASSUME Core, Cq_poll
    PROVE  Core' /\ Unpolled' = Unpolled
<1>0. /\ srWire \in Seq(Numbers) /\ srQueue \in Seq(Numbers) /\ nextToRecv \in Nat
      /\ blocking \in BOOLEAN
  BY DEF Core, ShapeInv
<1>1. PICK h, q : h = Head(srWire) /\ q = Tail(srWire)
  OBVIOUS
<1>2. /\ srWire # << >> /\ srWire' = q
      /\ \/ nextToRecv' = nextToRecv + 1 /\ blocking' = FALSE /\ srQueue' = srQueue
         \/ srQueue' = Append(srQueue, h) /\ blocking' = TRUE /\ nextToRecv' = nextToRecv
  BY <1>1 DEF Cq_poll, HandUp
<1>3. UNCHANGED <<nextToSend, phead, ptail, busy, copy, flag, writes, creditWire, pRecv, slot,
                  ringQueue, pTail, using, freed, credit>>
  BY DEF Cq_poll, sendVars, freeVars
<1>4. q \in Seq(Numbers) /\ h \in Numbers
  BY <1>0, <1>1, <1>2, HeadTailProperties
<1>5. Append(srQueue, h) \in Seq(Numbers)
  BY <1>0, <1>4, AppendProperties
<1>6. blocking' \in BOOLEAN
  BY <1>2
<1>7. nextToRecv' \in Nat
  BY <1>0, <1>2
<1>8. srWire' \in Seq(Numbers) /\ srQueue' \in Seq(Numbers)
  BY <1>0, <1>2, <1>4, <1>5
<1> QED BY <1>3, <1>6, <1>7, <1>8, CoreQueues

\* A message is handed up from the queue of the send/receive path.
LEMMA CoreWaitingSr ==
    ASSUME Core, WaitingSr
    PROVE  Core' /\ Unpolled' = Unpolled
<1>0. /\ srWire \in Seq(Numbers) /\ srQueue \in Seq(Numbers) /\ nextToRecv \in Nat
  BY DEF Core, ShapeInv
<1>1. /\ srQueue # << >> /\ srQueue' = Tail(srQueue) /\ nextToRecv' = nextToRecv + 1
      /\ blocking' = FALSE
      /\ UNCHANGED <<nextToSend, phead, ptail, busy, copy, flag, writes, srWire, creditWire, pRecv, slot,
                     ringQueue, pTail, using, freed, credit>>
  BY DEF WaitingSr, HandUp, sendVars, freeVars
<1>2. srQueue' \in Seq(Numbers)
  BY <1>0, <1>1, HeadTailProperties
<1>3. blocking' \in BOOLEAN
  BY <1>1
<1>4. srWire' \in Seq(Numbers) /\ nextToRecv' \in Nat
  BY <1>0, <1>1
<1> QED BY <1>1, <1>2, <1>3, <1>4, CoreQueues

\* A message is handed up from the queue of the ring.
LEMMA CoreWaitingRing ==
    ASSUME Core, WaitingRing
    PROVE  Core' /\ Unpolled' = Unpolled
<1>0. ShapeInv /\ SlotsInv /\ RingInv
  BY DEF Core
<1>1. PICK h, q : h = Head(ringQueue) /\ q = Tail(ringQueue)
  OBVIOUS
<1>2. /\ ringQueue # << >> /\ ringQueue' = q /\ using' = using \cup {h}
      /\ nextToRecv' = nextToRecv + 1 /\ blocking' = FALSE
      /\ UNCHANGED <<nextToSend, phead, ptail, busy, copy, flag, writes, srWire, creditWire, pRecv, slot,
                     srQueue, pTail, freed, credit>>
  BY <1>1 DEF WaitingRing, HandUp, sendVars
<1>3. /\ using \subseteq Slots /\ ringQueue \in Seq(Slots)
      /\ IsFiniteSet(using) /\ Cardinality(using) \in Nat /\ Cardinality(freed) \in Nat
  BY <1>0, SlotSets DEF ShapeInv
<1>4. /\ using \cap freed = {} /\ using \cap InQueue = {} /\ freed \cap InQueue = {}
      /\ Single(ringQueue)
  BY <1>0 DEF RingInv, InQueue
<1>5. /\ h \in Slots /\ q \in Seq(Slots) /\ Len(q) = Len(ringQueue) - 1
      /\ Len(ringQueue) \in Nat
      /\ h \in Range(ringQueue) /\ Range(ringQueue) = Range(q) \cup {h}
      /\ Single(q) /\ h \notin Range(q)
  BY <1>1, <1>2, <1>3, <1>4, QueueLess
<1>6. InQueue = InQueue' \cup {h} /\ h \notin InQueue' /\ h \notin using /\ h \notin freed
  BY <1>2, <1>4, <1>5 DEF InQueue
<1>7. using' \cup InQueue' = using \cup InQueue /\ Held' = Held
  BY <1>2, <1>6 DEF Held, InQueue
<1>8. Polled' = Polled
  <2>1. Cardinality(using \cup {h}) = Cardinality(using) + 1
    BY <1>3, <1>6, FS_AddElement
  <2> QED BY <1>2, <1>3, <1>5, <2>1 DEF Polled
<1>9. Unpolled' = Unpolled
  <2>1. ASSUME NEW t PROVE t \in Unpolled' <=> t \in Unpolled
    BY <1>2, <1>7, UnpolledIs, UnpolledNext
  <2> QED BY <2>1
<1>10. Sent' = Sent /\ Given' = Given
  BY <1>2, <1>9 DEF Sent, Given
<1>11. RingAt(pTail, Polled, Sent, Given, pRecv, phead, ptail, Held, Unpolled)'
  BY <1>0, <1>2, <1>7, <1>8, <1>9, <1>10, RingAtNext DEF RingInv
<1>12. /\ using' \cap freed' = {} /\ using' \cap InQueue' = {} /\ freed' \cap InQueue' = {}
       /\ Single(ringQueue')
  BY <1>2, <1>4, <1>5, <1>6
<1>13. RingInv'
  BY <1>0, <1>2, <1>11, <1>12 DEF RingInv, Next_, Single, InQueue
<1>14. ShapeInv'
  <2>1. using' \subseteq Slots /\ ringQueue' \in Seq(Slots)
    BY <1>2, <1>3, <1>5
  <2>2. nextToRecv' \in Nat
    BY <1>0, <1>2 DEF ShapeInv
  <2>3. blocking' \in BOOLEAN
    BY <1>2
  <2> QED BY <1>0, <1>2, <2>1, <2>2, <2>3
          DEF ShapeInv, Slots, Words, Lens, ALT, Write, Message, Numbers
<1>15. SlotsInv'
  BY <1>0, <1>2, SlotsNext DEF SlotsInv
<1> QED BY <1>9, <1>13, <1>14, <1>15 DEF Core

\* A set of naturals that has a bound has a greatest element.
LEMMA Greatest ==
    ASSUME NEW b \in Nat, NEW S \in SUBSET (0 .. b), S # {}
    PROVE  Max(S) \in S /\ \A x \in S : Max(S) >= x
<1> DEFINE P == {k \in Nat : \A T \in SUBSET (0 .. k) : T # {} => \E m \in T : \A x \in T : m >= x}
<1>1. 0 \in P
  <2>1. 0 .. 0 = {0} /\ 0 >= 0
    OBVIOUS
  <2> QED BY <2>1
<1>2. ASSUME NEW k \in Nat, k \in P PROVE k + 1 \in P
  <2>1. ASSUME NEW T \in SUBSET (0 .. k + 1), T # {} PROVE \E m \in T : \A x \in T : m >= x
    <3>1. CASE k + 1 \in T
      <4>1. \A x \in T : k + 1 >= x
        OBVIOUS
      <4> QED BY <3>1, <4>1
    <3>2. CASE k + 1 \notin T
      <4>1. T \in SUBSET (0 .. k)
        BY <3>2
      <4> QED BY <1>2, <2>1, <4>1
    <3> QED BY <3>1, <3>2
  <2> QED BY <2>1
<1>3. Nat \subseteq P
  <2> HIDE DEF P
  <2> QED BY <1>1, <1>2, NatSetInduction
<1>4. \E m \in S : \A x \in S : m >= x
  BY <1>3
<1> QED BY <1>4 DEF Max

\* The released slots in a row are all before the receive pointer, and the slot behind
\* them is not released.
LEMMA RunIs ==
    ASSUME NEW a \in 0 .. NumSlots - 1, pTail \in Slots, pRecv = At(pTail, a),
           NEW F, \A i \in 0 .. NumSlots - 1 : At(pTail, i) \in F => i < a,
           NEW n, n = Run(Next_(pTail), F)
    PROVE  /\ n \in Nat /\ n <= a
           /\ \A i \in 0 .. n - 1 : At(pTail, i) \in F
           /\ At(pTail, n) \notin F
<1> DEFINE R == {k \in 0 .. NumSlots - 1 :
                    \A i \in 0 .. k - 1 : /\ (Next_(pTail) + i) % NumSlots \in F
                                          /\ (Next_(pTail) + i) % NumSlots # pRecv}
<1>0. NumSlots \in Nat /\ NumSlots > 1 /\ a \in Nat /\ a <= NumSlots - 1
  BY FastAssumption
<1>1. n = Max(R)
  BY DEF Run
<1>2. ASSUME NEW i \in 0 .. NumSlots - 1 PROVE (Next_(pTail) + i) % NumSlots = At(pTail, i)
  <2>1. Next_(pTail) = At(pTail, 0)
    <3>1. pTail + 1 + 0 = pTail + 1
      BY <1>0 DEF Slots
    <3> QED BY <3>1 DEF Next_, At
  <2>2. i \in Nat /\ 0 + i <= NumSlots - 1 /\ 0 + i = i
    BY <1>0
  <2> QED BY <2>1, <2>2, GoOn
<1>3. ASSUME NEW k \in 0 .. NumSlots - 1
      PROVE  k \in R <=> \A i \in 0 .. k - 1 : At(pTail, i) \in F /\ At(pTail, i) # pRecv
  <2>1. \A i \in 0 .. k - 1 : i \in 0 .. NumSlots - 1
    BY <1>0
  <2> QED BY <1>2, <2>1
<1>4. 0 \in R
  <2>1. 0 \in 0 .. NumSlots - 1 /\ 0 .. 0 - 1 = {}
    BY <1>0
  <2> QED BY <1>3, <2>1
<1>5. R \in SUBSET (0 .. NumSlots - 1) /\ NumSlots - 1 \in Nat
  BY <1>0
<1> HIDE DEF R
<1>6. n \in R /\ \A k \in R : n >= k
  BY <1>1, <1>4, <1>5, Greatest
<1>7. n \in Nat /\ n <= NumSlots - 1 /\ n \in 0 .. NumSlots - 1
  BY <1>0, <1>5, <1>6
<1>8. \A i \in 0 .. n - 1 : At(pTail, i) \in F /\ At(pTail, i) # pRecv
  BY <1>3, <1>6, <1>7
<1>9. n <= a
  <2>1. ~(a < n)
    <3>1. a < n => a \in 0 .. n - 1
      BY <1>0, <1>7
    <3> QED BY <1>8, <3>1
  <2> QED BY <1>0, <1>7, <2>1
<1>10. At(pTail, n) \notin F
  <2> SUFFICES ASSUME At(pTail, n) \in F PROVE FALSE
    OBVIOUS
  <2>1. n < a
    BY <1>7
  <2>2. n + 1 \in 0 .. NumSlots - 1
    BY <1>0, <1>7, <2>1
  <2>3. At(pTail, n) # pRecv
    BY <1>7, <2>1, OnePlace
  <2>4. \A i \in 0 .. (n + 1) - 1 : i \in 0 .. n - 1 \/ i = n
    BY <1>7
  <2>5. n + 1 \in R
    BY <1>3, <1>8, <2>2, <2>3, <2>4
  <2>6. n >= n + 1
    BY <1>6, <2>5
  <2> QED BY <1>7, <2>6
<1> QED BY <1>7, <1>8, <1>9, <1>10

\* The release of slot s: the slots then released, how many of them are given back, and which.
Releases(s, free, n, back) ==
    /\ free = freed \cup {s}
    /\ n = IF s = Next_(pTail) THEN Run(Next_(pTail), free) ELSE 0
    /\ back = {(Next_(pTail) + i) % NumSlots : i \in 0 .. n - 1}

\* How many slots a release gives back, and which: the first n that the receiver holds.
LEMMA GivesBack ==
    ASSUME Core, NEW s \in using, NEW free, NEW n, NEW back, Releases(s, free, n, back)
    PROVE  /\ n \in Nat /\ n <= Polled /\ n \in 0 .. NumSlots - 1
           /\ back = {At(pTail, i) : i \in 0 .. n - 1} /\ back \subseteq free
           /\ Next_((pTail + n) % NumSlots) \notin free
<1>0. ShapeInv /\ SlotsInv /\ RingInv
  BY DEF Core
<1>1. /\ pTail \in Slots /\ Polled \in Nat /\ Polled <= NumSlots - 1 /\ pRecv = At(pTail, Polled)
      /\ \A i \in 0 .. NumSlots - 1 : At(pTail, i) \in Held <=> i < Polled
  <2>1. /\ Polled \in Nat /\ Sent \in Nat /\ Given \in Nat /\ Polled + Sent + Given <= NumSlots - 1
        /\ pTail \in Slots /\ pRecv = At(pTail, Polled)
        /\ \A i \in 0 .. NumSlots - 1 : At(pTail, i) \in Held <=> i < Polled
    BY <1>0 DEF RingInv, RingAt
  <2>2. NumSlots \in Nat
    BY FastAssumption
  <2> QED BY <2>1, <2>2
<1>2. NumSlots \in Nat /\ NumSlots > 1 /\ pTail \in Nat /\ Polled \in 0 .. NumSlots - 1
  BY <1>1, FastAssumption DEF Slots
<1>3. free \subseteq Held
  BY DEF Held, Releases
<1>4. Next_(pTail) = At(pTail, 0)
  <2>1. pTail + 1 + 0 = pTail + 1
    BY <1>2
  <2> QED BY <2>1 DEF Next_, At
<1>5. /\ n \in Nat /\ n <= Polled
      /\ \A i \in 0 .. n - 1 : At(pTail, i) \in free
      /\ At(pTail, n) \notin free
  <2>1. CASE s = Next_(pTail)
    <3>1. n = Run(Next_(pTail), free)
      BY <2>1 DEF Releases
    <3>2. \A i \in 0 .. NumSlots - 1 : At(pTail, i) \in free => i < Polled
      BY <1>1, <1>3
    <3> QED BY <1>1, <1>2, <3>1, <3>2, RunIs
  <2>2. CASE s # Next_(pTail)
    <3>1. n = 0 /\ 0 .. n - 1 = {} /\ free = freed \cup {s}
      BY <2>2 DEF Releases
    <3>2. Next_(pTail) \notin freed
      BY <1>0 DEF RingInv
    <3> QED BY <1>1, <1>4, <2>2, <3>1, <3>2
  <2> QED BY <2>1, <2>2
<1>6. n \in 0 .. NumSlots - 1 /\ n <= NumSlots - 1
  BY <1>2, <1>5
<1>7. ASSUME NEW i \in 0 .. n - 1 PROVE (Next_(pTail) + i) % NumSlots = At(pTail, i)
  <2>1. i \in Nat /\ 0 + i <= NumSlots - 1 /\ 0 + i = i
    BY <1>2, <1>5, <1>6
  <2> QED BY <1>1, <1>4, <2>1, GoOn
<1>8. back = {At(pTail, i) : i \in 0 .. n - 1}
  BY <1>7 DEF Releases
<1>9. Next_((pTail + n) % NumSlots) = At(pTail, n)
  <2>1. 0 \in 0 .. NumSlots - 1 /\ 0 + n < NumSlots /\ 0 + n = n
    BY <1>2, <1>6
  <2>2. (pTail + n) % NumSlots \in Slots /\ At((pTail + n) % NumSlots, 0) = At(pTail, n)
    BY <1>1, <1>6, <2>1, CountFrom
  <2>3. PICK u : u = (pTail + n) % NumSlots
    OBVIOUS
  <2>4. u + 1 + 0 = u + 1
    BY <1>2, <2>2, <2>3 DEF Slots
  <2>5. Next_(u) = At(u, 0)
    BY <2>4 DEF Next_, At
  <2> QED BY <2>2, <2>3, <2>5
<1> QED BY <1>5, <1>6, <1>8, <1>9

\* A slot is released.
LEMMA CoreRelease ==
    ASSUME Core, NEW s \in Slots, Release_recv_rdma(s)
    PROVE  Core' /\ Unpolled' = Unpolled
<1>0. ShapeInv /\ SlotsInv /\ RingInv
  BY DEF Core
<1>1. PICK free, n, back :
        /\ free = freed \cup {s}
        /\ n = IF s = Next_(pTail) THEN Run(Next_(pTail), free) ELSE 0
        /\ back = {(Next_(pTail) + i) % NumSlots : i \in 0 .. n - 1}
  OBVIOUS
<1>2. /\ s \in using /\ using' = using \ {s} /\ freed' = free \ back
      /\ credit' = credit + n /\ pTail' = (pTail + n) % NumSlots
      /\ slot' = [t \in Slots |-> [slot[t] EXCEPT !.head = IF t \in back \cup {s} THEN 0 ELSE @]]
      /\ UNCHANGED <<nextToSend, phead, ptail, busy, copy, flag, writes, srWire, creditWire,
                     nextToRecv, pRecv, ringQueue, srQueue, blocking>>
  BY <1>1 DEF Release_recv_rdma, sendVars, queueVars
<1>3. /\ n \in Nat /\ n <= Polled /\ n \in 0 .. NumSlots - 1
      /\ back = {At(pTail, i) : i \in 0 .. n - 1} /\ back \subseteq free
      /\ Next_((pTail + n) % NumSlots) \notin free
  <2>1. Releases(s, free, n, back)
    BY <1>1 DEF Releases
  <2> QED BY <1>2, <2>1, GivesBack
<1>4. /\ using \subseteq Slots /\ freed \subseteq Slots /\ InQueue \subseteq Slots
      /\ IsFiniteSet(using) /\ Cardinality(using) \in Nat
      /\ IsFiniteSet(freed) /\ Cardinality(freed) \in Nat
      /\ Len(ringQueue) \in Nat /\ pTail \in Slots /\ credit \in Nat
      /\ slot \in [Slots -> Message]
  BY <1>0, SlotSets DEF ShapeInv
<1>5. /\ using \cap freed = {} /\ using \cap InQueue = {} /\ freed \cap InQueue = {}
      /\ s \notin freed /\ s \notin InQueue
  BY <1>0, <1>2 DEF RingInv, InQueue
<1>6. Held' = Held \ back /\ InQueue' = InQueue
  <2>1. InQueue' = InQueue
    BY <1>2 DEF InQueue
  <2>2. Held = (using \cup freed) \cup InQueue /\ Held' = (using' \cup freed') \cup InQueue'
    BY DEF Held, InQueue
  <2> QED BY <1>1, <1>2, <1>3, <1>5, <2>1, <2>2
<1>7. Polled' = Polled - n
  <2>1. Cardinality(using \ {s}) = Cardinality(using) - 1
    BY <1>2, <1>4, FS_RemoveElement
  <2>2. IsFiniteSet(free) /\ Cardinality(free) = Cardinality(freed) + 1
    BY <1>1, <1>4, <1>5, FS_AddElement
  <2>3. Cardinality(free \ back) = Cardinality(free) - n
    <3>1. free \cap back = back
      BY <1>3
    <3>2. Cardinality(back) = n
      BY <1>3, <1>4, GivenBack
    <3>3. Cardinality(free \ back) = Cardinality(free) - Cardinality(free \cap back)
      BY <2>2, FS_Difference
    <3> QED BY <3>1, <3>2, <3>3
  <2>4. PICK u, v, x : u = Cardinality(using) /\ v = Cardinality(freed) /\ x = Len(ringQueue)
    OBVIOUS
  <2>5. u \in Nat /\ v \in Nat /\ x \in Nat /\ n \in Nat
    BY <1>3, <1>4, <2>4
  <2>6. Polled = u + v + x /\ Polled' = (u - 1) + ((v + 1) - n) + x
    BY <1>2, <2>1, <2>2, <2>3, <2>4 DEF Polled
  <2>7. (u - 1) + ((v + 1) - n) + x = (u + v + x) - n
    BY ONLY <2>5
  <2> QED BY <2>6, <2>7
<1>8. Given' = Given + n
  <2>1. SumFunction(creditWire) \in Nat
    BY <1>0, SlotSets
  <2> QED BY <1>2, <1>3, <1>4, <2>1 DEF Given
<1>9. ASSUME NEW t \in back \cup {s} PROVE t \in Slots /\ t \notin Unpolled /\ ~Partial(writes[t])
  <2>1. t \in Held
    BY <1>1, <1>2, <1>3 DEF Held
  <2>2. t \in Slots /\ t \notin Unpolled
    BY <2>1, HeldApart
  <2> QED BY <2>2, Landed
<1>10. ASSUME NEW t \in Slots
       PROVE  /\ slot'[t] \in Message
              /\ slot'[t].words = slot[t].words /\ slot'[t].num = slot[t].num
              /\ t \in back \cup {s} => slot'[t].head = 0
              /\ t \notin back \cup {s} => slot'[t] = slot[t]
  <2>1. slot[t] \in Message
    BY <1>4
  <2>2. slot'[t] = [slot[t] EXCEPT !.head = IF t \in back \cup {s} THEN 0 ELSE slot[t].head]
    BY <1>2
  <2>3. 0 \in Words
    BY LensAre
  <2>4. CASE t \in back \cup {s}
    <3>1. slot'[t] = [slot[t] EXCEPT !.head = 0]
      BY <2>2, <2>4
    <3> QED BY <2>1, <2>3, <2>4, <3>1 DEF Message
  <2>5. CASE t \notin back \cup {s}
    <3>1. slot'[t] = [slot[t] EXCEPT !.head = slot[t].head]
      BY <2>2, <2>5
    <3>2. slot'[t] = slot[t]
      BY <2>1, <3>1 DEF Message
    <3> QED BY <2>1, <2>5, <3>2
  <2> QED BY <2>4, <2>5
<1>11. Unpolled' = Unpolled /\ Sent' = Sent
  <2>1. ASSUME NEW t PROVE t \in Unpolled' <=> t \in Unpolled
    <3>1. CASE t \in back \cup {s}
      BY <1>2, <1>9, <1>10, <3>1, UnpolledNext
    <3>2. CASE t \notin back \cup {s}
      <4>1. t \in using' \cup InQueue' <=> t \in using \cup InQueue
        BY <1>2, <1>6, <3>2
      <4>2. t \in Slots => slot'[t] = slot[t] /\ writes'[t] = writes[t]
        BY <1>2, <1>10, <3>2
      <4> QED BY <4>1, <4>2, UnpolledIs, UnpolledNext
    <3> QED BY <3>1, <3>2
  <2>2. Unpolled' = Unpolled
    BY <2>1
  <2> QED BY <2>2 DEF Sent
<1>12. RingAt((pTail + n) % NumSlots, Polled - n, Sent, Given + n, pRecv, phead, ptail,
              Held \ back, Unpolled)
  BY <1>0, <1>3, RingGivesBack DEF RingInv
<1>13. RingAt(pTail, Polled, Sent, Given, pRecv, phead, ptail, Held, Unpolled)'
  BY <1>2, <1>6, <1>7, <1>8, <1>11, <1>12, RingAtNext
<1>14. freed' \subseteq free /\ freed' \subseteq Slots /\ using' \subseteq Slots
  BY <1>1, <1>2, <1>4
<1>15. ASSUME NEW t \in freed' PROVE slot'[t].head = 0
  <2>1. CASE t \in back \cup {s}
    BY <1>10, <1>14, <2>1
  <2>2. CASE t \notin back \cup {s}
    <3>1. t \in freed
      BY <1>1, <1>14, <2>2
    <3> QED BY <1>0, <1>4, <1>10, <2>2, <3>1 DEF RingInv
  <2> QED BY <2>1, <2>2
<1>16. RingInv'
  <2>1. using' \cap freed' = {} /\ using' \cap InQueue' = {} /\ freed' \cap InQueue' = {}
    BY <1>1, <1>2, <1>5, <1>6
  <2>2. Next_(pTail') \notin freed'
    BY <1>2, <1>3, <1>14
  <2>3. Single(ringQueue)'
    BY <1>0, <1>2 DEF RingInv, Single
  <2> QED BY <1>13, <1>15, <2>1, <2>2, <2>3 DEF RingInv, InQueue, Next_
<1>17. ShapeInv'
  <2>1. pTail' \in Slots
    BY <1>2, <1>3, <1>4, CountFrom
  <2>2. credit' \in Nat
    BY <1>2, <1>3, <1>4
  <2>3. slot' \in [Slots -> Message]
    BY <1>2, <1>10
  <2> QED BY <1>0, <1>2, <1>14, <2>1, <2>2, <2>3
          DEF ShapeInv, Slots, Words, Lens, ALT, Write, Message, Numbers
<1>18. SlotsInv'
  <2>1. ASSUME NEW t \in Slots PROVE SlotOK(writes'[t], slot'[t], copy'[t], flag'[t])
    <3>1. writes[t] \in Write /\ SlotOK(writes[t], slot[t], copy[t], flag[t])
      BY <1>0, OfSlot
    <3>2. writes'[t] = writes[t] /\ copy'[t] = copy[t] /\ flag'[t] = flag[t]
      BY <1>2
    <3>3. CASE t \in back \cup {s}
      <4>1. SlotOK(writes[t], slot'[t], copy[t], flag[t])
        BY <1>9, <1>10, <3>1, <3>3, SlotCleared
      <4> QED BY <3>2, <4>1
    <3>4. CASE t \notin back \cup {s}
      BY <1>10, <3>1, <3>2, <3>4
    <3> QED BY <3>3, <3>4
  <2>2. busy' = {t \in Slots : writes'[t].len > 0}
    BY <1>0, <1>2 DEF SlotsInv
  <2> QED BY <2>1, <2>2, SlotsNext
<1> QED BY <1>11, <1>16, <1>17, <1>18 DEF Core
-----------------------------------------------------------------------------
(* The invariant of the messages. *)

\* The number of the message that is or will be in a slot.
NumberAt(w, m) == IF w.len > 0 THEN w.num ELSE m.num
\* The slots of the messages that are not yet handed up, and their numbers.
InRing == Unpolled \cup InQueue
RingNumbers == [s \in InRing |-> NumberAt(writes[s], slot[s])]

Mess ==
    /\ MessAt(RingNumbers, srWire, srQueue, nextToRecv, nextToSend)
    /\ nextToRecv <= nextToSend

\* Mess after a step, of the values after it.
LEMMA MessNext ==
    ASSUME NEW f, NEW W, NEW Q, NEW lo, NEW hi, MessAt(f, W, Q, lo, hi), lo <= hi,
           RingNumbers' = f, srWire' = W, srQueue' = Q, nextToRecv' = lo, nextToSend' = hi
    PROVE  Mess'
BY DEF Mess, MessAt, Single

\* The numbers in the ring after a step.
LEMMA RingNumbersNext ==
    RingNumbers' = [s \in InRing' |-> NumberAt(writes'[s], slot'[s])]
BY DEF RingNumbers, NumberAt

\* A step that leaves the messages where they are.
LEMMA MessSame ==
    ASSUME Mess, InRing' = InRing,
           \A s \in InRing : NumberAt(writes'[s], slot'[s]) = NumberAt(writes[s], slot[s]),
           UNCHANGED <<srWire, srQueue, nextToRecv, nextToSend>>
    PROVE  Mess'
<1>1. RingNumbers' = RingNumbers
  BY RingNumbersNext DEF RingNumbers
<1>2. MessAt(RingNumbers, srWire, srQueue, nextToRecv, nextToSend) /\ nextToRecv <= nextToSend
  BY DEF Mess
<1> QED BY <1>1, <1>2, MessNext

\* When all of a message has landed its number is in the slot.
LEMMA NumberLanded ==
    ASSUME Core, NEW s \in Slots, ~Partial(writes[s])
    PROVE  NumberAt(writes[s], slot[s]) = slot[s].num
<1>1. writes[s].len \in Nat /\ writes[s].at \in Nat /\ SlotOK(writes[s], slot[s], copy[s], flag[s])
  BY OfSlot DEF Core
<1>2. CASE writes[s].len > 0
  <2>1. writes[s].at > writes[s].len
    BY <1>1, <1>2 DEF Partial
  <2> QED BY <1>1, <1>2, <2>1 DEF SlotOK, NumberAt
<1>3. CASE ~(writes[s].len > 0)
  BY <1>3 DEF NumberAt
<1> QED BY <1>2, <1>3

\* No message is anywhere at first.
LEMMA MessAtFirst == Init => Mess
<1> SUFFICES ASSUME Init PROVE Mess
  OBVIOUS
<1>1. PICK z : z = << >>
  OBVIOUS
<1>2. srWire = z /\ srQueue = z /\ ringQueue = z /\ nextToRecv = 0 /\ nextToSend = 0
  BY <1>1 DEF Init
<1>3. z \in Seq(Nat) /\ Len(z) = 0 /\ Range(z) = {} /\ Single(z)
  BY <1>1 DEF Range, Single
<1>4. InRing = {}
  <2>1. \A s \in Slots : slot[s].head = 0 /\ ~Partial(writes[s])
    BY DEF Init, Partial, NoWrite
  <2>2. Unpolled = {}
    BY <2>1, UnpolledIs
  <2> QED BY <1>2, <1>3, <2>2 DEF InRing, InQueue
<1>5. DOMAIN RingNumbers = {}
  BY <1>4 DEF RingNumbers
<1>6. IsFiniteSet(DOMAIN RingNumbers) /\ Cardinality(DOMAIN RingNumbers) = 0
  BY <1>5, FS_EmptySet
<1>7. MessAt(RingNumbers, z, z, 0, 0)
  <2>1. 0 .. 0 - 1 = {} /\ 0 + 0 + 0 = 0 - 0 /\ 0 \in Nat
    OBVIOUS
  <2> QED BY <1>3, <1>5, <1>6, <2>1 DEF MessAt
<1> QED BY <1>2, <1>7 DEF Mess

\* Each step keeps the invariant of the messages: one is sent over the ring.
LEMMA MessSend ==
    ASSUME Core, Mess, NEW n \in Lens, NEW d \in DataOf(n), Fast_rdma_send(n, d)
    PROVE  Mess'
<1>1. /\ Unpolled' = Unpolled \cup {phead}
      /\ phead \in Slots /\ phead \notin Held /\ phead \notin Unpolled
  BY CoreSend
<1>2. PICK s, v : s = phead /\ v = [len |-> n, at |-> 0, num |-> nextToSend]
  OBVIOUS
<1>3. /\ writes' = [writes EXCEPT ![s] = v] /\ nextToSend' = nextToSend + 1
      /\ UNCHANGED <<srWire, srQueue, nextToRecv, slot, ringQueue>>
  BY <1>2 DEF Fast_rdma_send, queueVars
<1>4. writes \in [Slots -> Write]
  BY DEF Core, ShapeInv
<1>5. writes'[s] = v /\ slot' = slot /\ \A t \in Slots \ {s} : writes'[t] = writes[t]
  BY <1>1, <1>2, <1>3, <1>4
<1>6. NumberAt(writes'[s], slot'[s]) = nextToSend
  BY <1>2, <1>5, LensAre DEF NumberAt
<1>7. InRing' = InRing \cup {s} /\ s \notin InRing
  BY <1>1, <1>2, <1>3 DEF InRing, InQueue, Held
<1>8. InRing \subseteq Slots
  BY SlotSets DEF InRing, Core
<1>9. PICK e : e = [t \in InRing \cup {s} |-> NumberAt(writes'[t], slot'[t])]
  OBVIOUS
<1>10. /\ DOMAIN RingNumbers = InRing /\ DOMAIN e = InRing \cup {s} /\ e[s] = nextToSend
  BY <1>6, <1>9 DEF RingNumbers
<1>11. ASSUME NEW t \in InRing PROVE e[t] = RingNumbers[t]
  <2>1. t \in Slots \ {s}
    BY <1>7, <1>8
  <2> QED BY <1>5, <1>9, <2>1 DEF RingNumbers
<1>12. RingNumbers' = e
  BY <1>7, <1>9, RingNumbersNext
<1>13. MessAt(RingNumbers, srWire, srQueue, nextToRecv, nextToSend) /\ nextToRecv <= nextToSend
  BY DEF Mess
<1>14. MessAt(e, srWire, srQueue, nextToRecv, nextToSend + 1)
  BY <1>7, <1>10, <1>11, <1>13, MessToRing
<1>15. nextToRecv <= nextToSend + 1
  BY <1>13 DEF MessAt
<1> QED BY <1>3, <1>12, <1>14, <1>15, MessNext

\* One is sent by the send/receive path.
LEMMA MessEager ==
    ASSUME Core, Mess, Eager_send
    PROVE  Mess'
<1>1. /\ srWire' = Append(srWire, nextToSend) /\ nextToSend' = nextToSend + 1
      /\ UNCHANGED <<srQueue, nextToRecv, slot, writes, ringQueue>>
  BY DEF Eager_send, queueVars, freeVars
<1>2. InRing' = InRing
  BY <1>1, CoreEager DEF InRing, InQueue
<1>3. RingNumbers' = RingNumbers
  BY <1>1, <1>2, RingNumbersNext DEF RingNumbers
<1>4. MessAt(RingNumbers, srWire, srQueue, nextToRecv, nextToSend) /\ nextToRecv <= nextToSend
  BY DEF Mess
<1>5. MessAt(RingNumbers, Append(srWire, nextToSend), srQueue, nextToRecv, nextToSend + 1)
  BY <1>4, MessToQueue
<1>6. nextToRecv <= nextToSend + 1
  BY <1>4 DEF MessAt
<1> QED BY <1>1, <1>3, <1>5, <1>6, MessNext

\* A word of one lands.
LEMMA MessLand ==
    ASSUME Core, Mess, NEW s \in Slots, Land(s)
    PROVE  Mess' /\ \A t \in InRing : NumberAt(writes'[t], slot'[t]) = NumberAt(writes[t], slot[t])
<1>1. /\ Unpolled' = Unpolled
      /\ writes'[s].len = writes[s].len /\ writes'[s].num = writes[s].num
  BY CoreLand
<1>2. /\ writes' = [writes EXCEPT ![s].at = @ + 1] /\ writes[s].len > 0
      /\ \A t \in Slots \ {s} : slot'[t] = slot[t]
      /\ UNCHANGED <<srWire, srQueue, nextToRecv, nextToSend, ringQueue>>
  <2>1. slot \in [Slots -> Message]
    BY DEF Core, ShapeInv
  <2> QED BY <2>1 DEF Land, sendVars, queueVars
<1>3. InRing' = InRing /\ InRing \subseteq Slots
  BY <1>1, <1>2, SlotSets DEF InRing, InQueue, Core
<1>4. ASSUME NEW t \in InRing
      PROVE  NumberAt(writes'[t], slot'[t]) = NumberAt(writes[t], slot[t])
  <2>1. CASE t = s
    BY <1>1, <1>2, <2>1 DEF NumberAt
  <2>2. CASE t # s
    <3>1. writes \in [Slots -> Write] /\ t \in Slots
      BY <1>3 DEF Core, ShapeInv
    <3>2. writes'[t] = writes[t] /\ slot'[t] = slot[t]
      BY <1>2, <2>2, <3>1
    <3> QED BY <3>2
  <2> QED BY <2>1, <2>2
<1> QED BY <1>2, <1>3, <1>4, MessSame

\* The write of one completes.
LEMMA MessSent ==
    ASSUME Core, Mess, NEW s \in Slots, Process_send(s)
    PROVE  Mess' /\ \A t \in InRing : NumberAt(writes'[t], slot'[t]) = NumberAt(writes[t], slot[t])
<1>1. /\ writes[s].len > 0 /\ writes[s].at > writes[s].len
      /\ writes' = [writes EXCEPT ![s] = NoWrite]
      /\ UNCHANGED <<slot, srWire, srQueue, nextToRecv, nextToSend, ringQueue>>
  BY DEF Process_send, queueVars
<1>2. InRing' = InRing /\ InRing \subseteq Slots
  BY <1>1, CoreSent, SlotSets DEF InRing, InQueue, Core
<1>3. writes \in [Slots -> Write] /\ writes[s].len \in Nat /\ writes[s].at \in Nat
  BY OfSlot DEF Core, ShapeInv
<1>4. NumberAt(writes[s], slot[s]) = slot[s].num
  <2>1. ~Partial(writes[s])
    BY <1>1, <1>3 DEF Partial
  <2> QED BY <2>1, NumberLanded
<1>5. writes'[s] = NoWrite /\ \A t \in Slots \ {s} : writes'[t] = writes[t]
  BY <1>1, <1>3
<1>6. NumberAt(NoWrite, slot[s]) = slot[s].num
  BY DEF NumberAt, NoWrite
<1>7. ASSUME NEW t \in InRing
      PROVE  NumberAt(writes'[t], slot'[t]) = NumberAt(writes[t], slot[t])
  <2>1. CASE t = s
    BY <1>1, <1>4, <1>5, <1>6, <2>1
  <2>2. CASE t # s
    BY <1>1, <1>2, <1>5, <2>2
  <2> QED BY <2>1, <2>2
<1> QED BY <1>1, <1>2, <1>7, MessSame

\* The slot of one that was handed up is released.
LEMMA MessRelease ==
    ASSUME Core, Mess, NEW s \in Slots, Release_recv_rdma(s)
    PROVE  Mess' /\ \A t \in InRing : NumberAt(writes'[t], slot'[t]) = NumberAt(writes[t], slot[t])
<1>1. /\ \A t \in Slots : slot'[t].num = slot[t].num
      /\ UNCHANGED <<writes, srWire, srQueue, nextToRecv, nextToSend, ringQueue>>
  <2>1. slot \in [Slots -> Message]
    BY DEF Core, ShapeInv
  <2>2. PICK B : slot' = [t \in Slots |-> [slot[t] EXCEPT !.head = IF t \in B THEN 0 ELSE @]]
    BY DEF Release_recv_rdma
  <2>3. \A t \in Slots : slot'[t].num = slot[t].num
    BY <2>1, <2>2 DEF Message
  <2> QED BY <2>3 DEF Release_recv_rdma, sendVars, queueVars
<1>2. InRing' = InRing /\ InRing \subseteq Slots
  BY <1>1, CoreRelease, SlotSets DEF InRing, InQueue, Core
<1>3. \A t \in InRing : NumberAt(writes'[t], slot'[t]) = NumberAt(writes[t], slot[t])
  BY <1>1, <1>2 DEF NumberAt
<1> QED BY <1>1, <1>2, <1>3, MessSame

\* Credits travel.
LEMMA MessCredits ==
    ASSUME Core, Mess, SET_CREDIT \/ SendCredits
    PROVE  Mess'
<1>1. UNCHANGED <<writes, slot, srWire, srQueue, nextToRecv, nextToSend, ringQueue>>
  BY DEF SET_CREDIT, SendCredits, queueVars, sendVars
<1>2. InRing' = InRing
  BY <1>1, CoreCredit, CoreCreditSent DEF InRing, InQueue
<1>3. \A t \in InRing : NumberAt(writes'[t], slot'[t]) = NumberAt(writes[t], slot[t])
  BY <1>1
<1> QED BY <1>1, <1>2, <1>3, MessSame

\* The message at the receive pointer, or at the head of the ring's queue, is handed up.
LEMMA MessLeaves ==
    ASSUME Core, Mess, NEW x \in InRing, ~Partial(writes[x]), slot[x].num = nextToRecv,
           InRing' = InRing \ {x}, nextToRecv' = nextToRecv + 1,
           \A t \in Slots \ {x} : slot'[t] = slot[t],
           UNCHANGED <<writes, srWire, srQueue, nextToSend>>
    PROVE  Mess'
<1>1. InRing \subseteq Slots
  BY SlotSets DEF InRing, InQueue, Core
<1>2. RingNumbers[x] = nextToRecv /\ x \in DOMAIN RingNumbers /\ DOMAIN RingNumbers = InRing
  BY <1>1, NumberLanded DEF RingNumbers
<1>3. PICK e : e = [t \in InRing \ {x} |-> NumberAt(writes'[t], slot'[t])]
  OBVIOUS
<1>4. DOMAIN e = DOMAIN RingNumbers \ {x}
  BY <1>2, <1>3
<1>5. ASSUME NEW t \in DOMAIN e PROVE e[t] = RingNumbers[t]
  <2>1. t \in InRing /\ t \in Slots \ {x}
    BY <1>1, <1>2, <1>4
  <2>2. slot'[t] = slot[t] /\ writes'[t] = writes[t]
    BY <2>1
  <2> QED BY <1>3, <1>5, <2>1, <2>2 DEF RingNumbers
<1>6. RingNumbers' = e
  BY <1>3, RingNumbersNext
<1>7. MessAt(RingNumbers, srWire, srQueue, nextToRecv, nextToSend)
  BY DEF Mess
<1>8. MessAt(e, srWire, srQueue, nextToRecv + 1, nextToSend) /\ nextToRecv + 1 <= nextToSend
  BY <1>2, <1>4, <1>5, <1>7, MessFromRing
<1> QED BY <1>6, <1>8, MessNext

\* One is taken from the ring: it is the next, or it has to wait.
LEMMA MessPoll ==
    ASSUME Core, Mess, PollRing
    PROVE  Mess'
<1>1. PICK s : s = pRecv
  OBVIOUS
<1>2. /\ s \in Slots /\ s \notin Held /\ s \in Unpolled /\ ~Partial(writes[s])
      /\ Unpolled' = Unpolled \ {s}
  BY <1>1, PolledSlot, CorePoll DEF PollRing
<1>3. s \in InRing /\ s \notin InQueue
  BY <1>2 DEF InRing, Held, InQueue
<1>4. slot \in [Slots -> Message] /\ ringQueue \in Seq(Slots)
  BY DEF Core, ShapeInv
<1>5. /\ slot' = [slot EXCEPT ![s].head = IF blocking THEN @ ELSE 0]
      /\ UNCHANGED <<writes, srWire, srQueue, nextToSend>>
      /\ \/ Expected(slot[s].num) /\ nextToRecv' = nextToRecv + 1 /\ ringQueue' = ringQueue
         \/ ringQueue' = Append(ringQueue, s) /\ nextToRecv' = nextToRecv
  BY <1>1 DEF PollRing, HandUp, sendVars
<1>6. slot'[s].num = slot[s].num /\ \A t \in Slots \ {s} : slot'[t] = slot[t]
  BY <1>2, <1>4, <1>5 DEF Message
<1>7. CASE Expected(slot[s].num) /\ nextToRecv' = nextToRecv + 1 /\ ringQueue' = ringQueue
  <2>1. InRing' = InRing \ {s}
    BY <1>2, <1>3, <1>7 DEF InRing, InQueue
  <2>2. slot[s].num = nextToRecv
    BY <1>7 DEF Expected
  <2> QED BY <1>2, <1>3, <1>5, <1>6, <1>7, <2>1, <2>2, MessLeaves
<1>8. CASE ringQueue' = Append(ringQueue, s) /\ nextToRecv' = nextToRecv
  <2>1. InQueue' = InQueue \cup {s}
    BY <1>2, <1>4, <1>8, QueueMore DEF InQueue
  <2>2. InRing' = InRing
    BY <1>2, <2>1 DEF InRing
  <2>3. ASSUME NEW t \in InRing
        PROVE  NumberAt(writes'[t], slot'[t]) = NumberAt(writes[t], slot[t])
    <3>1. t \in Slots
      BY SlotSets DEF InRing, InQueue, Core
    <3>2. slot'[t].num = slot[t].num /\ writes'[t] = writes[t]
      BY <1>5, <1>6, <3>1
    <3> QED BY <3>2 DEF NumberAt
  <2> QED BY <1>5, <1>8, <2>2, <2>3, MessSame
<1> QED BY <1>5, <1>7, <1>8

\* One that waited in the ring's queue is the next.
LEMMA MessWaitingRing ==
    ASSUME Core, Mess, WaitingRing
    PROVE  Mess'
<1>1. PICK h : h = Head(ringQueue)
  OBVIOUS
<1>2. /\ ringQueue # << >> /\ slot[h].num = nextToRecv /\ nextToRecv' = nextToRecv + 1
      /\ ringQueue' = Tail(ringQueue)
      /\ UNCHANGED <<writes, slot, srWire, srQueue, nextToSend>>
  BY <1>1 DEF WaitingRing, Expected, HandUp, sendVars
<1>3. ringQueue \in Seq(Slots) /\ Single(ringQueue)
  BY DEF Core, ShapeInv, RingInv
<1>4. /\ h \in Slots /\ h \in InQueue /\ InQueue = InQueue' \cup {h} /\ h \notin InQueue'
  BY <1>1, <1>2, <1>3, QueueLess DEF InQueue
<1>5. h \notin Unpolled /\ ~Partial(writes[h])
  BY <1>4, HeldApart, Landed DEF Held, InQueue
<1>6. Unpolled' = Unpolled
  BY CoreWaitingRing
<1>7. InRing' = InRing \ {h} /\ h \in InRing
  BY <1>4, <1>5, <1>6 DEF InRing
<1> QED BY <1>2, <1>5, <1>7, MessLeaves

\* The message is the next on the send/receive path, or it has to wait.
LEMMA MessCq ==
    ASSUME Core, Mess, Cq_poll
    PROVE  Mess'
<1>1. /\ srWire # << >> /\ srWire' = Tail(srWire)
      /\ \/ Expected(Head(srWire)) /\ nextToRecv' = nextToRecv + 1 /\ srQueue' = srQueue
         \/ srQueue' = Append(srQueue, Head(srWire)) /\ nextToRecv' = nextToRecv
      /\ UNCHANGED <<writes, slot, ringQueue, nextToSend>>
  BY DEF Cq_poll, HandUp, sendVars
<1>2. InRing' = InRing
  BY <1>1, CoreCq DEF InRing, InQueue
<1>3. RingNumbers' = RingNumbers
  BY <1>1, <1>2, RingNumbersNext DEF RingNumbers
<1>4. MessAt(RingNumbers, srWire, srQueue, nextToRecv, nextToSend) /\ nextToRecv <= nextToSend
  BY DEF Mess
<1>5. CASE Expected(Head(srWire)) /\ nextToRecv' = nextToRecv + 1 /\ srQueue' = srQueue
  <2>1. Head(srWire) = nextToRecv
    BY <1>5 DEF Expected
  <2>2. /\ MessAt(RingNumbers, Tail(srWire), srQueue, nextToRecv + 1, nextToSend)
        /\ nextToRecv + 1 <= nextToSend
    BY <1>1, <1>4, <2>1, MessFromQueue
  <2> QED BY <1>1, <1>3, <1>5, <2>2, MessNext
<1>6. CASE srQueue' = Append(srQueue, Head(srWire)) /\ nextToRecv' = nextToRecv
  <2>1. MessAt(RingNumbers, Tail(srWire), Append(srQueue, Head(srWire)), nextToRecv, nextToSend)
    BY <1>1, <1>4, MessQueued
  <2> QED BY <1>1, <1>3, <1>4, <1>6, <2>1, MessNext
<1> QED BY <1>1, <1>5, <1>6

\* One that waited in the queue of the send/receive path is the next.
LEMMA MessWaitingSr ==
    ASSUME Core, Mess, WaitingSr
    PROVE  Mess'
<1>1. /\ srQueue # << >> /\ Head(srQueue) = nextToRecv /\ nextToRecv' = nextToRecv + 1
      /\ srQueue' = Tail(srQueue)
      /\ UNCHANGED <<writes, slot, ringQueue, srWire, nextToSend>>
  BY DEF WaitingSr, HandUp, Expected, sendVars
<1>2. InRing' = InRing
  BY <1>1, CoreWaitingSr DEF InRing, InQueue
<1>3. RingNumbers' = RingNumbers
  BY <1>1, <1>2, RingNumbersNext DEF RingNumbers
<1>4. MessAt(RingNumbers, srQueue, srWire, nextToRecv, nextToSend)
  BY MessEitherWay DEF Mess
<1>5. /\ MessAt(RingNumbers, Tail(srQueue), srWire, nextToRecv + 1, nextToSend)
      /\ nextToRecv + 1 <= nextToSend
  BY <1>1, <1>4, MessFromQueue
<1>6. MessAt(RingNumbers, srWire, Tail(srQueue), nextToRecv + 1, nextToSend)
  BY <1>5, MessEitherWay
<1> QED BY <1>1, <1>3, <1>5, <1>6, MessNext
-----------------------------------------------------------------------------
(* The theorems. *)

\* Every step keeps the invariant of the slots and the ring.
LEMMA CoreStep == Core /\ [Next]_vars => Core'
<1> SUFFICES ASSUME Core, [Next]_vars PROVE Core'
  OBVIOUS
<1>1. CASE UNCHANGED vars
  <2>1. /\ srWire' \in Seq(Numbers) /\ srQueue' \in Seq(Numbers) /\ nextToRecv' \in Nat
        /\ blocking' \in BOOLEAN
    BY <1>1 DEF Core, ShapeInv, vars, queueVars
  <2>2. UNCHANGED <<nextToSend, phead, ptail, busy, copy, flag, writes, creditWire, pRecv, slot,
                    ringQueue, pTail, using, freed, credit>>
    BY <1>1 DEF vars, sendVars, queueVars, freeVars
  <2> QED BY <2>1, <2>2, CoreQueues
<1>2. ASSUME NEW n \in Lens, NEW d \in DataOf(n), Fast_rdma_send(n, d) PROVE Core'
  BY <1>2, CoreSend
<1>3. CASE Eager_send
  BY <1>3, CoreEager
<1>4. CASE SET_CREDIT
  BY <1>4, CoreCredit
<1>5. ASSUME NEW s \in Slots, Land(s) PROVE Core'
  BY <1>5, CoreLand
<1>6. ASSUME NEW s \in Slots, Process_send(s) PROVE Core'
  BY <1>6, CoreSent
<1>7. ASSUME NEW s \in Slots, Release_recv_rdma(s) PROVE Core'
  BY <1>7, CoreRelease
<1>8. CASE PollRing
  BY <1>8, CorePoll
<1>9. CASE Cq_poll
  BY <1>9, CoreCq
<1>10. CASE WaitingRing
  BY <1>10, CoreWaitingRing
<1>11. CASE WaitingSr
  BY <1>11, CoreWaitingSr
<1>12. CASE SendCredits
  BY <1>12, CoreCreditSent
<1> QED BY <1>1, <1>2, <1>3, <1>4, <1>5, <1>6, <1>7, <1>8, <1>9, <1>10, <1>11, <1>12 DEF Next

\* The slots and the ring are always as the invariant says.
LEMMA CoreAlways == Spec => []Core
<1>1. Init => Core
  BY CoreAtFirst
<1>2. Core /\ [Next]_vars => Core'
  BY CoreStep
<1> QED BY <1>1, <1>2, PTL DEF Spec

\* A step keeps the invariant of the messages, given that of the ring.
LEMMA MessStep == Core /\ Mess /\ [Next]_vars => Mess'
<1> SUFFICES ASSUME Core, Mess, [Next]_vars PROVE Mess'
  OBVIOUS
<1>1. CASE UNCHANGED vars
  <2>1. UNCHANGED <<writes, slot, srWire, srQueue, nextToRecv, nextToSend, ringQueue, using>>
    BY <1>1 DEF vars, sendVars, queueVars, freeVars
  <2>2. InRing' = InRing
    BY <2>1 DEF InRing, InQueue, Unpolled, Slots
  <2>3. \A t \in InRing : NumberAt(writes'[t], slot'[t]) = NumberAt(writes[t], slot[t])
    BY <2>1
  <2> QED BY <2>1, <2>2, <2>3, MessSame
<1>2. ASSUME NEW n \in Lens, NEW d \in DataOf(n), Fast_rdma_send(n, d) PROVE Mess'
  BY <1>2, MessSend
<1>3. CASE Eager_send
  BY <1>3, MessEager
<1>4. CASE SET_CREDIT \/ SendCredits
  BY <1>4, MessCredits
<1>5. ASSUME NEW s \in Slots, Land(s) PROVE Mess'
  BY <1>5, MessLand
<1>6. ASSUME NEW s \in Slots, Process_send(s) PROVE Mess'
  BY <1>6, MessSent
<1>7. ASSUME NEW s \in Slots, Release_recv_rdma(s) PROVE Mess'
  BY <1>7, MessRelease
<1>8. CASE PollRing
  BY <1>8, MessPoll
<1>9. CASE Cq_poll
  BY <1>9, MessCq
<1>10. CASE WaitingRing
  BY <1>10, MessWaitingRing
<1>11. CASE WaitingSr
  BY <1>11, MessWaitingSr
<1> QED BY <1>1, <1>2, <1>3, <1>4, <1>5, <1>6, <1>7, <1>8, <1>9, <1>10, <1>11 DEF Next

\* The messages are always where the invariant says.
LEMMA MessAlways == Spec => []Mess
<1>1. Init => Core /\ Mess
  BY CoreAtFirst, MessAtFirst
<1>2. Core /\ Mess /\ [Next]_vars => Core' /\ Mess'
  BY CoreStep, MessStep
<1> QED BY <1>1, <1>2, PTL DEF Spec

\* FastPath.FlagsMeanArrived: when the receiver's poll (MPIDI_CH3I_MRAILI_Get_next_vbuf,
\* MPIDI_CH3I_RDMA_poll) finds the two flags of a slot equal, every word of the message is
\* there, whatever the slot held before and whatever words the messages carry.
THEOREM FlagsTellArrival == Spec => []FlagsMeanArrived
<1>1. Core => FlagsMeanArrived
  <2> SUFFICES ASSUME Core, MayPoll, FlagsAgree(pRecv), writes[pRecv].len > 0
               PROVE  writes[pRecv].at > writes[pRecv].len
    BY DEF FlagsMeanArrived
  <2>1. pRecv \in Slots /\ ~Partial(writes[pRecv])
    BY PolledSlot
  <2>2. writes[pRecv].len \in Nat /\ writes[pRecv].at \in Nat
    BY <2>1, OfSlot DEF Core
  <2> QED BY <2>1, <2>2 DEF Partial
<1> QED BY <1>1, CoreAlways, PTL

\* FastPath.CreditsConserved: the slots free at the sender, on their way, held by the
\* receiver, and on their way back as credits are all of the ring but one, and none that has
\* been released is kept back by MRAILI_Release_recv_rdma unless one before it is in use.
THEOREM CreditsAreConserved == Spec => []CreditsConserved
<1>1. Core => CreditsConserved
  <2> SUFFICES ASSUME Core PROVE CreditsConserved
    OBVIOUS
  <2>1. ShapeInv /\ RingInv
    BY DEF Core
  <2>2. /\ pTail \in Slots /\ Polled \in Nat /\ Sent \in Nat /\ Given \in Nat
        /\ Polled + Sent + Given <= NumSlots - 1
        /\ phead = At(pTail, Polled + Sent) /\ ptail = At(pTail, NumSlots - 1 - Given)
    BY <2>1 DEF RingInv, RingAt
  <2>3. NumSlots \in Nat /\ NumSlots > 1
    BY FastAssumption
  <2>4. PICK i, j : i = Polled + Sent /\ j = NumSlots - 1 - Given
    OBVIOUS
  <2>5. i \in Nat /\ j \in Nat /\ i <= j /\ j <= NumSlots - 1
    BY <2>2, <2>3, <2>4
  <2>6. (ptail - phead) % NumSlots = j - i
    BY <2>2, <2>4, <2>5, Distance
  <2>7. PICK p, u, v, x, y, z :
          /\ p = (ptail - phead) % NumSlots /\ u = Cardinality(Unpolled) /\ v = Len(ringQueue)
          /\ x = Cardinality(using) /\ y = Cardinality(freed) /\ z = SumFunction(creditWire)
    OBVIOUS
  <2>8. /\ u \in Nat /\ v \in Nat /\ x \in Nat /\ y \in Nat /\ z \in Nat /\ credit \in Nat
    BY <2>1, <2>7, SlotSets DEF ShapeInv
  <2>9. /\ Sent = u /\ Polled = x + y + v /\ Given = credit + z /\ p = j - i
    BY <2>6, <2>7 DEF Sent, Polled, Given
  <2>10. PICK c : c = credit
    OBVIOUS
  <2>11. p + u + v + x + y + c + z = NumSlots - 1
    <3>1. /\ i = (x + y + v) + u /\ j = NumSlots - 1 - (c + z) /\ p = j - i /\ c \in Nat
      BY <2>4, <2>8, <2>9, <2>10
    <3> QED BY ONLY <2>3, <2>8, <3>1
  <2>12. Next_(pTail) \notin freed
    BY <2>1 DEF RingInv
  <2> QED BY <2>7, <2>10, <2>11, <2>12 DEF CreditsConserved
<1> QED BY <1>1, CoreAlways, PTL

\* FastPath.EachOnce: every message sent and not yet handed up is in one place, once,
\* although it came by the ring or by the send/receive path and may have been queued.
THEOREM EachMessageOnce == Spec => []EachOnce
<1>1. Mess => EachOnce
  <2> SUFFICES ASSUME Mess PROVE EachOnce
    OBVIOUS
  <2>1. DOMAIN RingNumbers = InRing
    BY DEF RingNumbers
  <2>2. \A s \in InRing : RingNumbers[s] = NumberIn(s)
    BY DEF RingNumbers, NumberAt, NumberIn
  <2>3. {RingNumbers[s] : s \in DOMAIN RingNumbers} = {NumberIn(s) : s \in InRing}
    BY <2>1, <2>2
  <2>4. /\ {RingNumbers[s] : s \in DOMAIN RingNumbers} \cup (Range(srWire) \cup Range(srQueue))
             = nextToRecv .. nextToSend - 1
        /\ Cardinality(DOMAIN RingNumbers) + Len(srWire) + Len(srQueue) = nextToSend - nextToRecv
    BY DEF Mess, MessAt
  <2>5. InRing = Unpolled \cup Range(ringQueue)
    BY DEF InRing, InQueue
  <2> QED BY <2>1, <2>3, <2>4, <2>5 DEF EachOnce
<1> QED BY <1>1, MessAlways, PTL

\* FastPath.TypeOK: the receiver never hands up more than was sent, and the credits that it
\* keeps (rdma_credit) are never as many as the ring has slots.
THEOREM FastPathTypes == Spec => []TypeOK
<1>1. Core /\ Mess => TypeOK
  <2> SUFFICES ASSUME Core, Mess PROVE TypeOK
    OBVIOUS
  <2>1. ShapeInv /\ RingInv
    BY DEF Core
  <2>2. nextToRecv \in 0 .. MaxMsgs
    <3>1. nextToRecv \in Nat /\ nextToSend \in 0 .. MaxMsgs /\ nextToRecv <= nextToSend
      BY <2>1 DEF ShapeInv, Mess
    <3>2. MaxMsgs \in Nat
      BY FastAssumption
    <3> QED BY <3>1, <3>2
  <2>3. credit \in 0 .. NumSlots - 1
    <3>1. /\ Polled \in Nat /\ Sent \in Nat /\ Given \in Nat
          /\ Polled + Sent + Given <= NumSlots - 1
      BY <2>1 DEF RingInv, RingAt
    <3>2. credit \in Nat /\ SumFunction(creditWire) \in Nat /\ NumSlots \in Nat
      BY <2>1, SlotSets, FastAssumption DEF ShapeInv
    <3>3. credit <= Given
      BY <3>2 DEF Given
    <3> QED BY <3>1, <3>2, <3>3
  <2> QED BY <2>1, <2>2, <2>3 DEF ShapeInv, TypeOK, Write, Message
<1> QED BY <1>1, CoreAlways, MessAlways, PTL
-----------------------------------------------------------------------------
(* The order of the messages on each path: on the send/receive path W and its queue Q, *)
(* and in the ring, of the slots U still to be polled and the queue q.                 *)

Rising(q) == \A i, j \in 1 .. Len(q) : i < j => q[i] < q[j]
SrAt(W, Q) ==
    /\ Rising(W) /\ Rising(Q)
    /\ \A i \in 1 .. Len(Q), j \in 1 .. Len(W) : Q[i] < W[j]

OrderAt(f, q, t, U) ==
    /\ \A i, j \in 1 .. Len(q) : i < j => f[q[i]] < f[q[j]]
    /\ \A i \in 1 .. Len(q) : \A s \in U : f[q[i]] < f[s]
    /\ \A i, j \in 0 .. NumSlots - 1 :
          At(t, i) \in U /\ At(t, j) \in U /\ i < j => f[At(t, i)] < f[At(t, j)]

Order ==
    /\ SrAt(srWire, srQueue)
    /\ OrderAt(RingNumbers, ringQueue, pTail, Unpolled)

\* A message is sent by the send/receive path.
LEMMA SrMore ==
    ASSUME NEW W \in Seq(Nat), NEW Q \in Seq(Nat), NEW hi \in Nat, SrAt(W, Q),
           \A n \in Range(W) \cup Range(Q) : n < hi
    PROVE  SrAt(Append(W, hi), Q)
<1>1. PICK V : V = Append(W, hi)
  OBVIOUS
<1>2. /\ Len(V) = Len(W) + 1 /\ Len(W) \in Nat /\ V[Len(W) + 1] = hi
      /\ \A i \in 1 .. Len(W) : V[i] = W[i]
  BY <1>1, AppendProperties, LenProperties
<1>3. /\ \A i \in 1 .. Len(W) : W[i] < hi
      /\ \A i \in 1 .. Len(Q) : Q[i] < hi
  BY RangeEquality
<1>4. \A i \in 1 .. Len(V) : i \in 1 .. Len(W) \/ i = Len(W) + 1
  BY <1>2
<1>5. Rising(W) /\ Rising(Q) /\ \A i \in 1 .. Len(Q), j \in 1 .. Len(W) : Q[i] < W[j]
  BY DEF SrAt
<1>6. ASSUME NEW i \in 1 .. Len(V), NEW j \in 1 .. Len(V), i < j PROVE V[i] < V[j]
  <2>1. i \in 1 .. Len(W)
    BY <1>2, <1>6
  <2>2. CASE j \in 1 .. Len(W)
    BY <1>2, <1>5, <1>6, <2>1, <2>2 DEF Rising
  <2>3. CASE j = Len(W) + 1
    BY <1>2, <1>3, <2>1, <2>3
  <2> QED BY <1>4, <2>2, <2>3
<1>7. ASSUME NEW i \in 1 .. Len(Q), NEW j \in 1 .. Len(V) PROVE Q[i] < V[j]
  <2>1. CASE j \in 1 .. Len(W)
    BY <1>2, <1>5, <2>1
  <2>2. CASE j = Len(W) + 1
    BY <1>2, <1>3, <2>2
  <2> QED BY <1>4, <2>1, <2>2
<1>8. SrAt(V, Q)
  BY <1>5, <1>6, <1>7 DEF SrAt, Rising
<1> QED BY <1>1, <1>8

\* The head of a queue is the least, and what follows keeps its order.
LEMMA RisingTail ==
    ASSUME NEW q \in Seq(Nat), q # << >>, Rising(q)
    PROVE  /\ Rising(Tail(q)) /\ \A i \in 1 .. Len(Tail(q)) : Head(q) < Tail(q)[i]
           /\ Len(Tail(q)) \in Nat
           /\ \A i \in 1 .. Len(Tail(q)) : i + 1 \in 1 .. Len(q) /\ Tail(q)[i] = q[i + 1]
           /\ 1 \in 1 .. Len(q) /\ Head(q) = q[1]
<1>1. PICK p, h : p = Tail(q) /\ h = Head(q)
  OBVIOUS
<1>2. /\ Len(p) = Len(q) - 1 /\ Len(q) \in Nat /\ Len(q) > 0
      /\ \A i \in 1 .. Len(p) : p[i] = q[i + 1]
      /\ h = q[1]
  BY <1>1, HeadTailProperties, LenProperties, EmptySeq
<1>3. /\ \A i \in 1 .. Len(p) : i + 1 \in 1 .. Len(q) /\ 1 < i + 1
      /\ 1 \in 1 .. Len(q) /\ Len(p) \in Nat
  BY <1>2
<1>4. \A i \in 1 .. Len(p) : h < p[i]
  BY <1>2, <1>3 DEF Rising
<1>5. ASSUME NEW i \in 1 .. Len(p), NEW j \in 1 .. Len(p), i < j PROVE p[i] < p[j]
  <2>1. i + 1 < j + 1
    BY <1>5
  <2> QED BY <1>2, <1>3, <2>1 DEF Rising
<1>6. Rising(p)
  BY <1>5 DEF Rising
<1> QED BY <1>1, <1>2, <1>3, <1>4, <1>6

\* The head of the send/receive path is taken.
LEMMA SrTaken ==
    ASSUME NEW W \in Seq(Nat), NEW Q \in Seq(Nat), SrAt(W, Q), W # << >>
    PROVE  SrAt(Tail(W), Q) /\ SrAt(Tail(W), Append(Q, Head(W)))
<1>1. PICK V, h : V = Tail(W) /\ h = Head(W)
  OBVIOUS
<1>2. Rising(W) /\ Rising(Q) /\ \A i \in 1 .. Len(Q), j \in 1 .. Len(W) : Q[i] < W[j]
  BY DEF SrAt
<1>3. /\ Rising(V) /\ \A i \in 1 .. Len(V) : h < V[i]
      /\ \A i \in 1 .. Len(V) : i + 1 \in 1 .. Len(W) /\ V[i] = W[i + 1]
      /\ 1 \in 1 .. Len(W) /\ h = W[1]
  BY <1>1, <1>2, RisingTail
<1>4. /\ \A i \in 1 .. Len(Q), j \in 1 .. Len(V) : Q[i] < V[j]
      /\ \A i \in 1 .. Len(Q) : Q[i] < h
  BY <1>2, <1>3
<1>5. SrAt(V, Q)
  BY <1>2, <1>3, <1>4 DEF SrAt
<1>6. PICK P : P = Append(Q, h)
  OBVIOUS
<1>7. /\ Len(P) = Len(Q) + 1 /\ Len(Q) \in Nat /\ P[Len(Q) + 1] = h
      /\ \A i \in 1 .. Len(Q) : P[i] = Q[i]
  <2>1. h \in Nat
    BY <1>1, HeadTailProperties
  <2> QED BY <1>6, <2>1, AppendProperties, LenProperties
<1>8. \A i \in 1 .. Len(P) : i \in 1 .. Len(Q) \/ i = Len(Q) + 1
  BY <1>7
<1>9. ASSUME NEW i \in 1 .. Len(P), NEW j \in 1 .. Len(P), i < j PROVE P[i] < P[j]
  <2>1. i \in 1 .. Len(Q)
    BY <1>7, <1>9
  <2>2. CASE j \in 1 .. Len(Q)
    BY <1>2, <1>7, <1>9, <2>1, <2>2 DEF Rising
  <2>3. CASE j = Len(Q) + 1
    BY <1>4, <1>7, <2>1, <2>3
  <2> QED BY <1>8, <2>2, <2>3
<1>10. ASSUME NEW i \in 1 .. Len(P), NEW j \in 1 .. Len(V) PROVE P[i] < V[j]
  BY <1>3, <1>4, <1>7, <1>8
<1>11. SrAt(V, P)
  BY <1>3, <1>9, <1>10 DEF SrAt, Rising
<1> QED BY <1>1, <1>5, <1>6, <1>11

\* The head of its queue is handed up.
LEMMA SrUp ==
    ASSUME NEW W \in Seq(Nat), NEW Q \in Seq(Nat), SrAt(W, Q), Q # << >>
    PROVE  SrAt(W, Tail(Q))
<1>1. PICK P : P = Tail(Q)
  OBVIOUS
<1>2. Rising(W) /\ Rising(Q) /\ \A i \in 1 .. Len(Q), j \in 1 .. Len(W) : Q[i] < W[j]
  BY DEF SrAt
<1>3. /\ Rising(P)
      /\ \A i \in 1 .. Len(P) : i + 1 \in 1 .. Len(Q) /\ P[i] = Q[i + 1]
  BY <1>1, <1>2, RisingTail
<1>4. SrAt(W, P)
  BY <1>2, <1>3 DEF SrAt
<1> QED BY <1>1, <1>4

\* The order is that of the numbers, whatever else the slots hold.
LEMMA OrderSame ==
    ASSUME NEW f, NEW q \in Seq(Slots), NEW t, NEW U, OrderAt(f, q, t, U),
           NEW e, \A s \in U \cup Range(q) : e[s] = f[s]
    PROVE  OrderAt(e, q, t, U)
<1>1. \A i \in 1 .. Len(q) : e[q[i]] = f[q[i]]
  BY RangeEquality
<1> QED BY <1>1 DEF OrderAt

\* A message sent over the ring is behind all others.
LEMMA OrderSent ==
    ASSUME NEW f, NEW q \in Seq(Slots), NEW t, NEW a, NEW b, NEW g, NEW recv, NEW head, NEW tail,
           NEW H, NEW U, RingAt(t, a, b, g, recv, head, tail, H, U), OrderAt(f, q, t, U),
           head # tail,
           NEW e, \A s \in U \cup Range(q) : e[s] = f[s] /\ f[s] < e[head]
    PROVE  OrderAt(e, q, t, U \cup {head})
<1>0. NumSlots \in Nat /\ NumSlots > 1
  BY FastAssumption
<1>1. /\ t \in Slots /\ a \in Nat /\ b \in Nat /\ g \in Nat /\ a + b + g <= NumSlots - 1
      /\ head = At(t, a + b)
      /\ \A i \in 0 .. NumSlots - 1 : At(t, i) \in U <=> a <= i /\ i < a + b
  BY DEF RingAt
<1>2. a + b \in 0 .. NumSlots - 1
  BY <1>0, <1>1
<1>3. \A i \in 1 .. Len(q) : q[i] \in Range(q)
  BY RangeEquality
<1>4. ASSUME NEW i \in 0 .. NumSlots - 1, NEW j \in 0 .. NumSlots - 1,
             At(t, i) \in U \cup {head}, At(t, j) \in U \cup {head}, i < j
      PROVE  e[At(t, i)] < e[At(t, j)]
  <2>1. At(t, i) \in U
    <3>1. SUFFICES ASSUME At(t, i) = head PROVE FALSE
      BY <1>4
    <3>2. i = a + b
      BY <1>1, <1>2, <3>1, OnePlace
    <3>3. At(t, j) \notin U /\ j # a + b
      BY <1>0, <1>1, <1>4, <3>2
    <3> QED BY <1>1, <1>2, <1>4, <3>3, OnePlace
  <2>2. CASE At(t, j) = head
    BY <2>1, <2>2
  <2>3. CASE At(t, j) \in U
    BY <1>4, <2>1, <2>3 DEF OrderAt
  <2> QED BY <1>4, <2>2, <2>3
<1>5. \A i, j \in 1 .. Len(q) : i < j => e[q[i]] < e[q[j]]
  BY <1>3 DEF OrderAt
<1>6. \A i \in 1 .. Len(q) : \A s \in U \cup {head} : e[q[i]] < e[s]
  BY <1>3 DEF OrderAt
<1> QED BY <1>4, <1>5, <1>6 DEF OrderAt

\* The first slot is polled, and its message may have to wait behind those that wait already.
LEMMA OrderPolled ==
    ASSUME NEW f, NEW q \in Seq(Slots), NEW t, NEW a, NEW b, NEW g, NEW recv, NEW head, NEW tail,
           NEW H, NEW U, RingAt(t, a, b, g, recv, head, tail, H, U), OrderAt(f, q, t, U),
           recv \in U
    PROVE  OrderAt(f, q, t, U \ {recv}) /\ OrderAt(f, Append(q, recv), t, U \ {recv})
<1>0. NumSlots \in Nat /\ NumSlots > 1
  BY FastAssumption
<1>1. /\ t \in Slots /\ a \in Nat /\ b \in Nat /\ g \in Nat /\ a + b + g <= NumSlots - 1
      /\ recv = At(t, a) /\ U \subseteq Slots
      /\ \A i \in 0 .. NumSlots - 1 : At(t, i) \in U <=> a <= i /\ i < a + b
  BY DEF RingAt
<1>2. a \in 0 .. NumSlots - 1
  BY <1>0, <1>1
<1>3. /\ \A i, j \in 1 .. Len(q) : i < j => f[q[i]] < f[q[j]]
      /\ \A i \in 1 .. Len(q) : \A s \in U : f[q[i]] < f[s]
      /\ \A i, j \in 0 .. NumSlots - 1 :
            At(t, i) \in U /\ At(t, j) \in U /\ i < j => f[At(t, i)] < f[At(t, j)]
  BY DEF OrderAt
<1>4. OrderAt(f, q, t, U \ {recv})
  BY <1>3 DEF OrderAt
<1>5. ASSUME NEW s \in U, s # recv PROVE f[recv] < f[s]
  <2>1. PICK j \in 0 .. NumSlots - 1 : s = At(t, j)
    BY <1>1, OnePlace
  <2>2. a <= j /\ j # a
    BY <1>1, <1>5, <2>1
  <2>3. a < j
    BY <1>0, <1>1, <2>2
  <2> QED BY <1>1, <1>2, <1>3, <2>1, <2>3
<1>6. PICK p : p = Append(q, recv)
  OBVIOUS
<1>7. /\ Len(p) = Len(q) + 1 /\ Len(q) \in Nat /\ p[Len(q) + 1] = recv
      /\ \A i \in 1 .. Len(q) : p[i] = q[i]
  <2>1. recv \in Slots
    BY <1>1
  <2> QED BY <1>6, <2>1, AppendProperties, LenProperties
<1>8. \A i \in 1 .. Len(p) : i \in 1 .. Len(q) \/ i = Len(q) + 1
  BY <1>7
<1>9. ASSUME NEW i \in 1 .. Len(p), NEW j \in 1 .. Len(p), i < j PROVE f[p[i]] < f[p[j]]
  <2>1. i \in 1 .. Len(q)
    BY <1>7, <1>9
  <2>2. CASE j \in 1 .. Len(q)
    BY <1>3, <1>7, <1>9, <2>1, <2>2
  <2>3. CASE j = Len(q) + 1
    BY <1>3, <1>7, <2>1, <2>3
  <2> QED BY <1>8, <2>2, <2>3
<1>10. ASSUME NEW i \in 1 .. Len(p), NEW s \in U \ {recv} PROVE f[p[i]] < f[s]
  <2>1. CASE i \in 1 .. Len(q)
    BY <1>3, <1>7, <2>1
  <2>2. CASE i = Len(q) + 1
    BY <1>5, <1>7, <2>2
  <2> QED BY <1>8, <2>1, <2>2
<1>11. OrderAt(f, p, t, U \ {recv})
  BY <1>4, <1>9, <1>10 DEF OrderAt
<1> QED BY <1>4, <1>6, <1>11

\* The head of the queue is handed up.
LEMMA OrderUp ==
    ASSUME NEW f, NEW q \in Seq(Slots), NEW t, NEW U, OrderAt(f, q, t, U), q # << >>
    PROVE  OrderAt(f, Tail(q), t, U)
<1>1. PICK p : p = Tail(q)
  OBVIOUS
<1>2. /\ Len(p) = Len(q) - 1 /\ Len(q) \in Nat /\ Len(q) > 0
      /\ \A i \in 1 .. Len(p) : p[i] = q[i + 1]
  BY <1>1, HeadTailProperties, LenProperties, EmptySeq
<1>3. \A i \in 1 .. Len(p) : i + 1 \in 1 .. Len(q)
  BY <1>2
<1>4. \A i, j \in 1 .. Len(p) : i < j => i + 1 < j + 1
  BY <1>2
<1>5. /\ \A i, j \in 1 .. Len(p) : i < j => f[p[i]] < f[p[j]]
      /\ \A i \in 1 .. Len(p) : \A s \in U : f[p[i]] < f[s]
  BY <1>2, <1>3, <1>4 DEF OrderAt
<1>6. OrderAt(f, p, t, U)
  BY <1>5 DEF OrderAt
<1> QED BY <1>1, <1>6

\* Slots given back are behind those to be polled, before and after.
LEMMA OrderGivenBack ==
    ASSUME NEW f, NEW q, NEW t, NEW a, NEW b, NEW g, NEW recv, NEW head, NEW tail,
           NEW H, NEW U, RingAt(t, a, b, g, recv, head, tail, H, U), OrderAt(f, q, t, U),
           NEW n \in Nat, n <= a
    PROVE  OrderAt(f, q, (t + n) % NumSlots, U)
<1>0. NumSlots \in Nat /\ NumSlots > 1
  BY FastAssumption
<1>1. /\ t \in Slots /\ a \in Nat /\ b \in Nat /\ g \in Nat /\ a + b + g <= NumSlots - 1
      /\ \A i \in 0 .. NumSlots - 1 : At(t, i) \in U <=> a <= i /\ i < a + b
  BY DEF RingAt
<1>2. n \in 0 .. NumSlots - 1
  BY <1>0, <1>1
<1>3. PICK u : u = (t + n) % NumSlots
  OBVIOUS
<1>4. ASSUME NEW i \in 0 .. NumSlots - 1, At(u, i) \in U
      PROVE  i + n \in 0 .. NumSlots - 1 /\ At(u, i) = At(t, i + n)
  <2>1. At(u, i) = At(t, IF i + n < NumSlots THEN i + n ELSE i + n - NumSlots)
    BY <1>1, <1>2, <1>3, CountFrom
  <2>2. CASE i + n < NumSlots
    <3>1. i + n \in 0 .. NumSlots - 1
      BY <1>0, <1>2, <2>2
    <3> QED BY <2>1, <2>2, <3>1
  <2>3. CASE ~(i + n < NumSlots)
    <3>1. PICK k : k = i + n - NumSlots
      OBVIOUS
    <3>2. k \in 0 .. NumSlots - 1 /\ k < n /\ k \in Nat
      BY <1>0, <1>2, <2>3, <3>1
    <3>3. At(t, k) \in U
      BY <1>4, <2>1, <2>3, <3>1
    <3>4. a <= k
      BY <1>1, <3>2, <3>3
    <3> QED BY <1>1, <3>2, <3>4
  <2> QED BY <2>2, <2>3
<1>5. ASSUME NEW i \in 0 .. NumSlots - 1, NEW j \in 0 .. NumSlots - 1,
             At(u, i) \in U, At(u, j) \in U, i < j
      PROVE  f[At(u, i)] < f[At(u, j)]
  <2>1. i + n < j + n
    BY <1>5
  <2>2. i + n \in 0 .. NumSlots - 1 /\ At(u, i) = At(t, i + n)
    BY <1>4, <1>5
  <2>3. j + n \in 0 .. NumSlots - 1 /\ At(u, j) = At(t, j + n)
    BY <1>4, <1>5
  <2> QED BY <1>5, <2>1, <2>2, <2>3 DEF OrderAt
<1>6. OrderAt(f, q, u, U)
  BY <1>5 DEF OrderAt
<1> QED BY <1>3, <1>6

\* Order after a step, of the values after it.
LEMMA OrderNext ==
    ASSUME NEW f, NEW W, NEW Q, NEW q, NEW t, NEW U, SrAt(W, Q), OrderAt(f, q, t, U),
           RingNumbers' = f, srWire' = W, srQueue' = Q, ringQueue' = q, pTail' = t, Unpolled' = U
    PROVE  Order'
BY DEF Order, OrderAt, SrAt, Rising, At, Slots

\* What the invariants give for the order.
LEMMA OrderNeeds ==
    ASSUME Core, Mess
    PROVE  /\ srWire \in Seq(Nat) /\ srQueue \in Seq(Nat) /\ ringQueue \in Seq(Slots)
           /\ nextToSend \in Nat /\ nextToRecv \in Nat
           /\ RingAt(pTail, Polled, Sent, Given, pRecv, phead, ptail, Held, Unpolled)
           /\ DOMAIN RingNumbers = InRing /\ InRing \subseteq Slots
           /\ InRing = Unpolled \cup Range(ringQueue)
           /\ \A s \in InRing : RingNumbers[s] \in nextToRecv .. nextToSend - 1
           /\ \A n \in Range(srWire) \cup Range(srQueue) : n \in nextToRecv .. nextToSend - 1
<1>1. MessAt(RingNumbers, srWire, srQueue, nextToRecv, nextToSend)
  BY DEF Mess
<1>2. ringQueue \in Seq(Slots)
  BY DEF Core, ShapeInv
<1>3. RingAt(pTail, Polled, Sent, Given, pRecv, phead, ptail, Held, Unpolled)
  BY DEF Core, RingInv
<1>4. DOMAIN RingNumbers = InRing /\ InRing = Unpolled \cup Range(ringQueue)
  BY DEF RingNumbers, InRing, InQueue
<1>5. InRing \subseteq Slots
  BY SlotSets DEF InRing, Core
<1>6. \A s \in InRing : RingNumbers[s] \in nextToRecv .. nextToSend - 1
  BY <1>1, <1>4 DEF MessAt
<1>7. \A n \in Range(srWire) \cup Range(srQueue) : n \in nextToRecv .. nextToSend - 1
  BY <1>1 DEF MessAt
<1>8. srWire \in Seq(Nat) /\ srQueue \in Seq(Nat) /\ nextToSend \in Nat /\ nextToRecv \in Nat
  BY <1>1 DEF MessAt
<1> QED BY <1>2, <1>3, <1>4, <1>5, <1>6, <1>7, <1>8

\* The numbers of the messages that are still in the ring after a step.
LEMMA NumbersStay ==
    ASSUME \A t \in InRing : NumberAt(writes'[t], slot'[t]) = NumberAt(writes[t], slot[t]),
           InRing' \subseteq InRing
    PROVE  \A t \in InRing' : RingNumbers'[t] = RingNumbers[t]
BY RingNumbersNext DEF RingNumbers

\* A step that changes nothing of the ring that the order is about.
LEMMA OrderRingSame ==
    ASSUME Core, Mess, Order, Unpolled' = Unpolled, UNCHANGED <<ringQueue, pTail>>,
           \A t \in InRing : NumberAt(writes'[t], slot'[t]) = NumberAt(writes[t], slot[t]),
           SrAt(srWire', srQueue')
    PROVE  Order'
<1>1. InRing' = InRing
  BY DEF InRing, InQueue
<1>2. PICK e : e = RingNumbers'
  OBVIOUS
<1>3. \A s \in Unpolled \cup Range(ringQueue) : e[s] = RingNumbers[s]
  BY <1>1, <1>2, NumbersStay, OrderNeeds
<1>4. OrderAt(e, ringQueue, pTail, Unpolled)
  <2>1. OrderAt(RingNumbers, ringQueue, pTail, Unpolled) /\ ringQueue \in Seq(Slots)
    BY OrderNeeds DEF Order
  <2> QED BY <1>3, <2>1, OrderSame
<1>5. PICK V, P : V = srWire' /\ P = srQueue'
  OBVIOUS
<1>6. SrAt(V, P)
  BY <1>5
<1> QED BY <1>2, <1>4, <1>5, <1>6, OrderNext

\* Each step keeps the order: a message is sent over the ring.
LEMMA OrderSend ==
    ASSUME Core, Mess, Order, NEW n \in Lens, NEW d \in DataOf(n), Fast_rdma_send(n, d)
    PROVE  Order'
<1>1. /\ Unpolled' = Unpolled \cup {phead}
      /\ phead \in Slots /\ phead \notin Held /\ phead \notin Unpolled
  BY CoreSend
<1>2. PICK s, v : s = phead /\ v = [len |-> n, at |-> 0, num |-> nextToSend]
  OBVIOUS
<1>3. /\ writes' = [writes EXCEPT ![s] = v] /\ phead # ptail
      /\ UNCHANGED <<srWire, srQueue, slot, ringQueue, pTail>>
  BY <1>2 DEF Fast_rdma_send, Fast_rdma_ok, queueVars, freeVars
<1>4. writes \in [Slots -> Write]
  BY DEF Core, ShapeInv
<1>5. writes'[s] = v /\ slot' = slot /\ \A t \in Slots \ {s} : writes'[t] = writes[t]
  BY <1>1, <1>2, <1>3, <1>4
<1>6. NumberAt(writes'[s], slot'[s]) = nextToSend
  BY <1>2, <1>5, LensAre DEF NumberAt
<1>7. InRing' = InRing \cup {s} /\ s \notin InRing /\ InRing \subseteq Slots
  BY <1>1, <1>2, <1>3, OrderNeeds DEF InRing, InQueue, Held
<1>8. PICK e : e = RingNumbers'
  OBVIOUS
<1>9. e[s] = nextToSend /\ \A t \in InRing : e[t] = RingNumbers[t]
  BY <1>5, <1>6, <1>7, <1>8, RingNumbersNext DEF RingNumbers
<1>10. \A t \in Unpolled \cup Range(ringQueue) :
          e[t] = RingNumbers[t] /\ RingNumbers[t] < e[phead]
  BY <1>2, <1>9, OrderNeeds
<1>11. OrderAt(e, ringQueue, pTail, Unpolled \cup {phead})
  <2>1. OrderAt(RingNumbers, ringQueue, pTail, Unpolled) /\ ringQueue \in Seq(Slots)
    BY OrderNeeds DEF Order
  <2>2. RingAt(pTail, Polled, Sent, Given, pRecv, phead, ptail, Held, Unpolled)
    BY OrderNeeds
  <2> QED BY <1>3, <1>10, <2>1, <2>2, OrderSent
<1>12. SrAt(srWire, srQueue)
  BY DEF Order
<1> QED BY <1>1, <1>3, <1>8, <1>11, <1>12, OrderNext

\* A message is polled.
LEMMA OrderPoll ==
    ASSUME Core, Mess, Order, PollRing
    PROVE  Order'
<1>1. PICK s : s = pRecv
  OBVIOUS
<1>2. s \in Slots /\ s \in Unpolled /\ Unpolled' = Unpolled \ {s}
  BY <1>1, PolledSlot, CorePoll DEF PollRing
<1>3. slot \in [Slots -> Message]
  BY DEF Core, ShapeInv
<1>4. /\ slot' = [slot EXCEPT ![s].head = IF blocking THEN @ ELSE 0]
      /\ UNCHANGED <<writes, srWire, srQueue, pTail>>
      /\ ringQueue' = ringQueue \/ ringQueue' = Append(ringQueue, s)
  BY <1>1 DEF PollRing, sendVars
<1>5. slot'[s].num = slot[s].num /\ \A t \in Slots \ {s} : slot'[t] = slot[t]
  BY <1>2, <1>3, <1>4 DEF Message
<1>6. ASSUME NEW t \in InRing
      PROVE  NumberAt(writes'[t], slot'[t]) = NumberAt(writes[t], slot[t])
  <2>1. t \in Slots
    BY OrderNeeds
  <2>2. slot'[t].num = slot[t].num /\ writes'[t] = writes[t]
    BY <1>4, <1>5, <2>1
  <2> QED BY <2>2 DEF NumberAt
<1>7. PICK q : q = ringQueue'
  OBVIOUS
<1>8. q \in Seq(Slots) /\ Range(q) \subseteq InRing
  <2>1. ringQueue \in Seq(Slots) /\ InRing = Unpolled \cup Range(ringQueue)
    BY OrderNeeds
  <2>2. CASE ringQueue' = ringQueue
    BY <1>7, <2>1, <2>2
  <2>3. CASE ringQueue' = Append(ringQueue, s)
    <3>1. q \in Seq(Slots)
      BY <1>2, <1>7, <2>1, <2>3, AppendProperties
    <3>2. Range(q) = Range(ringQueue) \cup {s}
      BY <1>2, <1>7, <2>1, <2>3, QueueMore
    <3> QED BY <1>2, <2>1, <3>1, <3>2
  <2> QED BY <1>4, <2>2, <2>3
<1>9. InRing' = Unpolled' \cup Range(q) /\ InRing' \subseteq InRing
  <2>1. InRing' = Unpolled' \cup Range(q)
    BY <1>7 DEF InRing, InQueue
  <2> QED BY <1>2, <1>8, <2>1 DEF InRing
<1>10. PICK e : e = RingNumbers'
  OBVIOUS
<1>11. \A t \in Unpolled' \cup Range(q) : e[t] = RingNumbers[t]
  BY <1>6, <1>9, <1>10, NumbersStay
<1>12. OrderAt(RingNumbers, q, pTail, Unpolled \ {s})
  <2>1. OrderAt(RingNumbers, ringQueue, pTail, Unpolled) /\ ringQueue \in Seq(Slots)
    BY OrderNeeds DEF Order
  <2>2. RingAt(pTail, Polled, Sent, Given, pRecv, phead, ptail, Held, Unpolled)
    BY OrderNeeds
  <2>3. /\ OrderAt(RingNumbers, ringQueue, pTail, Unpolled \ {pRecv})
        /\ OrderAt(RingNumbers, Append(ringQueue, pRecv), pTail, Unpolled \ {pRecv})
    BY <1>1, <1>2, <2>1, <2>2, OrderPolled
  <2> QED BY <1>1, <1>4, <1>7, <2>3
<1>13. OrderAt(e, q, pTail, Unpolled \ {s})
  BY <1>2, <1>8, <1>11, <1>12, OrderSame
<1>14. SrAt(srWire, srQueue)
  BY DEF Order
<1> QED BY <1>2, <1>4, <1>7, <1>10, <1>13, <1>14, OrderNext

\* A message that waited in the queue of the ring is handed up.
LEMMA OrderWaitingRing ==
    ASSUME Core, Mess, Order, WaitingRing
    PROVE  Order'
<1>1. /\ ringQueue # << >> /\ ringQueue' = Tail(ringQueue)
      /\ UNCHANGED <<writes, slot, srWire, srQueue, pTail>>
  BY DEF WaitingRing, sendVars
<1>2. Unpolled' = Unpolled
  BY CoreWaitingRing
<1>3. ringQueue \in Seq(Slots) /\ Single(ringQueue)
  BY DEF Core, ShapeInv, RingInv
<1>4. PICK p : p = Tail(ringQueue)
  OBVIOUS
<1>5. p \in Seq(Slots) /\ Range(p) \subseteq Range(ringQueue)
  <2>1. p \in Seq(Slots)
    BY <1>1, <1>3, <1>4, HeadTailProperties
  <2> QED BY <1>1, <1>3, <1>4, <2>1, QueueLess
<1>6. PICK e : e = RingNumbers'
  OBVIOUS
<1>7. InRing' = Unpolled \cup Range(p) /\ InRing' \subseteq InRing
  <2>1. InRing' = Unpolled \cup Range(p)
    BY <1>1, <1>2, <1>4 DEF InRing, InQueue
  <2> QED BY <1>5, <2>1 DEF InRing, InQueue
<1>8. \A t \in Unpolled \cup Range(p) : e[t] = RingNumbers[t]
  <2>1. \A t \in InRing : NumberAt(writes'[t], slot'[t]) = NumberAt(writes[t], slot[t])
    BY <1>1
  <2> QED BY <1>6, <1>7, <2>1, NumbersStay
<1>9. OrderAt(RingNumbers, p, pTail, Unpolled)
  BY <1>1, <1>3, <1>4, OrderUp DEF Order
<1>10. OrderAt(e, p, pTail, Unpolled)
  BY <1>5, <1>8, <1>9, OrderSame
<1>11. SrAt(srWire, srQueue)
  BY DEF Order
<1> QED BY <1>1, <1>2, <1>4, <1>6, <1>10, <1>11, OrderNext

\* A slot is released, and slots may be given back.
LEMMA OrderRelease ==
    ASSUME Core, Mess, Order, NEW s \in Slots, Release_recv_rdma(s)
    PROVE  Order'
<1>1. PICK free, n, back : Releases(s, free, n, back)
  BY DEF Releases
<1>2. /\ s \in using /\ pTail' = (pTail + n) % NumSlots
      /\ UNCHANGED <<srWire, srQueue, ringQueue>>
  BY <1>1 DEF Release_recv_rdma, Releases, sendVars, queueVars
<1>3. n \in Nat /\ n <= Polled
  BY <1>1, <1>2, GivesBack
<1>4. Unpolled' = Unpolled
  BY CoreRelease
<1>5. PICK e : e = RingNumbers'
  OBVIOUS
<1>6. \A t \in Unpolled \cup Range(ringQueue) : e[t] = RingNumbers[t]
  <2>1. InRing' = InRing
    BY <1>2, <1>4 DEF InRing, InQueue
  <2> QED BY <1>5, <2>1, MessRelease, NumbersStay, OrderNeeds
<1>7. OrderAt(e, ringQueue, pTail, Unpolled)
  BY <1>6, OrderNeeds, OrderSame DEF Order
<1>8. OrderAt(e, ringQueue, (pTail + n) % NumSlots, Unpolled)
  <2>1. RingAt(pTail, Polled, Sent, Given, pRecv, phead, ptail, Held, Unpolled)
    BY OrderNeeds
  <2> QED BY <1>3, <1>7, <2>1, OrderGivenBack
<1>9. SrAt(srWire, srQueue)
  BY DEF Order
<1> QED BY <1>2, <1>4, <1>5, <1>8, <1>9, OrderNext

\* Every step keeps the order, given the other invariants.
LEMMA OrderStep == Core /\ Mess /\ Order /\ [Next]_vars => Order'
<1> SUFFICES ASSUME Core, Mess, Order, [Next]_vars PROVE Order'
  OBVIOUS
<1>0. /\ SrAt(srWire, srQueue) /\ srWire \in Seq(Nat) /\ srQueue \in Seq(Nat)
      /\ nextToSend \in Nat /\ \A n \in Range(srWire) \cup Range(srQueue) : n < nextToSend
  BY OrderNeeds DEF Order
<1>1. CASE UNCHANGED vars
  <2>1. /\ UNCHANGED <<writes, slot, srWire, srQueue, ringQueue, pTail>>
        /\ Unpolled' = Unpolled
    BY <1>1 DEF vars, sendVars, queueVars, freeVars, Unpolled, Slots
  <2>2. SrAt(srWire', srQueue')
    BY <1>0, <2>1
  <2> QED BY <2>1, <2>2, OrderRingSame
<1>2. ASSUME NEW n \in Lens, NEW d \in DataOf(n), Fast_rdma_send(n, d) PROVE Order'
  BY <1>2, OrderSend
<1>3. CASE Eager_send
  <2>1. /\ srWire' = Append(srWire, nextToSend)
        /\ UNCHANGED <<writes, slot, srQueue, ringQueue, pTail>>
    BY <1>3 DEF Eager_send, queueVars, freeVars
  <2>2. SrAt(Append(srWire, nextToSend), srQueue)
    BY <1>0, SrMore
  <2>3. Unpolled' = Unpolled
    BY <1>3, CoreEager
  <2> QED BY <2>1, <2>2, <2>3, OrderRingSame
<1>4. CASE SET_CREDIT \/ SendCredits
  <2>1. /\ UNCHANGED <<writes, slot, srWire, srQueue, ringQueue, pTail>>
        /\ Unpolled' = Unpolled
    <3>1. UNCHANGED <<writes, slot, srWire, srQueue, ringQueue, pTail>>
      BY <1>4 DEF SET_CREDIT, SendCredits, sendVars, queueVars, freeVars
    <3>2. Unpolled' = Unpolled
      BY <1>4, CoreCredit, CoreCreditSent
    <3> QED BY <3>1, <3>2
  <2>2. SrAt(srWire', srQueue')
    BY <1>0, <2>1
  <2> QED BY <2>1, <2>2, OrderRingSame
<1>5. ASSUME NEW s \in Slots, Land(s) \/ Process_send(s) PROVE Order'
  <2>1. UNCHANGED <<srWire, srQueue, ringQueue, pTail>>
    BY <1>5 DEF Land, Process_send, queueVars, freeVars
  <2>2. Unpolled' = Unpolled
    BY <1>5, CoreLand, CoreSent
  <2>3. \A t \in InRing : NumberAt(writes'[t], slot'[t]) = NumberAt(writes[t], slot[t])
    BY <1>5, MessLand, MessSent
  <2>4. SrAt(srWire', srQueue')
    BY <1>0, <2>1
  <2> QED BY <2>1, <2>2, <2>3, <2>4, OrderRingSame
<1>6. ASSUME NEW s \in Slots, Release_recv_rdma(s) PROVE Order'
  BY <1>6, OrderRelease
<1>7. CASE PollRing
  BY <1>7, OrderPoll
<1>8. CASE Cq_poll
  <2>1. /\ srWire # << >> /\ srWire' = Tail(srWire)
        /\ srQueue' = srQueue \/ srQueue' = Append(srQueue, Head(srWire))
        /\ UNCHANGED <<writes, slot, ringQueue, pTail>>
    BY <1>8 DEF Cq_poll, sendVars, freeVars
  <2>2. SrAt(Tail(srWire), srQueue) /\ SrAt(Tail(srWire), Append(srQueue, Head(srWire)))
    BY <1>0, <2>1, SrTaken
  <2>3. Unpolled' = Unpolled
    BY <1>8, CoreCq
  <2>4. SrAt(srWire', srQueue')
    BY <2>1, <2>2
  <2> QED BY <2>1, <2>3, <2>4, OrderRingSame
<1>9. CASE WaitingRing
  BY <1>9, OrderWaitingRing
<1>10. CASE WaitingSr
  <2>1. /\ srQueue # << >> /\ srQueue' = Tail(srQueue)
        /\ UNCHANGED <<writes, slot, srWire, ringQueue, pTail>>
    BY <1>10 DEF WaitingSr, sendVars, freeVars
  <2>2. SrAt(srWire, Tail(srQueue))
    BY <1>0, <2>1, SrUp
  <2>3. Unpolled' = Unpolled
    BY <1>10, CoreWaitingSr
  <2> QED BY <2>1, <2>2, <2>3, OrderRingSame
<1> QED BY <1>1, <1>2, <1>3, <1>4, <1>5, <1>6, <1>7, <1>8, <1>9, <1>10 DEF Next

\* The messages are always in order on each path.
LEMMA OrderAlways == Spec => []Order
<1>1. Init => Core /\ Mess
  BY CoreAtFirst, MessAtFirst
<1>2. Init => Order
  <2> SUFFICES ASSUME Init PROVE Order
    OBVIOUS
  <2>1. PICK z : z = << >>
    OBVIOUS
  <2>2. srWire = z /\ srQueue = z /\ ringQueue = z
    BY <2>1 DEF Init
  <2>3. Len(z) = 0
    BY <2>1
  <2>4. Unpolled = {}
    <3>1. \A s \in Slots : slot[s].head = 0 /\ ~Partial(writes[s])
      BY DEF Init, Partial, NoWrite
    <3> QED BY <3>1, UnpolledIs
  <2>5. SrAt(z, z) /\ OrderAt(RingNumbers, z, pTail, {})
    BY <2>3 DEF SrAt, Rising, OrderAt
  <2> QED BY <2>2, <2>4, <2>5 DEF Order
<1>3. Core /\ Mess /\ Order /\ [Next]_vars => Core' /\ Mess' /\ Order'
  BY CoreStep, MessStep, OrderStep
<1> QED BY <1>1, <1>2, <1>3, PTL DEF Spec

\* While messages are under way, the next one can be got at: it is still to come on the
\* send/receive path, or it is at the head of a queue, where MPIDI_CH3I_MRAILI_Waiting_msg
\* looks for it, or no slot is queued and it is (or will be) in the slot that is polled,
\* which the receiver may poll.
NothingStuck ==
    nextToRecv < nextToSend =>
        \/ srWire # << >>
        \/ srQueue # << >> /\ Expected(Head(srQueue))
        \/ ringQueue # << >> /\ Expected(slot[Head(ringQueue)].num)
        \/ ringQueue = << >> /\ pRecv \in Unpolled /\ pRecv # pTail /\ Expected(NumberIn(pRecv))

\* The messages of the two paths never wait for each other: looking only at the heads of the
\* two queues and at one slot (MPIDI_CH3I_MRAILI_Waiting_msg, MPIDI_CH3I_MRAILI_Get_next_vbuf)
\* is enough to find the next one.
THEOREM NextIsInReach == Spec => []NothingStuck
<1>1. Core /\ Mess /\ Order => NothingStuck
  <2> SUFFICES ASSUME Core, Mess, Order, nextToRecv < nextToSend, srWire = << >>,
                      ~(srQueue # << >> /\ Expected(Head(srQueue))),
                      ~(ringQueue # << >> /\ Expected(slot[Head(ringQueue)].num))
               PROVE  /\ ringQueue = << >> /\ pRecv \in Unpolled /\ pRecv # pTail
                      /\ Expected(NumberIn(pRecv))
    BY DEF NothingStuck
  <2>1. PICK n, f, q, Q : n = nextToRecv /\ f = RingNumbers /\ q = ringQueue /\ Q = srQueue
    OBVIOUS
  <2>2. /\ Q \in Seq(Nat) /\ q \in Seq(Slots) /\ n \in Nat
        /\ RingAt(pTail, Polled, Sent, Given, pRecv, phead, ptail, Held, Unpolled)
        /\ InRing \subseteq Slots /\ InRing = Unpolled \cup Range(q)
        /\ \A s \in InRing : f[s] \in Nat /\ n <= f[s]
        /\ \A m \in Range(Q) : m \in Nat /\ n <= m
    <3>1. \A m \in nextToRecv .. nextToSend - 1 : m \in Nat /\ nextToRecv <= m
      BY OrderNeeds
    <3> QED BY <2>1, <3>1, OrderNeeds
  <2>3. /\ Rising(Q)
        /\ \A i, j \in 1 .. Len(q) : i < j => f[q[i]] < f[q[j]]
        /\ \A i \in 1 .. Len(q) : \A s \in Unpolled : f[q[i]] < f[s]
        /\ \A i, j \in 0 .. NumSlots - 1 :
              At(pTail, i) \in Unpolled /\ At(pTail, j) \in Unpolled /\ i < j
                  => f[At(pTail, i)] < f[At(pTail, j)]
    BY <2>1 DEF Order, SrAt, OrderAt
  <2>4. n \notin Range(Q)
    <3> SUFFICES ASSUME n \in Range(Q) PROVE FALSE
      OBVIOUS
    <3>1. PICK i \in 1 .. Len(Q) : Q[i] = n
      BY <2>2, RangeEquality
    <3>2. 1 \in 1 .. Len(Q) /\ Q # << >> /\ Len(Q) \in Nat
      BY <2>2, <3>1, LenProperties
    <3>3. Q[1] # n
      <4>1. Head(Q) = Q[1]
        BY <2>2, <3>2, HeadTailProperties
      <4> QED BY <2>1, <3>2, <4>1 DEF Expected
    <3>4. 1 < i
      BY <3>1, <3>2, <3>3
    <3>5. Q[1] < n
      BY <2>3, <3>1, <3>2, <3>4 DEF Rising
    <3>6. n <= Q[1] /\ Q[1] \in Nat
      BY <2>2, <3>2, RangeEquality
    <3> QED BY <2>2, <3>5, <3>6
  <2>5. PICK x \in InRing : f[x] = n
    <3>1. n \in {f[y] : y \in DOMAIN f} \cup (Range(srWire) \cup Range(Q))
      <4>1. nextToRecv \in nextToRecv .. nextToSend - 1
        BY OrderNeeds
      <4> QED BY <2>1, <4>1 DEF Mess, MessAt
    <3>2. Range(srWire) = {} /\ DOMAIN f = InRing
      BY <2>1, OrderNeeds DEF Range
    <3> QED BY <2>4, <3>1, <3>2
  <2>6. x \notin Range(q)
    <3> SUFFICES ASSUME x \in Range(q) PROVE FALSE
      OBVIOUS
    <3>1. PICK i \in 1 .. Len(q) : q[i] = x
      BY <2>2, RangeEquality
    <3>2. 1 \in 1 .. Len(q) /\ q # << >> /\ Len(q) \in Nat /\ Head(q) = q[1]
      BY <2>2, <3>1, LenProperties, HeadTailProperties
    <3>3. q[1] \in Range(q) /\ q[1] \in InRing
      BY <2>2, <3>2, RangeEquality
    <3>4. f[q[1]] = slot[q[1]].num
      <4>1. q[1] \in Slots /\ q[1] \notin Unpolled
        BY <2>1, <2>2, <3>3, HeldApart DEF Held
      <4>2. ~Partial(writes[q[1]])
        BY <4>1, Landed
      <4> QED BY <2>1, <3>3, <4>1, <4>2, NumberLanded DEF RingNumbers
    <3>5. f[q[1]] # n
      BY <2>1, <3>2, <3>4 DEF Expected
    <3>6. 1 < i
      BY <2>5, <3>1, <3>2, <3>5
    <3>7. f[q[1]] < n
      BY <2>3, <2>5, <3>1, <3>2, <3>6
    <3>8. n <= f[q[1]] /\ f[q[1]] \in Nat
      BY <2>2, <3>3
    <3> QED BY <2>2, <3>7, <3>8
  <2>7. x \in Unpolled
    BY <2>2, <2>5, <2>6
  <2>8. q = << >>
    <3> SUFFICES ASSUME q # << >> PROVE FALSE
      OBVIOUS
    <3>1. 1 \in 1 .. Len(q)
      BY <2>2, LenProperties, EmptySeq
    <3>2. f[q[1]] < n
      BY <2>3, <2>5, <2>7, <3>1
    <3>3. n <= f[q[1]] /\ f[q[1]] \in Nat
      BY <2>2, <3>1, RangeEquality
    <3> QED BY <2>2, <3>2, <3>3
  <2>9. PICK t, a, b, g : t = pTail /\ a = Polled /\ b = Sent /\ g = Given
    OBVIOUS
  <2>10. /\ t \in Slots /\ a \in Nat /\ b \in Nat /\ g \in Nat /\ a + b + g <= NumSlots - 1
         /\ pRecv = At(t, a)
         /\ \A i \in 0 .. NumSlots - 1 : At(t, i) \in Unpolled <=> a <= i /\ i < a + b
    BY <2>2, <2>9 DEF RingAt
  <2>11. NumSlots \in Nat /\ NumSlots > 1
    BY FastAssumption
  <2>12. PICK i \in 0 .. NumSlots - 1 : x = At(t, i)
    BY <2>2, <2>5, <2>10, OnePlace
  <2>13. a <= i /\ i < a + b
    BY <2>7, <2>10, <2>12
  <2>14. a \in 0 .. NumSlots - 1 /\ a < NumSlots - 1 /\ NumSlots - 1 \in 0 .. NumSlots - 1
         /\ a < a + b
    BY <2>10, <2>11, <2>12, <2>13
  <2>15. At(t, a) \in Unpolled
    BY <2>10, <2>14
  <2>16. i = a
    <3> SUFFICES ASSUME i # a PROVE FALSE
      OBVIOUS
    <3>1. a < i
      BY <2>10, <2>12, <2>13
    <3>2. f[At(t, a)] < n
      BY <2>3, <2>5, <2>7, <2>9, <2>12, <2>14, <2>15, <3>1
    <3>3. n <= f[At(t, a)] /\ f[At(t, a)] \in Nat
      BY <2>2, <2>15
    <3> QED BY <2>2, <3>2, <3>3
  <2>17. x = pRecv
    BY <2>10, <2>12, <2>16
  <2>18. pRecv # pTail
    <3>1. pTail = At(t, NumSlots - 1)
      <4>1. At(t, NumSlots - 1) = IF t + 1 + (NumSlots - 1) < NumSlots
                                  THEN t + 1 + (NumSlots - 1) ELSE t + 1 + (NumSlots - 1) - NumSlots
        BY <2>10, <2>14, AtIs
      <4>2. t \in Nat
        BY <2>10, <2>11 DEF Slots
      <4> QED BY <2>9, <2>11, <4>1, <4>2
    <3>2. a # NumSlots - 1
      BY <2>10, <2>11, <2>14
    <3> QED BY <2>10, <2>14, <3>1, <3>2, OnePlace
  <2>19. Expected(NumberIn(pRecv))
    BY <2>1, <2>5, <2>17 DEF Expected, NumberIn, RingNumbers, NumberAt
  <2> QED BY <2>1, <2>7, <2>8, <2>17, <2>18, <2>19
<1> QED BY <1>1, CoreAlways, MessAlways, OrderAlways, PTL

\* When the ring is ready for the sender (MPIDI_CH3I_MRAILI_Fast_rdma_ok), the slot that it
\* writes next holds nothing that the receiver has still to poll, to hand up or to release.
SlotTakenIsFree ==
    Fast_rdma_ok => phead \notin using \cup freed \cup Range(ringQueue) \cup Unpolled

\* No message is written over one that is still needed.
THEOREM NothingOverwritten == Spec => []SlotTakenIsFree
<1>1. Core => SlotTakenIsFree
  <2> SUFFICES ASSUME Core, phead # ptail
               PROVE  phead \notin using \cup freed \cup Range(ringQueue) \cup Unpolled
    BY DEF SlotTakenIsFree, Fast_rdma_ok
  <2>1. RingAt(pTail, Polled, Sent, Given, pRecv, phead, ptail, Held, Unpolled)
    BY DEF Core, RingInv
  <2>2. phead \notin Held /\ phead \notin Unpolled
    BY <2>1, RingSends
  <2> QED BY <2>2 DEF Held
<1> QED BY <1>1, CoreAlways, PTL
=============================================================================
