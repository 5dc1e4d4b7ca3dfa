----------------------------- MODULE DataLemmas -----------------------------
(* Facts about data that several proofs need: queues, induction over the      *)
(* natural numbers stated for sets, finite images.                           *)
EXTENDS Integers, Sequences, FiniteSets, SequenceTheorems, FiniteSetTheorems, TLAPS

(***************************************************************************)
(* A queue t and the history s of what was taken from it.                    *)
(***************************************************************************)

\* Offering to the queue appends to the history followed by the queue.
LEMMA ConcatAppend ==
  ASSUME NEW S, NEW s \in Seq(S), NEW t \in Seq(S), NEW x \in S
  PROVE  s \o Append(t, x) = Append(s \o t, x)
  <1>1. s \o t \in Seq(S) /\ Append(t, x) \in Seq(S)
    BY ConcatProperties, AppendProperties
  <1>2. s \o Append(t, x) \in Seq(S) /\ Append(s \o t, x) \in Seq(S)
    BY <1>1, ConcatProperties, AppendProperties
  <1>3. /\ Len(s \o Append(t, x)) = Len(s) + Len(t) + 1
        /\ Len(Append(s \o t, x)) = Len(s) + Len(t) + 1
    BY <1>1, ConcatProperties, AppendProperties, LenProperties
  <1>4. ASSUME NEW i \in 1..(Len(s) + Len(t) + 1)
        PROVE  (s \o Append(t, x))[i] = Append(s \o t, x)[i]
    <2>0. Len(s) \in Nat /\ Len(t) \in Nat /\ Len(s \o t) = Len(s) + Len(t)
      BY ConcatProperties, LenProperties
    <2>1. (s \o Append(t, x))[i] = IF i <= Len(s) THEN s[i] ELSE Append(t, x)[i - Len(s)]
      BY <1>1, <1>3, <2>0, ConcatProperties, AppendProperties
    <2>2. CASE i <= Len(s)
      BY <1>1, <2>0, <2>1, <2>2, ConcatProperties, AppendProperties
    <2>3. CASE i > Len(s) /\ i <= Len(s) + Len(t)
      BY <1>1, <2>0, <2>1, <2>3, ConcatProperties, AppendProperties
    <2>4. CASE i = Len(s) + Len(t) + 1
      BY <1>1, <2>0, <2>1, <2>4, ConcatProperties, AppendProperties
    <2> QED
      BY <2>0, <2>2, <2>3, <2>4
  <1> QED
    BY <1>2, <1>3, <1>4, SeqEqual

\* Taking the head of the queue does not change the history followed by the
\* queue.
LEMMA ConcatShift ==
  ASSUME NEW S, NEW s \in Seq(S), NEW t \in Seq(S), t # <<>>
  PROVE  Append(s, Head(t)) \o Tail(t) = s \o t
  <1>0. Len(s) \in Nat /\ Len(t) \in Nat /\ Len(t) >= 1
    BY LenProperties, EmptySeq
  <1>1. Head(t) \in S /\ Tail(t) \in Seq(S) /\ Head(t) = t[1]
    BY HeadTailProperties
  <1> DEFINE u == Append(s, Head(t))
  <1>2. u \in Seq(S) /\ Len(u) = Len(s) + 1
    BY <1>1, AppendProperties
  <1>3. u \o Tail(t) \in Seq(S) /\ s \o t \in Seq(S)
    BY <1>1, <1>2, ConcatProperties
  <1>4. Len(u \o Tail(t)) = Len(s) + Len(t) /\ Len(s \o t) = Len(s) + Len(t)
    BY <1>0, <1>1, <1>2, ConcatProperties, HeadTailProperties
  <1>5. ASSUME NEW i \in 1..(Len(s) + Len(t))
        PROVE  (u \o Tail(t))[i] = (s \o t)[i]
    <2>1. (u \o Tail(t))[i] = IF i <= Len(u) THEN u[i] ELSE Tail(t)[i - Len(u)]
      BY <1>0, <1>1, <1>2, <1>4, ConcatProperties, HeadTailProperties
    <2>2. (s \o t)[i] = IF i <= Len(s) THEN s[i] ELSE t[i - Len(s)]
      BY <1>4, ConcatProperties
    <2>3. CASE i <= Len(s)
      BY <1>0, <1>1, <1>2, <2>1, <2>2, <2>3, AppendProperties
    <2>4. CASE i = Len(s) + 1
      BY <1>0, <1>1, <1>2, <2>1, <2>2, <2>4, AppendProperties
    <2>5. CASE i > Len(s) + 1
      <3>1. i - Len(u) \in 1..Len(Tail(t)) /\ (i - Len(u)) + 1 = i - Len(s)
        BY <1>0, <1>1, <1>2, <2>5, HeadTailProperties
      <3>2. Tail(t)[i - Len(u)] = t[i - Len(s)]
        BY <3>1, HeadTailProperties
      <3> QED
        BY <1>0, <1>2, <2>1, <2>2, <2>5, <3>2
    <2> QED
      BY <1>0, <2>3, <2>4, <2>5
  <1> QED
    BY <1>3, <1>4, <1>5, SeqEqual

(***************************************************************************)
(* Induction.                                                               *)
(***************************************************************************)

\* A set of natural numbers that is not empty has a least element.
LEMMA Smallest ==
  ASSUME NEW T, T \subseteq Nat, T # {}
  PROVE  \E x \in T : \A y \in T : x <= y
  <1>1. PICK x \in T : \A y \in T : <<y, x>> \notin OpToRel(<, Nat)
    BY WFMin, NatLessThanWellFounded, Zenon
  <1>2. \A y \in T : ~(y < x)
    BY <1>1, Zenon DEF OpToRel
  <1> QED
    BY <1>2

\* A set that holds zero, and with a number the next one, holds them all.
LEMMA Climb ==
  ASSUME NEW T, 0 \in T, \A n \in Nat : n \in T => n + 1 \in T
  PROVE  Nat \subseteq T
  <1> SUFFICES ASSUME Nat \ T # {} PROVE FALSE
    OBVIOUS
  <1>1. PICK x \in Nat \ T : \A y \in Nat \ T : x <= y
    BY Smallest
  <1>2. x # 0 /\ x - 1 \in Nat
    BY <1>1
  <1>3. x - 1 \in T
    BY <1>1, <1>2
  <1> QED
    BY <1>1, <1>2, <1>3

\* The same up to a bound.
LEMMA ClimbTo ==
  ASSUME NEW m \in Nat, NEW T, 0 \in T, \A n \in 0..(m - 1) : n \in T => n + 1 \in T
  PROVE  0..m \subseteq T
  <1> DEFINE U == {n \in Nat : n <= m => n \in T}
  <1>1. 0 \in U
    OBVIOUS
  <1>2. \A n \in Nat : n \in U => n + 1 \in U
    OBVIOUS
  <1> HIDE DEF U
  <1>3. Nat \subseteq U
    BY <1>1, <1>2, Climb
  <1> QED
    BY <1>3 DEF U

\* The values of a function with a finite domain are finitely many.
LEMMA FiniteImage ==
  ASSUME NEW f, IsFiniteSet(DOMAIN f), f = [x \in DOMAIN f |-> f[x]]
  PROVE  IsFiniteSet({f[x] : x \in DOMAIN f})
  <1> DEFINE T == {f[x] : x \in DOMAIN f}
  <1>1. f \in Surjection(DOMAIN f, T)
    BY DEF Surjection
  <1> QED
    BY <1>1, FS_Surjection

\* There are n numbers from 1 to n.
LEMMA CountTo ==
  ASSUME NEW n \in Nat
  PROVE  IsFiniteSet(1..n) /\ Cardinality(1..n) = n
  <1>1. IsFiniteSet(1..n) /\ Cardinality(1..n) = IF 1 > n THEN 0 ELSE n - 1 + 1
    BY FS_Interval
  <1> QED
    BY <1>1
=============================================================================
