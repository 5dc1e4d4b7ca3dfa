------------------------------- MODULE Loops -------------------------------
(* A loop that builds up a value: from start, one Step for each index up to n. *)
(* The models write such loops as recursive functions; a proof instantiates   *)
(* this module with the body of the loop to know its value at every index.    *)
EXTENDS DataLemmas

CONSTANT Step(_, _, _)  \* what the loop runs over, the value so far, the index

IsLoop(v, of, start, n) ==
  v = [i \in 0..n |-> IF i = 0 THEN start ELSE Step(of, v[i - 1], i)]

\* The equation of the recursive function has a solution, so the function that
\* is defined by it satisfies it.
LEMMA LoopExists ==
  ASSUME NEW of, NEW start
  PROVE  \A n \in Nat : \E v : IsLoop(v, of, start, n)
  <1> DEFINE T == {n \in Nat : \E v : IsLoop(v, of, start, n)}
  <1>1. 0 \in T
    <2>1. IsLoop([i \in 0..0 |-> start], of, start, 0)
      BY DEF IsLoop
    <2> QED
      BY <2>1
  <1>2. ASSUME NEW n \in Nat, n \in T
        PROVE  n + 1 \in T
    <2>1. PICK v : IsLoop(v, of, start, n)
      BY <1>2
    <2> DEFINE w == [i \in 0..(n + 1) |-> IF i <= n THEN v[i] ELSE Step(of, v[n], n + 1)]
    <2>2. \A i \in 0..(n + 1) : w[i] = IF i = 0 THEN start ELSE Step(of, w[i - 1], i)
      <3> TAKE i \in 0..(n + 1)
      <3>1. CASE i = 0
        BY <3>1, <2>1 DEF IsLoop
      <3>2. CASE i \in 1..n
        <4>1. w[i] = v[i] /\ w[i - 1] = v[i - 1]
          BY <3>2
        <4> QED
          BY <3>2, <4>1, <2>1 DEF IsLoop
      <3>3. CASE i = n + 1
        <4>1. w[i - 1] = v[n]
          BY <3>3
        <4> QED
          BY <3>3, <4>1
      <3> QED
        BY <3>1, <3>2, <3>3
    <2>3. IsLoop(w, of, start, n + 1)
      BY <2>2 DEF IsLoop
    <2> QED
      BY <2>3
  <1> HIDE DEF T
  <1>3. Nat \subseteq T
    BY <1>1, <1>2, Climb
  <1> QED
    BY <1>3 DEF T

\* The loop from one index to the next.
LEMMA LoopAt ==
  ASSUME NEW of, NEW start, NEW n \in Nat, NEW v, IsLoop(v, of, start, n)
  PROVE  v[0] = start /\ \A i \in 0..n - 1 : v[i + 1] = Step(of, v[i], i + 1)
  <1>1. \A i \in 0..n - 1 : i + 1 \in 0..n /\ i + 1 # 0 /\ i + 1 - 1 = i
    OBVIOUS
  <1> QED
    BY <1>1 DEF IsLoop

\* Whatever holds at the start and after a step holds all along.
LEMMA LoopStays ==
  ASSUME NEW of, NEW start, NEW n \in Nat, NEW v, IsLoop(v, of, start, n),
         NEW S, start \in S, \A x \in S : \A i \in 1..n : Step(of, x, i) \in S
  PROVE  \A i \in 0..n : v[i] \in S
  <1> DEFINE T == {i \in 0..n : v[i] \in S}
  <1>1. 0 \in T
    BY DEF IsLoop
  <1>2. ASSUME NEW i \in 0..n - 1, i \in T
        PROVE  i + 1 \in T
    <2>1. v[i + 1] = Step(of, v[i], i + 1)
      BY LoopAt
    <2> QED
      BY <1>2, <2>1
  <1> HIDE DEF T
  <1>3. 0..n \subseteq T
    BY <1>1, <1>2, ClimbTo
  <1> QED
    BY <1>3 DEF T
=============================================================================
