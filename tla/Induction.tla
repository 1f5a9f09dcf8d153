----------------------------- MODULE Induction -----------------------------
(***************************************************************************)
(* Induction and recursion over the naturals, stated for sets and          *)
(* functions instead of operators: the facts that proofs about the         *)
(* recursive functions of this project rest on.                            *)
(***************************************************************************)
EXTENDS Integers, WellFoundedInduction, TLAPS

\* A non-empty set of naturals has a least element.
LEMMA LeastNatural ==
    ASSUME NEW T, T \subseteq Nat, T # {}
    PROVE  \E x \in T : \A y \in T : x <= y
<1> DEFINE Less(a, b) == a < b
           R == {p \in Nat \X Nat : Less(p[1], p[2])}
<1>1. IsWellFoundedOn(R, Nat)
      BY Zenon, NatLessThanWellFounded DEF OpToRel
<1>2. \E x \in T : \A y \in T : <<y, x>> \notin R
  <2> HIDE DEF R
  <2> QED  BY <1>1, WFMin
<1>3. PICK x \in T : \A y \in T : <<y, x>> \notin R
      BY <1>2
<1>4. ASSUME NEW y \in T
      PROVE  x <= y
  <2>1. x \in Nat /\ y \in Nat /\ ~Less(y, x)
        BY <1>3
  <2>2. QED  BY <2>1
<1>5. QED  BY <1>4

\* A set with 0 and the successors of its elements has all naturals.
LEMMA NaturalInduction ==
    ASSUME NEW S, 0 \in S, \A n \in Nat : n \in S => n + 1 \in S
    PROVE  \A n \in Nat : n \in S
<1> DEFINE T == Nat \ S
<1>1. SUFFICES ASSUME T # {}
               PROVE  FALSE
      OBVIOUS
<1>2. PICK x \in T : \A y \in T : x <= y
      BY <1>1, LeastNatural
<1>3. x - 1 \in Nat /\ x - 1 \notin T
      BY <1>2
<1>4. QED  BY <1>3

\* The same over an interval.
LEMMA IntervalInduction ==
    ASSUME NEW N \in Nat, NEW S, 0 \in S, \A n \in 0..(N - 1) : n \in S => n + 1 \in S
    PROVE  \A n \in 0..N : n \in S
<1> DEFINE T == {n \in Nat : n <= N => n \in S}
<1>1. 0 \in T /\ \A n \in Nat : n \in T => n + 1 \in T
      OBVIOUS
<1>2. \A n \in Nat : n \in T
  <2> HIDE DEF T
  <2> QED  BY <1>1, NaturalInduction
<1>3. QED  BY <1>2

\* g holds the first n + 1 values of the recursion that starts at a.
Approximates(g, n, A, a, step) ==
    /\ g \in [0..n -> A] /\ g[0] = a
    /\ \A k \in 0..(n - 1) : g[k + 1] = step[k][g[k]]

\* A recursion whose values stay in a set defines a function.
THEOREM PrimitiveRecursion ==
    ASSUME NEW A, NEW a \in A, NEW step \in [Nat -> [A -> A]], NEW N \in Nat
    PROVE  \E g : Approximates(g, N, A, a, step)
<1> DEFINE S == {n \in Nat : \E g : Approximates(g, n, A, a, step)}
<1>1. 0 \in S
  <2>1. Approximates([k \in 0..0 |-> a], 0, A, a, step)
        BY DEF Approximates
  <2>2. QED  BY <2>1
<1>2. ASSUME NEW n \in Nat, n \in S
      PROVE  n + 1 \in S
  <2>1. PICK g : Approximates(g, n, A, a, step)
        BY <1>2
  <2> DEFINE h == [k \in 0..(n + 1) |-> IF k = n + 1 THEN step[n][g[n]] ELSE g[k]]
  <2>2. n \in 0..n /\ g[n] \in A /\ step[n][g[n]] \in A
        BY <2>1 DEF Approximates
  <2>3. h \in [0..(n + 1) -> A] /\ h[0] = a
        BY <2>1, <2>2 DEF Approximates
  <2>4. ASSUME NEW k \in 0..n
        PROVE  h[k + 1] = step[k][h[k]]
    <3>1. CASE k = n
          BY <2>1, <3>1 DEF Approximates
    <3>2. CASE k # n
      <4>1. k \in 0..(n - 1) /\ k + 1 # n + 1 /\ k + 1 \in 0..(n + 1)
            BY <3>2
      <4>2. h[k + 1] = g[k + 1] /\ h[k] = g[k]
            BY <3>2, <4>1
      <4>3. QED  BY <2>1, <4>1, <4>2 DEF Approximates
    <3>3. QED  BY <3>1, <3>2
  <2>5. Approximates(h, n + 1, A, a, step)
    <3> HIDE DEF h
    <3>1. 0..((n + 1) - 1) = 0..n
          OBVIOUS
    <3>2. QED  BY <2>3, <2>4, <3>1 DEF Approximates
  <2>6. QED  BY <2>5
<1>3. \A n \in Nat : n \in S
  <2> HIDE DEF S
  <2> QED  BY <1>1, <1>2, NaturalInduction
<1>4. QED  BY <1>3
=============================================================================
