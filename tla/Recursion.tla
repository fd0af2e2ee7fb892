------------------------------ MODULE Recursion ------------------------------
(***************************************************************************)
(* What the proofs about scans need: induction over the positions of a     *)
(* sequence, and that a recursive function over them satisfies its         *)
(* defining equation.                                                      *)
(*                                                                         *)
(* The library states both for an operator as a parameter, which the       *)
(* provers cannot instantiate; here the induction is over a set and the    *)
(* step of the recursion is a function.                                    *)
(***************************************************************************)
EXTENDS Integers, Sequences, TLAPS, WellFoundedInduction, SequenceTheorems

\* A set of positions has a smallest one.
LEMMA Smallest ==
  ASSUME NEW T, T \subseteq Nat, T # {}
  PROVE  \E x \in T : \A y \in T : x <= y
<1>1. PICK x \in T : \A y \in T : <<y, x>> \notin OpToRel(<, Nat)
  BY WFMin, NatLessThanWellFounded, Zenon
<1>2. \A y \in T : ~(y < x)
  BY <1>1 DEF OpToRel
<1> QED
  BY <1>2

LEMMA Largest ==
  ASSUME NEW N \in Nat, NEW T, T \subseteq 0 .. N, T # {}
  PROVE  \E x \in T : \A y \in T : y <= x
<1> DEFINE Distances == {N - y : y \in T}
<1>1. Distances \subseteq Nat /\ Distances # {}
  <2>1. PICK y \in T : TRUE
    OBVIOUS
  <2>2. N - y \in Distances
    BY <2>1
  <2> QED
    BY <2>2
<1>2. PICK d \in Distances : \A e \in Distances : d <= e
  <2> HIDE DEF Distances
  <2> QED
    BY <1>1, Smallest
<1>3. PICK x \in T : d = N - x
  OBVIOUS
<1>4. \A y \in T : N - x <= N - y
  BY <1>2, <1>3
<1> QED
  BY <1>4

LEMMA Induction ==
  ASSUME NEW T, 0 \in T, \A n \in Nat : n \in T => n + 1 \in T
  PROVE  Nat \subseteq T
<1> SUFFICES ASSUME Nat \ T # {} PROVE FALSE
  OBVIOUS
<1>1. PICK x \in Nat \ T : \A y \in Nat \ T : x <= y
  BY Smallest
<1>2. x - 1 \in Nat /\ x - 1 \notin Nat \ T
  BY <1>1
<1> QED
  BY <1>1, <1>2

\* From a value in S, and the position of the step, to one in S.
IsStep(step, N, S) == step \in [(1 .. N) \X S -> S]

\* The values after 0, 1, ... N steps.
IsRun(f, first, step, N, S) ==
  f \in [0 .. N -> S] /\ f[0] = first /\ \A n \in 1 .. N : f[n] = step[<<n, f[n - 1]>>]

LEMMA RecursiveFunction ==
  ASSUME NEW N \in Nat, NEW S, NEW first \in S, NEW step, IsStep(step, N, S)
  PROVE  \E f : IsRun(f, first, step, N, S)
<1> DEFINE T == {k \in Nat : k <= N => \E f : IsRun(f, first, step, k, S)}
<1>1. 0 \in T
  <2>1. IsRun([n \in 0 .. 0 |-> first], first, step, 0, S)
    BY DEF IsRun
  <2> QED
    BY <2>1
<1>2. ASSUME NEW k \in Nat, k \in T PROVE k + 1 \in T
  <2> SUFFICES ASSUME k + 1 <= N PROVE \E f : IsRun(f, first, step, k + 1, S)
    OBVIOUS
  <2>1. PICK f : IsRun(f, first, step, k, S)
    BY <1>2
  <2> DEFINE g == [n \in 0 .. k + 1 |-> IF n = k + 1 THEN step[<<n, f[n - 1]>>] ELSE f[n]]
  <2>2. step[<<k + 1, f[k]>>] \in S /\ f \in [0 .. k -> S]
    BY <2>1 DEF IsStep, IsRun
  <2>3. g \in [0 .. k + 1 -> S]
    BY <2>2
  <2>4. \A n \in 0 .. k : g[n] = f[n]
    OBVIOUS
  <2>5. g[k + 1] = step[<<k + 1, g[k]>>]
    BY <2>4
  <2> HIDE DEF g
  <2>6. \A n \in 1 .. k + 1 : g[n] = step[<<n, g[n - 1]>>]
    <3> TAKE n \in 1 .. k + 1
    <3>1. CASE n = k + 1
      BY <2>5, <3>1
    <3>2. CASE n \in 1 .. k
      <4>1. n - 1 \in 0 .. k /\ n \in 0 .. k
        BY <3>2
      <4> QED
        BY <2>1, <2>4, <3>2, <4>1 DEF IsRun
    <3> QED
      BY <3>1, <3>2
  <2>7. g[0] = first
    <3>1. 0 \in 0 .. k /\ f[0] = first
      BY <2>1 DEF IsRun
    <3> QED
      BY <2>4, <3>1
  <2>8. IsRun(g, first, step, k + 1, S)
    BY <2>3, <2>6, <2>7 DEF IsRun
  <2> QED
    BY <2>8
<1>3. N \in T
  <2> HIDE DEF T
  <2> QED
    BY <1>1, <1>2, Induction
<1> QED
  BY <1>3

\* There is only one; g need not be known to stay in S.
LEMMA SameRun ==
  ASSUME NEW N \in Nat, NEW S, NEW first \in S, NEW step, IsStep(step, N, S),
         NEW f, IsRun(f, first, step, N, S),
         NEW g, g = [n \in 0 .. N |-> g[n]], g[0] = first,
         \A n \in 1 .. N : g[n - 1] \in S => g[n] = step[<<n, g[n - 1]>>]
  PROVE  IsRun(g, first, step, N, S)
<1> DEFINE T == {n \in Nat : n <= N => g[n] = f[n]}
<1>1. 0 \in T
  BY DEF IsRun
<1>2. ASSUME NEW n \in Nat, n \in T PROVE n + 1 \in T
  <2> SUFFICES ASSUME n + 1 <= N PROVE g[n + 1] = f[n + 1]
    OBVIOUS
  <2>1. n \in 0 .. N /\ n + 1 \in 1 .. N /\ (n + 1) - 1 = n
    OBVIOUS
  <2>2. g[n] = f[n]
    BY <1>2
  <2>3. f[n] \in S /\ f[n + 1] = step[<<n + 1, f[n]>>]
    BY <2>1 DEF IsRun
  <2> QED
    BY <2>1, <2>2, <2>3
<1>3. Nat \subseteq T
  <2> HIDE DEF T
  <2> QED
    BY <1>1, <1>2, Induction
<1>4. \A n \in 0 .. N : g[n] = f[n]
  BY <1>3
<1>5. f = [n \in 0 .. N |-> f[n]]
  BY DEF IsRun
<1>6. g = f
  BY <1>4, <1>5
<1> QED
  BY <1>6

\* Two runs that begin alike and go on alike end alike.
LEMMA SameSteps ==
  ASSUME NEW N \in Nat, NEW f, NEW g, f[0] = g[0],
         \A n \in 1 .. N : f[n - 1] = g[n - 1] => f[n] = g[n]
  PROVE  \A n \in 0 .. N : f[n] = g[n]
<1> DEFINE T == {n \in Nat : n <= N => f[n] = g[n]}
<1>1. 0 \in T
  OBVIOUS
<1>2. ASSUME NEW n \in Nat, n \in T PROVE n + 1 \in T
  <2>1. n + 1 <= N => n + 1 \in 1 .. N /\ (n + 1) - 1 = n
    OBVIOUS
  <2>2. n + 1 <= N => f[n] = g[n]
    BY <1>2
  <2> QED
    BY <2>1, <2>2
<1>3. Nat \subseteq T
  <2> HIDE DEF T
  <2> QED
    BY <1>1, <1>2, Induction
<1> QED
  BY <1>3

\* What holds of the empty sequence and is kept by Append holds of all.
LEMMA SequenceInduction ==
  ASSUME NEW S, NEW T, << >> \in T, \A s \in Seq(S), e \in S : s \in T => Append(s, e) \in T
  PROVE  Seq(S) \subseteq T
<1> DEFINE L == {n \in Nat : \A s \in Seq(S) : Len(s) = n => s \in T}
<1>1. 0 \in L
  BY EmptySeq
<1>2. ASSUME NEW n \in Nat, n \in L PROVE n + 1 \in L
  <2> SUFFICES ASSUME NEW s \in Seq(S), Len(s) = n + 1 PROVE s \in T
    OBVIOUS
  <2>1. s # << >>
    BY EmptySeq
  <2>2. PICK front \in Seq(S), e \in S : s = Append(front, e)
    BY <2>1, SequenceEmptyOrAppend
  <2>3. Len(front) = n
    BY <2>2, AppendProperties, LenProperties
  <2>4. front \in T
    BY <1>2, <2>3
  <2> QED
    BY <2>2, <2>4
<1>3. Nat \subseteq L
  <2> HIDE DEF L
  <2> QED
    BY <1>1, <1>2, Induction
<1> QED
  BY <1>3, LenProperties
=============================================================================
