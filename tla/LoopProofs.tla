----------------------------- MODULE LoopProofs -----------------------------
(***************************************************************************)
(* What recursive functions over an interval of numbers stand on: the      *)
(* least-number principle, induction, and the existence of the values of a *)
(* loop.                                                                   *)
(***************************************************************************)
EXTENDS Integers, WellFoundedInduction, TLAPS

\* Few leaves need another prover; those name it.
USE Zenon

\* The least-number principle, from which induction follows.
LEMMA Least ==
    ASSUME NEW T, T \subseteq Nat, T # {}
    PROVE \E n \in T : \A k \in T : n <= k
<1> DEFINE R == {pair \in Nat \X Nat : pair[1] < pair[2]}
<1>1. IsWellFoundedOn(R, Nat)
    BY NatLessThanWellFounded, SMT DEF OpToRel
<1> HIDE DEF R
<1>2. PICK x \in T : \A y \in T : ~(<<y, x>> \in R)
    BY <1>1, WFMin
<1>3. \A a, b \in Nat : a < b => <<a, b>> \in R
    BY SMT DEF R
<1>4. \A y \in T : ~(y < x)
    BY <1>2, <1>3
<1> QED
    BY <1>2, <1>4, SMT

\* Induction over the turns of a loop.
LEMMA Induction ==
    ASSUME NEW N \in Nat, NEW P, 0 \in P, \A n \in 1..N : n - 1 \in P => n \in P
    PROVE \A n \in 0..N : n \in P
<1> DEFINE T == {n \in 0..N : n \notin P}
<1>1. SUFFICES ASSUME T # {}
               PROVE FALSE
    OBVIOUS
<1>2. T \subseteq Nat
    BY SMT
<1>3. PICK n \in T : \A k \in T : n <= k
    BY <1>1, <1>2, Least
<1>4. n \in 0..N /\ n \notin P /\ n # 0
    BY <1>3
<1>5. n \in 1..N /\ n - 1 \in 0..N /\ ~(n <= n - 1)
    BY <1>4, SMT
<1>6. n - 1 \in P
    BY <1>3, <1>5
<1> QED
    BY <1>4, <1>5, <1>6

\* The values of N steps from a start, the k-th step its own function.
Iterable(S, start, step, N) == start \in S /\ step \in [Nat -> [S -> S]] /\ N \in Nat
Iteration(f, S, start, step, N) ==
    f \in [0..N -> S] /\ f[0] = start /\ \A k \in 1..N : f[k] = step[k][f[k - 1]]

\* There are such values: what a recursive function over an interval stands on.
LEMMA Iterates ==
    ASSUME NEW S, NEW start, NEW step, NEW N, Iterable(S, start, step, N)
    PROVE \E f : Iteration(f, S, start, step, N)
<1> USE DEF Iterable
<1> DEFINE Good(n) == \E f : Iteration(f, S, start, step, n)
           T == {n \in Nat : ~Good(n)}
<1>1. SUFFICES T = {}
    OBVIOUS
<1>2. SUFFICES ASSUME T # {}
               PROVE FALSE
    OBVIOUS
<1>3. PICK n \in T : \A k \in T : n <= k
    BY <1>2, Least
<1> USE DEF Iteration
<1>4. CASE n = 0
  <2> DEFINE f == [k \in 0..0 |-> start]
  <2>1. 0 \in 0..0 /\ ~\E k \in 1..0 : TRUE
      BY SMT
  <2>2. f \in [0..0 -> S] /\ f[0] = start
      BY <2>1
  <2>3. Good(0)
      BY <2>1, <2>2
  <2> QED
      BY <1>4, <2>3
<1>5. CASE n # 0
  <2>1. n \in Nat /\ n - 1 \in Nat /\ ~(n <= n - 1)
      BY <1>5, SMT
  <2>2. Good(n - 1)
      BY <1>3, <2>1
  <2>3. PICK f \in [0..(n - 1) -> S] : f[0] = start /\ \A k \in 1..(n - 1) : f[k] = step[k][f[k - 1]]
      BY <2>2
  <2> DEFINE g == [k \in 0..n |-> IF k = n THEN step[n][f[n - 1]] ELSE f[k]]
  <2>4. f[n - 1] \in S /\ step[n] \in [S -> S]
      BY <2>1, <2>3, SMT
  <2>5. g \in [0..n -> S]
      BY <2>1, <2>3, <2>4, SMT
  <2>6. g[0] = start
      BY <2>1, <2>3, <1>5, SMT
  <2>7. ASSUME NEW k \in 1..n
        PROVE g[k] = step[k][g[k - 1]]
    <3>1. CASE k = n
        BY <2>1, <3>1, SMT
    <3>2. CASE k # n
      <4>1. k \in 1..(n - 1) /\ k - 1 # n /\ k - 1 \in 0..n /\ k \in 0..n
          BY <2>1, <3>2, SMT
      <4>2. g[k] = f[k] /\ g[k - 1] = f[k - 1]
          BY <3>2, <4>1
      <4> QED
          BY <2>3, <4>1, <4>2
    <3> QED
        BY <3>1, <3>2
  <2>8. Good(n)
      BY <2>5, <2>6, <2>7
  <2> QED
      BY <2>8
<1> QED
    BY <1>4, <1>5
=============================================================================
