------------------------------ MODULE Induction ------------------------------
(***************************************************************************)
(* Induction for the proofs of this directory, without parameters that are *)
(* operators: a set of numbers that holds 0 and the successor of each of   *)
(* its members is Nat, and functions can be defined by recursion.          *)
(***************************************************************************)
EXTENDS Integers, Sequences, WellFoundedInduction, TLAPS

Less == {pair \in Nat \X Nat : pair[1] < pair[2]}

LEMMA LessIsWellFounded == IsWellFoundedOn(Less, Nat)
BY NatLessThanWellFounded DEF Less, OpToRel

(* Every set of natural numbers that is not empty has a smallest one. *)
LEMMA Smallest ==
  ASSUME NEW T \in SUBSET Nat, T # {}
  PROVE  \E n \in T : \A m \in T : n <= m
<1>1. PICK n \in T : \A m \in T : ~(<<m, n>> \in Less)
  BY LessIsWellFounded, WFMin
<1>2. \A m \in T : ~(m < n)
  BY <1>1 DEF Less
<1> QED BY <1>2

LEMMA SetInduction ==
  ASSUME NEW T \in SUBSET Nat, 0 \in T, \A n \in T : n + 1 \in T
  PROVE  T = Nat
<1> SUFFICES ASSUME Nat \ T # {} PROVE FALSE
  OBVIOUS
<1>1. PICK n \in Nat \ T : \A m \in Nat \ T : n <= m
  BY Smallest
<1>2. n # 0 /\ n - 1 \in Nat /\ n - 1 < n
  BY <1>1
<1>3. n - 1 \in T
  BY <1>1, <1>2
<1> QED BY <1>1, <1>2, <1>3

(* The same for numbers up to n. *)
LEMMA BoundedInduction ==
  ASSUME NEW n \in Nat, NEW T, 0 \in T, \A i \in 1..n : i - 1 \in T => i \in T
  PROVE  \A i \in 0..n : i \in T
<1> DEFINE S == {i \in Nat : i <= n => i \in T}
<1>1. 0 \in S
  OBVIOUS
<1>2. ASSUME NEW i \in S PROVE i + 1 \in S
  <2>1. CASE i + 1 <= n
    <3>1. i + 1 \in 1..n /\ (i + 1) - 1 = i /\ i \in T
      BY <2>1
    <3>2. i + 1 \in T
      BY <3>1
    <3> QED BY <3>2
  <2> QED BY <2>1
<1>3. S = Nat
  <2>1. S \in SUBSET Nat
    OBVIOUS
  <2> HIDE DEF S
  <2> QED BY <1>1, <1>2, <2>1, SetInduction
<1>4. ASSUME NEW i \in 0..n PROVE i \in T
  <2>1. i \in Nat /\ i <= n
    OBVIOUS
  <2>2. i \in S
    <3> HIDE DEF S
    <3> QED BY <1>3, <2>1
  <2> QED BY <2>1, <2>2
<1> QED BY <1>4

(* f begins with start and goes on by step, up to n. *)
Recursive(f, start, step, n) ==
  f[0] = start /\ \A i \in 0..(n - 1) : f[i + 1] = step[i][f[i]]

(* Two functions with one recursion agree as far as both go. *)
LEMMA RecursionUnique ==
  ASSUME NEW f, NEW g, NEW start, NEW step, NEW n \in Nat,
         Recursive(f, start, step, n), Recursive(g, start, step, n)
  PROVE  \A i \in 0..n : f[i] = g[i]
<1> DEFINE T == {i \in Nat : i <= n => f[i] = g[i]}
<1>1. 0 \in T
  BY DEF Recursive
<1>2. ASSUME NEW i \in T PROVE i + 1 \in T
  <2>1. CASE i + 1 <= n
    <3>1. i \in 0..(n - 1) /\ f[i] = g[i]
      BY <2>1
    <3> QED BY <2>1, <3>1 DEF Recursive
  <2> QED BY <2>1
<1>3. T = Nat
  <2> HIDE DEF T
  <2>1. T \in SUBSET Nat
    BY DEF T
  <2> QED BY <1>1, <1>2, <2>1, SetInduction
<1> QED BY <1>3

(* Every recursion defines a function. *)
LEMMA RecursionExists ==
  ASSUME NEW A, NEW start \in A, NEW step \in [Nat -> [A -> A]]
  PROVE  \E f \in [Nat -> A] : \A n \in Nat : Recursive(f, start, step, n)
<1> DEFINE Upto(n) == {f \in [0..n -> A] : Recursive(f, start, step, n)}
           T == {n \in Nat : Upto(n) # {}}
<1>1. 0 \in T
  <2>1. [i \in 0..0 |-> start] \in Upto(0)
    BY DEF Recursive
  <2> QED BY <2>1
<1>2. ASSUME NEW n \in T PROVE n + 1 \in T
  <2>1. PICK f \in Upto(n) : TRUE
    OBVIOUS
  <2> DEFINE g == [i \in 0..(n + 1) |-> IF i = n + 1 THEN step[n][f[n]] ELSE f[i]]
  <2>2. f[n] \in A /\ step[n][f[n]] \in A
    OBVIOUS
  <2>3. g \in [0..(n + 1) -> A]
    BY <2>2
  <2>4. Recursive(g, start, step, n + 1)
    <3>1. g[0] = start
      BY DEF Recursive
    <3>2. ASSUME NEW i \in 0..n PROVE g[i + 1] = step[i][g[i]]
      <4>1. CASE i = n
        BY <4>1
      <4>2. CASE i # n
        <5>1. i \in 0..(n - 1) /\ g[i + 1] = f[i + 1] /\ g[i] = f[i]
          BY <4>2
        <5> QED BY <5>1 DEF Recursive
      <4> QED BY <4>1, <4>2
    <3> QED BY <3>1, <3>2 DEF Recursive
  <2> HIDE DEF g
  <2> QED BY <2>3, <2>4
<1>3. T = Nat
  <2> HIDE DEF T
  <2>1. T \in SUBSET Nat
    BY DEF T
  <2> QED BY <1>1, <1>2, <2>1, SetInduction
<1> DEFINE Part == [n \in Nat |-> CHOOSE f \in Upto(n) : TRUE]
           whole == [n \in Nat |-> Part[n][n]]
<1>4. \A n \in Nat : Part[n] \in Upto(n)
  BY <1>3
<1>5. \A n \in Nat : Part[n] \in [0..n -> A] /\ Recursive(Part[n], start, step, n)
  BY <1>4
<1> HIDE DEF Part
<1>6. whole \in [Nat -> A]
  BY <1>5
<1>7. \A n \in Nat : Part[n + 1][n] = Part[n][n]
  <2> TAKE n \in Nat
  <2>1. Recursive(Part[n + 1], start, step, n)
    BY <1>5 DEF Recursive
  <2> QED BY <1>5, <2>1, RecursionUnique
<1>8. ASSUME NEW i \in Nat PROVE whole[i + 1] = step[i][whole[i]]
  <2>1. Part[i + 1][i + 1] = step[i][Part[i + 1][i]]
    BY <1>5 DEF Recursive
  <2> QED BY <1>7, <2>1
<1>9. whole[0] = start
  BY <1>5 DEF Recursive
<1> HIDE DEF whole
<1> QED BY <1>6, <1>8, <1>9 DEF Recursive

(* The same for a function on the numbers up to n. *)
RecursiveTo(f, n, A, start, step) ==
  /\ f \in [0..n -> A]
  /\ f[0] = start
  /\ \A i \in 1..n : f[i] = step[i][f[i - 1]]

LEMMA BoundedRecursion ==
  ASSUME NEW A, NEW n \in Nat, NEW start \in A, NEW step \in [1..n -> [A -> A]]
  PROVE  \E f : RecursiveTo(f, n, A, start, step)
<1> DEFINE next == [i \in Nat |-> [a \in A |-> IF i < n THEN step[i + 1][a] ELSE a]]
<1>1. next \in [Nat -> [A -> A]]
  <2>1. ASSUME NEW i \in Nat, NEW a \in A, i < n PROVE step[i + 1][a] \in A
    <3>1. i + 1 \in 1..n
      BY <2>1
    <3> QED BY <3>1
  <2> QED BY <2>1
<1>2. PICK g \in [Nat -> A] : \A m \in Nat : Recursive(g, start, next, m)
  <2> HIDE DEF next
  <2> QED BY <1>1, RecursionExists
<1> DEFINE f == [i \in 0..n |-> g[i]]
<1>3. f \in [0..n -> A] /\ f[0] = start
  BY <1>2 DEF Recursive
<1>4. ASSUME NEW i \in 1..n PROVE f[i] = step[i][f[i - 1]]
  <2>1. /\ i - 1 \in 0..(i - 1) /\ i - 1 \in Nat /\ i \in Nat /\ (i - 1) + 1 = i /\ i - 1 < n
        /\ i \in 0..n /\ i - 1 \in 0..n
    OBVIOUS
  <2>2. g[i] = next[i - 1][g[i - 1]]
    <3> HIDE DEF next
    <3> QED BY <1>2, <2>1 DEF Recursive
  <2>3. g[i - 1] \in A
    BY <2>1
  <2>4. next[i - 1][g[i - 1]] = step[i][g[i - 1]]
    BY <2>1, <2>3
  <2>5. f[i] = g[i] /\ f[i - 1] = g[i - 1]
    BY <2>1
  <2> HIDE DEF f, next
  <2> QED BY <2>2, <2>4, <2>5
<1> HIDE DEF f
<1> QED BY <1>3, <1>4 DEF RecursiveTo
=============================================================================
