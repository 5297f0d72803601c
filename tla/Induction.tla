----------------------------- MODULE Induction -----------------------------
(***************************************************************************)
(* Induction over numbers, and functions that are defined by it, for the   *)
(* proofs about what the loops of the code compute: importNotes over the   *)
(* notes of v1, cleanGroups over what the model answered.                  *)
(*                                                                         *)
(* The induction principle of the library is about any formula P(n), which *)
(* the provers cannot be given.  Here it is about a set: the numbers for   *)
(* which the formula holds.                                                *)
(***************************************************************************)
EXTENDS Integers, WellFoundedInduction, TLAPS

\* Of any numbers one is the least.
LEMMA LeastNumber ==
  ASSUME NEW T, T \subseteq Nat, T # {}
  PROVE  \E n \in T : \A m \in T : n <= m
<1> DEFINE Less == OpToRel(<, Nat)
<1>1. IsWellFoundedOn(Less, Nat)
  BY NatLessThanWellFounded
<1>2. \A m, n \in Nat : m < n => <<m, n>> \in Less
  BY DEF OpToRel
<1> HIDE DEF Less
<1>3. PICK n \in T : \A m \in T : ~ (<<m, n>> \in Less)
  BY <1>1, WFMin
<1>4. \A m \in T : ~ (m < n)
  BY <1>2, <1>3
<1> QED
  BY <1>4

\* What holds of 0, and of i + 1 if of i, holds as far as N.
LEMMA CountingUp ==
  ASSUME NEW N \in Nat, NEW T, 0 \in T, \A i \in 0 .. N - 1 : i \in T => i + 1 \in T
  PROVE  \A i \in 0 .. N : i \in T
<1> DEFINE U == {i \in 0 .. N : i \notin T}
<1> SUFFICES ASSUME U # {}
             PROVE  FALSE
  OBVIOUS
<1>1. PICK n \in U : \A m \in U : n <= m
  <2>1. U \subseteq Nat
    OBVIOUS
  <2> HIDE DEF U
  <2> QED
    BY <2>1, LeastNumber
<1>2. n # 0 /\ n - 1 \in 0 .. N - 1 /\ n - 1 \notin U
  BY <1>1
<1> QED
  BY <1>1, <1>2

\* The bodies of a loop that goes N times round and has its state in S, and the
\* courses it may take: the start at 0, and at i what body i makes of it at i - 1.
Bodies(N, S) == [1 .. N -> [S -> S]]

Courses(N, S, start, step) ==
  {f \in [0 .. N -> S] : f[0] = start /\ \A i \in 1 .. N : f[i] = step[i][f[i - 1]]}

\* A loop takes some course.
LEMMA LoopExists ==
  ASSUME NEW N \in Nat, NEW S, NEW start \in S, NEW step \in Bodies(N, S)
  PROVE  Courses(N, S, start, step) # {}
<1> USE DEF Bodies
<1> DEFINE Until(n, f) == f[0] = start /\ \A i \in 1 .. n : f[i] = step[i][f[i - 1]]
           T == {n \in 0 .. N : \E f \in [0 .. n -> S] : Until(n, f)}
<1>1. 0 \in T
  <2> DEFINE f == [i \in 0 .. 0 |-> start]
  <2>1. f \in [0 .. 0 -> S]
    OBVIOUS
  <2>2. Until(0, f)
    OBVIOUS
  <2> HIDE DEF f
  <2> QED
    BY <2>1, <2>2
<1>2. ASSUME NEW n \in 0 .. N - 1, n \in T
      PROVE  n + 1 \in T
  <2>1. PICK f \in [0 .. n -> S] : Until(n, f)
    BY <1>2
  <2> DEFINE g == [i \in 0 .. n + 1 |-> IF i = n + 1 THEN step[n + 1][f[n]] ELSE f[i]]
  <2>2. n + 1 \in 1 .. N /\ step[n + 1] \in [S -> S] /\ f[n] \in S
    BY <2>1
  <2>3. g \in [0 .. n + 1 -> S]
    BY <2>1, <2>2
  <2>4. ASSUME NEW i \in 1 .. n + 1
        PROVE  g[i] = step[i][g[i - 1]]
    <3>1. CASE i = n + 1
      BY <2>1, <3>1
    <3>2. CASE i # n + 1
      <4>1. i \in 1 .. n /\ g[i] = f[i] /\ i - 1 \in 0 .. n /\ g[i - 1] = f[i - 1]
        BY <3>2
      <4> QED
        BY <2>1, <4>1
    <3> QED
      BY <3>1, <3>2
  <2>5. Until(n + 1, g)
    BY <2>1, <2>3, <2>4
  <2>6. n + 1 \in 0 .. N
    OBVIOUS
  <2> QED
    BY <2>3, <2>5, <2>6
<1>3. N \in T
  <2> HIDE DEF T
  <2>1. \A i \in 0 .. N : i \in T
    BY <1>1, <1>2, CountingUp
  <2> QED
    BY <2>1
<1> QED
  BY <1>3 DEF Courses
=============================================================================
