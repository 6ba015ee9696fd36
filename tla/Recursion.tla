----------------------------- MODULE Recursion ------------------------------
(***************************************************************************)
(* Induction and recursion over the natural numbers, stated for sets and   *)
(* functions where a textbook would take a predicate or an operator: the   *)
(* provers instantiate these.  The checksum of the screen, the hash of a   *)
(* key sequence and the linked lists of buffers rest on them.              *)
(***************************************************************************)
EXTENDS Integers, WellFoundedInduction, TLAPS

Below == {ss \in Nat \X Nat : ss[1] < ss[2]}

\* A set of natural numbers that is not empty has a least member.
LEMMA LeastOf ==
  ASSUME NEW D, D \subseteq Nat, D # {}
  PROVE  \E m \in D : \A y \in D : m <= y
<1>1. IsWellFoundedOn(Below, Nat)
  BY NatLessThanWellFounded DEF OpToRel, Below
<1>2. PICK m \in D : \A y \in D : <<y, m>> \notin Below
  BY <1>1, WFMin
<1>3. ASSUME NEW y \in D PROVE m <= y
  <2>1. m \in Nat /\ y \in Nat
    OBVIOUS
  <2>2. ~ (y < m)
    BY <1>2, <2>1 DEF Below
  <2> QED BY <2>1, <2>2
<1> QED BY <1>3

\* Induction: what holds at 0 and is handed on to the next holds everywhere.
LEMMA CountsUp ==
  ASSUME NEW D, 0 \in D, \A i \in Nat : i \in D => i + 1 \in D
  PROVE  Nat \subseteq D
<1> SUFFICES ASSUME Nat \ D # {} PROVE FALSE
  OBVIOUS
<1>1. PICK m \in Nat \ D : \A y \in Nat \ D : m <= y
  <2> DEFINE Out == Nat \ D
  <2>1. Out \subseteq Nat /\ Out # {}
    OBVIOUS
  <2> HIDE DEF Out
  <2>2. \E m \in Out : \A y \in Out : m <= y
    BY <2>1, LeastOf
  <2> QED BY <2>2 DEF Out
<1>2. m # 0 /\ m - 1 \in Nat /\ m - 1 < m
  OBVIOUS
<1>3. m - 1 \in D
  BY <1>1, <1>2
<1> QED BY <1>1, <1>2, <1>3

-----------------------------------------------------------------------------

\* f goes from start to its n-th value, step by step.
Unrolls(f, n, start, step) ==
  /\ f[0] = start
  /\ \A i \in 1..n : f[i] = step[<<i, f[i - 1]>>]

\* Every step function can be iterated: the recursion has a solution.
LEMMA Unrolled ==
  ASSUME NEW A, NEW start \in A, NEW step \in [Nat \X A -> A], NEW n \in Nat
  PROVE  \E f \in [0..n -> A] : Unrolls(f, n, start, step)
<1> DEFINE Solved == {k \in Nat : \E f \in [0..k -> A] : Unrolls(f, k, start, step)}
<1>1. 0 \in Solved
  <2> DEFINE f == [i \in 0..0 |-> start]
  <2>1. f \in [0..0 -> A] /\ Unrolls(f, 0, start, step)
    BY DEF Unrolls
  <2> QED BY <2>1
<1>2. ASSUME NEW k \in Nat, k \in Solved PROVE k + 1 \in Solved
  <2>1. PICK f \in [0..k -> A] : Unrolls(f, k, start, step)
    BY <1>2
  <2> DEFINE g == [i \in 0..(k + 1) |-> IF i = k + 1 THEN step[<<k + 1, f[k]>>] ELSE f[i]]
  <2>2. f[k] \in A /\ k + 1 \in Nat
    OBVIOUS
  <2>3. step[<<k + 1, f[k]>>] \in A
    BY <2>2
  <2>4. \A i \in 0..(k + 1) : i # k + 1 => i \in 0..k
    OBVIOUS
  <2>5. g \in [0..(k + 1) -> A]
    BY <2>3, <2>4
  <2>6. \A i \in 0..k : g[i] = f[i]
    OBVIOUS
  <2>7. g[k + 1] = step[<<k + 1, f[k]>>]
    OBVIOUS
  <2>8. Unrolls(g, k + 1, start, step)
    <3> HIDE DEF g
    <3>1. ASSUME NEW i \in 1..(k + 1) PROVE g[i] = step[<<i, g[i - 1]>>]
      <4>1. CASE i = k + 1
        <5>1. i - 1 = k /\ k \in 0..k
          BY <4>1
        <5>2. g[i - 1] = f[k]
          BY <5>1, <2>6
        <5> QED BY <4>1, <5>2, <2>7
      <4>2. CASE i # k + 1
        BY <4>2, <2>1, <2>6 DEF Unrolls
      <4> QED BY <4>1, <4>2
    <3> QED BY <3>1, <2>1, <2>6 DEF Unrolls
  <2> QED BY <2>5, <2>8
<1> HIDE DEF Solved
<1>3. n \in Solved
  BY <1>1, <1>2, CountsUp
<1> QED BY <1>3 DEF Solved
=============================================================================
