--------------------------- MODULE DataInduction ---------------------------
(***************************************************************************)
(* Induction over the natural numbers for sets instead of predicates, and  *)
(* what follows for functions that are defined by recursion.               *)
(***************************************************************************)
EXTENDS Integers, WellFoundedInduction, TLAPS

Less == {p \in Nat \X Nat : p[1] < p[2]}

LEMMA LessIsWellFounded == IsWellFoundedOn(Less, Nat)
<1>1. OpToRel(<, Nat) = Less
  BY DEF OpToRel, Less
<1> QED
  BY <1>1, NatLessThanWellFounded

\* A set with 0 and the successor of each of its numbers has all of them.
LEMMA SetInduction ==
  ASSUME NEW T, 0 \in T, \A n \in Nat : n \in T => n + 1 \in T
  PROVE  Nat \subseteq T
<1> DEFINE Missing == Nat \ T
<1> SUFFICES ASSUME Missing # {} PROVE FALSE
  OBVIOUS
<1>1. PICK x \in Missing : \A y \in Missing : ~ (<<y, x>> \in Less)
  BY LessIsWellFounded, WFMin
<1>2. x \in Nat /\ x # 0 /\ x - 1 \in Nat /\ x = (x - 1) + 1
  BY <1>1
<1>3. <<x - 1, x>> \in Less
  BY <1>2 DEF Less
<1>4. x - 1 \in T
  BY <1>1, <1>2, <1>3
<1> QED
  BY <1>1, <1>2, <1>4

\* f begins with base and goes on with the steps.
Recursion(f, base, step) ==
  f = [n \in Nat |-> IF n = 0 THEN base ELSE step[n - 1][f[n - 1]]]

\* A value and steps that stay in S define a function on the numbers.
LEMMA RecursiveFunction ==
  ASSUME NEW S, NEW base \in S, NEW step \in [Nat -> [S -> S]]
  PROVE  \E f \in [Nat -> S] : Recursion(f, base, step)
<1> DEFINE Good(n, f) == /\ f \in [0..n -> S] /\ f[0] = base
                         /\ \A m \in 0..n : m > 0 => f[m] = step[m - 1][f[m - 1]]
           T == {n \in Nat : \E f : Good(n, f)}
           Apart == {n \in Nat : \A f, g : Good(n, f) /\ Good(n, g) => f[n] = g[n]}
<1>0. ASSUME NEW n \in Nat, NEW k \in 0..n, NEW f, Good(n, f)
      PROVE  Good(k, [m \in 0..k |-> f[m]])
  BY <1>0
<1>1. Nat \subseteq T
  <2>1. Good(0, [m \in 0..0 |-> base])
    OBVIOUS
  <2>2. ASSUME NEW n \in Nat, n \in T PROVE n + 1 \in T
    <3>1. PICK f : Good(n, f)
      BY <2>2
    <3> DEFINE g == [m \in 0..(n + 1) |-> IF m <= n THEN f[m] ELSE step[n][f[n]]]
    <3>2. f[n] \in S
      BY <3>1
    <3>3. g \in [0..(n + 1) -> S] /\ g[0] = base
      BY <3>1, <3>2
    <3>4. ASSUME NEW m \in 0..(n + 1), m > 0 PROVE g[m] = step[m - 1][g[m - 1]]
      <4>1. CASE m <= n
        BY <3>1, <3>4, <4>1
      <4>2. CASE m = n + 1
        BY <3>1, <4>2
      <4> QED
        BY <4>1, <4>2
    <3>5. Good(n + 1, g)
      BY <3>3, <3>4
    <3> HIDE DEF Good, g
    <3> QED
      BY <3>5
  <2> HIDE DEF Good
  <2>3. 0 \in T
    BY <2>1
  <2> QED
    BY <2>2, <2>3, SetInduction
<1>a. ASSUME NEW n \in Apart, NEW f, NEW g, Good(n, f), Good(n, g)
      PROVE  f[n] = g[n]
  <2> HIDE DEF Good
  <2> QED
    BY <1>a
<1>2. Nat \subseteq Apart
  <2>1. 0 \in Apart
    OBVIOUS
  <2>2. ASSUME NEW n \in Nat, n \in Apart PROVE n + 1 \in Apart
    <3> SUFFICES ASSUME NEW f, NEW g, Good(n + 1, f), Good(n + 1, g)
                 PROVE  f[n + 1] = g[n + 1]
      OBVIOUS
    <3> DEFINE fn == [m \in 0..n |-> f[m]]
               gn == [m \in 0..n |-> g[m]]
    <3>1. Good(n, fn) /\ Good(n, gn)
      BY <1>0
    <3>2. fn[n] = gn[n]
      <4> HIDE DEF Good, Apart, fn, gn
      <4> QED
        BY <1>a, <2>2, <3>1
    <3>3. f[n] = g[n]
      BY <3>2
    <3>4. f[n + 1] = step[n][f[n]] /\ g[n + 1] = step[n][g[n]]
      OBVIOUS
    <3> QED
      BY <3>3, <3>4
  <2> HIDE DEF Apart
  <2> QED
    BY <2>1, <2>2, SetInduction
<1> DEFINE upTo == [n \in Nat |-> CHOOSE f : Good(n, f)]
           all == [n \in Nat |-> upTo[n][n]]
<1>3. ASSUME NEW n \in Nat PROVE Good(n, upTo[n])
  <2>1. \E f : Good(n, f)
    BY <1>1
  <2>2. upTo[n] = CHOOSE f : Good(n, f)
    OBVIOUS
  <2> HIDE DEF Good, upTo
  <2> QED
    BY <2>1, <2>2
<1> HIDE DEF upTo
<1>4. all \in [Nat -> S] /\ all[0] = base
  BY <1>3
<1>5. ASSUME NEW n \in Nat PROVE all[n + 1] = step[n][all[n]]
  <2>1. Good(n + 1, upTo[n + 1]) /\ Good(n, upTo[n])
    BY <1>3
  <2> DEFINE cut == [m \in 0..n |-> upTo[n + 1][m]]
  <2>2. Good(n, cut)
    BY <1>0, <2>1
  <2>3. cut[n] = upTo[n][n]
    <3> HIDE DEF Good, Apart, cut
    <3> QED
      BY <1>a, <1>2, <2>1, <2>2
  <2>4. upTo[n + 1][n] = upTo[n][n]
    BY <2>3
  <2> QED
    BY <2>1, <2>4
<1>6. ASSUME NEW n \in Nat, n # 0 PROVE all[n] = step[n - 1][all[n - 1]]
  <2>1. n - 1 \in Nat /\ n = (n - 1) + 1
    BY <1>6
  <2> HIDE DEF all
  <2> QED
    BY <1>5, <2>1
<1>7. Recursion(all, base, step)
  <2> HIDE DEF all
  <2> QED
    BY <1>4, <1>6 DEF Recursion
<1> QED
  BY <1>4, <1>7
=============================================================================
