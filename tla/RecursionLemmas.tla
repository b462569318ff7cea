-------------------------- MODULE RecursionLemmas --------------------------
(***************************************************************************)
(* Induction over the natural numbers and over what a loop of the daemon   *)
(* computes, in a form that names sets and functions only.                 *)
(*                                                                         *)
(* A loop over n things is written as a recursive function in the models:  *)
(* after[i \in 0..n] is the state when i of them have been seen.  Runs     *)
(* says that f is such a function; RunExists that there is one, so that    *)
(* the recursive definition means what it says; UpTo is how one shows      *)
(* something of all of after.                                              *)
(***************************************************************************)
EXTENDS Integers, WellFoundedInduction, TLAPS

\* A set of natural numbers has a least element.
LEMMA LeastElement ==
  ASSUME NEW T, T \subseteq Nat, T # {}
  PROVE  \E x \in T : \A y \in T : x <= y
<1>1. PICK x \in T : \A y \in T : <<y, x>> \notin OpToRel(<, Nat)
  BY WFMin, NatLessThanWellFounded
<1>2. ASSUME NEW y \in T PROVE x <= y
  <2>1. <<y, x>> \notin OpToRel(<, Nat)
    BY <1>1
  <2>2. ~(y < x)
    BY <2>1 DEF OpToRel
  <2> QED
    BY <2>2
<1> QED
  BY <1>2

\* ... and one that is bounded has a greatest.
LEMMA GreatestElement ==
  ASSUME NEW T, T \subseteq Nat, T # {}, NEW b \in Nat, \A y \in T : y <= b
  PROVE  \E x \in T : \A y \in T : y <= x
<1> DEFINE D == {d \in 0..b : b - d \in T}
<1>1. D \subseteq Nat
  OBVIOUS
<1>2. D # {}
  <2>1. PICK y \in T : TRUE
    OBVIOUS
  <2>2. b - y \in 0..b /\ b - (b - y) = y
    BY <2>1
  <2> QED
    BY <2>1, <2>2
<1>3. PICK d \in D : \A e \in D : d <= e
  <2> HIDE DEF D
  <2> QED
    BY <1>1, <1>2, LeastElement
<1>4. ASSUME NEW y \in T PROVE y <= b - d
  <2>1. b - y \in 0..b /\ b - (b - y) = y
    OBVIOUS
  <2>2. d <= b - y
    BY <1>3, <2>1
  <2> QED
    BY <2>2
<1> QED
  BY <1>3, <1>4

\* Induction up to n: what holds of 0, and of each number if of the one before.
LEMMA UpTo ==
  ASSUME NEW n \in Nat, NEW T, 0 \in T, \A i \in 1..n : i - 1 \in T => i \in T
  PROVE  0..n \subseteq T
<1> DEFINE Bad == {i \in 0..n : i \notin T}
<1>1. SUFFICES ASSUME Bad # {} PROVE FALSE
  OBVIOUS
<1>2. PICK m \in Bad : \A k \in Bad : m <= k
  <2>1. Bad \subseteq Nat
    OBVIOUS
  <2> HIDE DEF Bad
  <2> QED
    BY <1>1, <2>1, LeastElement
<1>3. m \in 1..n
  BY <1>2
<1>4. m - 1 \in T
  BY <1>2, <1>3
<1> QED
  BY <1>3, <1>4

-----------------------------------------------------------------------------
\* f lists the states of a loop of n rounds that starts in c, of which round i
\* takes state x to step[i][x].
Runs(f, n, St, c, step) ==
  /\ f \in [0..n -> St]
  /\ f[0] = c
  /\ \A i \in 1..n : f[i] = step[i][f[i - 1]]

LEMMA RunExists ==
  ASSUME NEW n \in Nat, NEW St, NEW c \in St, NEW step \in [1..n -> [St -> St]]
  PROVE  \E f : Runs(f, n, St, c, step)
<1> DEFINE Good(m) ==
             \E f \in [0..m -> St] : f[0] = c /\ \A i \in 1..m : f[i] = step[i][f[i - 1]]
           T == {m \in 0..n : Good(m)}
<1>1. Good(0)
  <2> DEFINE f == [i \in 0..0 |-> c]
  <2>1. f \in [0..0 -> St] /\ f[0] = c
    OBVIOUS
  <2>2. \A i \in 1..0 : f[i] = step[i][f[i - 1]]
    OBVIOUS
  <2> HIDE DEF f
  <2> QED
    BY <2>1, <2>2
<1>2. ASSUME NEW k \in 0..n-1, Good(k) PROVE Good(k + 1)
  <2>1. PICK f \in [0..k -> St] : f[0] = c /\ \A i \in 1..k : f[i] = step[i][f[i - 1]]
    BY <1>2
  <2>2. step[k + 1] \in [St -> St] /\ f[k] \in St
    OBVIOUS
  <2>3. step[k + 1][f[k]] \in St
    BY <2>2
  <2> DEFINE g == [i \in 0..k+1 |-> IF i = k + 1 THEN step[k + 1][f[k]] ELSE f[i]]
  <2>4. g \in [0..k+1 -> St]
    BY <2>3
  <2>5. g[0] = c
    BY <2>1
  <2>6. g[k + 1] = step[k + 1][g[k]]
    OBVIOUS
  <2>7. ASSUME NEW i \in 1..k PROVE g[i] = step[i][g[i - 1]]
    BY <2>1
  <2> HIDE DEF g
  <2> QED
    BY <2>4, <2>5, <2>6, <2>7
<1> HIDE DEF Good
<1>3. 0 \in T
  BY <1>1
<1>4. ASSUME NEW i \in 1..n, i - 1 \in T PROVE i \in T
  <2>1. Good(i - 1) /\ i - 1 \in 0..n-1 /\ (i - 1) + 1 = i
    BY <1>4
  <2>2. Good((i - 1) + 1)
    BY <2>1, <1>2
  <2> QED
    BY <2>1, <2>2
<1>5. 0..n \subseteq T
  <2> HIDE DEF T
  <2> QED
    BY <1>3, <1>4, UpTo
<1>6. Good(n)
  BY <1>5
<1> QED
  BY <1>6 DEF Good, Runs

\* The same when a round can only be taken from some states: those at G[i], in
\* which i rounds leave the loop.
RunsWithin(f, n, G, c, step) ==
  /\ f = [i \in 0..n |-> f[i]]
  /\ f[0] = c
  /\ \A i \in 1..n : f[i] = step[i][f[i - 1]]
  /\ \A i \in 0..n : f[i] \in G[i]

LEMMA RunWithin ==
  ASSUME NEW n \in Nat, NEW G, NEW c \in G[0], NEW step,
         \A i \in 1..n : \A x \in G[i - 1] : step[i][x] \in G[i]
  PROVE  \E f : RunsWithin(f, n, G, c, step)
<1> DEFINE St == UNION {G[i] : i \in 0..n}
           total == [i \in 1..n |-> [x \in St |-> IF x \in G[i - 1] THEN step[i][x] ELSE c]]
<1>1. c \in St
  OBVIOUS
<1>2. ASSUME NEW i \in 1..n, NEW x \in G[i - 1] PROVE step[i][x] \in St
  BY <1>2
<1>3. total \in [1..n -> [St -> St]]
  <2> HIDE DEF St
  <2> QED
    BY <1>1, <1>2
<1>4. PICK f : Runs(f, n, St, c, total)
  <2> HIDE DEF St, total
  <2> QED
    BY <1>1, <1>3, RunExists
<1>5. /\ f \in [0..n -> St] /\ f[0] = c
      /\ \A i \in 1..n : f[i] = total[i][f[i - 1]]
  BY <1>4 DEF Runs
<1> HIDE DEF St
<1>6. ASSUME NEW i \in 1..n, f[i - 1] \in G[i - 1] PROVE f[i] = step[i][f[i - 1]]
  <2>1. i - 1 \in 0..n
    OBVIOUS
  <2>2. f[i - 1] \in St /\ f[i] = total[i][f[i - 1]]
    BY <1>5, <2>1
  <2> QED
    BY <1>6, <2>2
<1> DEFINE T == {i \in 0..n : f[i] \in G[i]}
<1> HIDE DEF total
<1>7. 0 \in T
  BY <1>5
<1>8. ASSUME NEW i \in 1..n, i - 1 \in T PROVE i \in T
  BY <1>6, <1>8
<1>9. 0..n \subseteq T
  <2> HIDE DEF T
  <2> QED
    BY <1>7, <1>8, UpTo
<1>10. \A i \in 1..n : f[i - 1] \in G[i - 1]
  BY <1>9
<1>11. f = [i \in 0..n |-> f[i]]
  BY <1>5
<1> QED
  BY <1>5, <1>6, <1>9, <1>10, <1>11 DEF RunsWithin

=============================================================================
