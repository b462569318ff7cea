--------------------------- MODULE SummariesProofs ---------------------------
(***************************************************************************)
(* The aggregation of ClientSummaries is right for every table of flows:   *)
(* whoever and whatever is listed is listed once with the sums of all its  *)
(* flows, and the lists are as long as their places allow.                 *)
(***************************************************************************)
EXTENDS ClientSummaries, RecursionLemmas, FiniteSetTheorems, SequenceTheorems

\* A table one can sum up.
IsTable(t) ==
  /\ Len(t) \in Nat
  /\ \A i \in 1..Len(t) : t[i].cls \in Classes /\ t[i].bytes \in Nat

-----------------------------------------------------------------------------
(* Sums of bytes.                                                          *)

Part(t, S, n) == IF n \in S THEN t[n].bytes ELSE 0

\* The sums of the first flows of t, as far as they are in S.
IsSum(f, t, S) ==
  /\ f \in [0..Len(t) -> Nat]
  /\ f[0] = 0
  /\ \A n \in 1..Len(t) : f[n] = f[n - 1] + Part(t, S, n)

LEMMA BytesIs ==
  ASSUME NEW t, IsTable(t), NEW S
  PROVE  \E f : IsSum(f, t, S) /\ Bytes(t, S) = f[Len(t)]
<1> DEFINE n == Len(t)
           step == [i \in 1..n |-> [x \in Nat |-> x + Part(t, S, i)]]
           Is(g) == g = [i \in 0..n |->
                           IF i = 0 THEN 0
                           ELSE g[i - 1] + (IF i \in S THEN t[i].bytes ELSE 0)]
           sum == CHOOSE g : Is(g)
<1>1. n \in Nat /\ \A i \in 1..n : Part(t, S, i) \in Nat
  BY DEF IsTable, Part
<1>2. step \in [1..n -> [Nat -> Nat]]
  <2> HIDE DEF n
  <2> QED
    BY <1>1
<1>3. PICK g : Runs(g, n, Nat, 0, step)
  <2> HIDE DEF n, step
  <2> QED
    BY <1>1, <1>2, RunExists
<1>4. \A h : Is(h) <=> h = [i \in 0..n |-> IF i = 0 THEN 0 ELSE h[i - 1] + Part(t, S, i)]
  BY DEF Part
<1>5. Is(g)
  <2> HIDE DEF n
  <2>1. g = [i \in 0..n |-> g[i]] /\ g[0] = 0
    BY <1>3 DEF Runs
  <2>2. ASSUME NEW i \in 1..n PROVE g[i] = g[i - 1] + Part(t, S, i)
    <3>1. i - 1 \in 0..n
      BY <1>1
    <3>2. g[i - 1] \in Nat
      BY <1>3, <3>1 DEF Runs
    <3>3. g[i] = step[i][g[i - 1]]
      <4> HIDE DEF step
      <4> QED
        BY <1>3 DEF Runs
    <3> QED
      BY <3>2, <3>3
  <2>3. ASSUME NEW i \in 0..n PROVE g[i] = IF i = 0 THEN 0 ELSE g[i - 1] + Part(t, S, i)
    <3>1. CASE i = 0
      BY <2>1, <3>1
    <3>2. CASE i \in 1..n
      <4>1. i # 0
        BY <3>2
      <4> QED
        BY <2>2, <3>2, <4>1, Zenon
    <3> QED
      BY <1>1, <3>1, <3>2
  <2> HIDE DEF Is
  <2> QED
    BY <1>4, <2>1, <2>3
<1>6. Is(sum)
  <2> HIDE DEF Is
  <2> QED
    BY <1>5
<1>7. Bytes(t, S) = sum[n]
  BY DEF Bytes
<1>8. sum = [i \in 0..n |-> IF i = 0 THEN 0 ELSE sum[i - 1] + Part(t, S, i)]
  <2> HIDE DEF Is, sum
  <2> QED
    BY <1>4, <1>6
<1> HIDE DEF sum, n
<1> DEFINE T == {i \in 0..n : sum[i] \in Nat}
<1>9. 0 \in T
  <2>1. sum[0] = 0
    BY <1>1, <1>8
  <2> QED
    BY <1>1, <2>1
<1>10. \A i \in 1..n : sum[i] = sum[i - 1] + Part(t, S, i)
  BY <1>1, <1>8
<1>11. ASSUME NEW i \in 1..n, i - 1 \in T PROVE i \in T
  BY <1>1, <1>10, <1>11
<1>12. 0..n \subseteq T
  <2> HIDE DEF T
  <2> QED
    BY <1>1, <1>9, <1>11, UpTo
<1>13. IsSum(sum, t, S)
  <2>1. sum[0] = 0 /\ DOMAIN sum = 0..n /\ sum = [i \in 0..n |-> sum[i]]
    BY <1>1, <1>8
  <2>2. sum \in [0..n -> Nat]
    BY <1>12, <2>1
  <2> QED
    BY <1>10, <2>1, <2>2 DEF IsSum, n
<1> QED
  BY <1>7, <1>13 DEF n

LEMMA BytesAreNat == ASSUME NEW t, IsTable(t), NEW S PROVE Bytes(t, S) \in Nat
<1>1. PICK f : IsSum(f, t, S) /\ Bytes(t, S) = f[Len(t)]
  BY BytesIs
<1> QED
  BY <1>1 DEF IsSum, IsTable

LEMMA NoBytes == ASSUME NEW t, IsTable(t) PROVE Bytes(t, {}) = 0
<1>1. PICK f : IsSum(f, t, {}) /\ Bytes(t, {}) = f[Len(t)]
  BY BytesIs
<1> DEFINE n == Len(t)
           T == {i \in 0..n : f[i] = 0}
<1>2. n \in Nat /\ f[0] = 0 /\ \A i \in 1..n : f[i] = f[i - 1]
  BY <1>1 DEF IsSum, IsTable, Part
<1>3. 0 \in T /\ \A i \in 1..n : i - 1 \in T => i \in T
  <2> HIDE DEF n
  <2> QED
    BY <1>2
<1>4. n \in T
  <2> HIDE DEF T, n
  <2>1. 0..n \subseteq T
    BY <1>2, <1>3, UpTo
  <2> QED
    BY <1>2, <2>1
<1> QED
  BY <1>1, <1>4

\* One flow more.
LEMMA MoreBytes ==
  ASSUME NEW t, IsTable(t), NEW S, NEW i \in 1..Len(t), i \notin S
  PROVE  Bytes(t, S \cup {i}) = Bytes(t, S) + t[i].bytes
<1> DEFINE S2 == S \cup {i}
           n == Len(t)
           b == t[i].bytes
<1>1. PICK f : IsSum(f, t, S) /\ Bytes(t, S) = f[n]
  BY BytesIs
<1>2. PICK g : IsSum(g, t, S2) /\ Bytes(t, S2) = g[n]
  BY BytesIs
<1>3. n \in Nat /\ b \in Nat /\ i \in 1..n
  BY DEF IsTable
<1>4. /\ f \in [0..n -> Nat] /\ g \in [0..n -> Nat] /\ f[0] = 0 /\ g[0] = 0
      /\ \A k \in 1..n : f[k] = f[k - 1] + Part(t, S, k) /\ g[k] = g[k - 1] + Part(t, S2, k)
  BY <1>1, <1>2 DEF IsSum
<1>5. \A k \in 1..n : /\ Part(t, S, k) \in Nat
                      /\ Part(t, S2, k) = IF k = i THEN b ELSE Part(t, S, k)
                      /\ k = i => Part(t, S, k) = 0
  BY DEF IsTable, Part
<1> DEFINE T == {k \in 0..n : g[k] = f[k] + (IF k >= i THEN b ELSE 0)}
<1> HIDE DEF n, b, S2
<1>6. 0 \in T
  BY <1>3, <1>4
<1>7. ASSUME NEW k \in 1..n, k - 1 \in T PROVE k \in T
  <2>1. /\ f[k] = f[k - 1] + Part(t, S, k) /\ g[k] = g[k - 1] + Part(t, S2, k)
        /\ f[k - 1] \in Nat /\ g[k - 1] \in Nat
    BY <1>3, <1>4
  <2>2. g[k - 1] = f[k - 1] + (IF k - 1 >= i THEN b ELSE 0)
    BY <1>7
  <2>3. CASE k = i
    BY <1>3, <1>5, <2>1, <2>2, <2>3
  <2>4. CASE k # i
    <3>1. k >= i <=> k - 1 >= i
      BY <1>3, <2>4
    <3>2. Part(t, S2, k) = Part(t, S, k) /\ Part(t, S, k) \in Nat
      BY <1>5, <2>4
    <3> QED
      BY <1>3, <2>1, <2>2, <3>1, <3>2
  <2> QED
    BY <2>3, <2>4
<1>8. n \in T
  <2> HIDE DEF T
  <2>1. 0..n \subseteq T
    BY <1>3, <1>6, <1>7, UpTo
  <2> QED
    BY <1>3, <2>1
<1>9. g[n] = f[n] + b
  BY <1>3, <1>8
<1> QED
  BY <1>1, <1>2, <1>9 DEF b, S2

\* What is counted and summed when flow i joins those at T.
LEMMA OneMore ==
  ASSUME NEW t, IsTable(t), NEW T, T \subseteq 1..Len(t), NEW i \in 1..Len(t), i \notin T
  PROVE  /\ Cardinality(T) \in Nat /\ Bytes(t, T) \in Nat
         /\ Cardinality(T \cup {i}) = Cardinality(T) + 1
         /\ Bytes(t, T \cup {i}) = Bytes(t, T) + t[i].bytes
<1>1. IsFiniteSet(1..Len(t))
  BY FS_Interval DEF IsTable
<1>2. IsFiniteSet(T)
  BY <1>1, FS_Subset
<1> QED
  BY <1>2, FS_CardinalityType, FS_AddElement, BytesAreNat, MoreBytes

-----------------------------------------------------------------------------
(* Lists with a last place.                                                *)

\* ns lists members of U in n places, each at most once, and all of them unless
\* there is no place left.
Lists(ns, n, U, max) ==
  /\ n \in Nat /\ n <= max
  /\ \A i \in 1..n : ns[i] \in U
  /\ \A i, j \in 1..n : ns[i] = ns[j] => i = j
  /\ n < max => \A u \in U : \E i \in 1..n : ns[i] = u

LEMMA ListLength ==
  ASSUME NEW ns, NEW n, NEW U, NEW max \in Nat, Lists(ns, n, U, max), IsFiniteSet(U)
  PROVE  n = Least(Cardinality(U), max)
<1> DEFINE listed == {ns[i] : i \in 1..n}
           f == [i \in 1..n |-> ns[i]]
<1>1. n \in Nat /\ n <= max /\ listed \subseteq U
  BY DEF Lists
<1>2. Cardinality(U) \in Nat
  BY FS_CardinalityType
<1>3. Cardinality(listed) = n
  <2>1. f \in Bijection(1..n, listed)
    BY DEF Lists, Bijection, Injection, Surjection, IsInjective
  <2>2. IsFiniteSet(1..n) /\ Cardinality(1..n) = n
    BY <1>1, FS_Interval
  <2> HIDE DEF f, listed
  <2> QED
    BY <2>1, <2>2, FS_Bijection DEF ExistsBijection
<1>4. Cardinality(listed) <= Cardinality(U)
  <2> HIDE DEF listed
  <2> QED
    BY <1>1, FS_Subset
<1>5. n < max => listed = U
  BY <1>1 DEF Lists
<1> HIDE DEF listed
<1> QED
  BY <1>1, <1>2, <1>3, <1>4, <1>5 DEF Least

\* Something that is listed, or has no place, changes nothing.
LEMMA ListKeeps ==
  ASSUME NEW ns, NEW ms, NEW n, NEW U, NEW max \in Nat, Lists(ns, n, U, max),
         \A i \in 1..n : ms[i] = ns[i],
         NEW u, n < max => \E i \in 1..n : ns[i] = u
  PROVE  Lists(ms, n, U \cup {u}, max)
BY DEF Lists

LEMMA ListGrows ==
  ASSUME NEW ns, NEW ms, NEW n, NEW U, NEW max \in Nat, Lists(ns, n, U, max),
         NEW u, n < max, \A i \in 1..n : ns[i] # u,
         \A i \in 1..n : ms[i] = ns[i], ms[n + 1] = u
  PROVE  Lists(ms, n + 1, U \cup {u}, max)
<1>1. n \in Nat /\ \A i \in 1..n + 1 : i \in 1..n \/ i = n + 1
  BY DEF Lists
<1>2. \A i \in 1..n + 1 : ms[i] \in U \cup {u}
  BY <1>1 DEF Lists
<1>3. \A i, j \in 1..n + 1 : ms[i] = ms[j] => i = j
  BY <1>1 DEF Lists
<1>4. \A v \in U : \E i \in 1..n : ns[i] = v
  BY DEF Lists
<1>5. \A v \in U \cup {u} : \E i \in 1..n + 1 : ms[i] = v
  BY <1>1, <1>4
<1> QED
  BY <1>1, <1>2, <1>3, <1>5 DEF Lists

\* Nobody new, nothing new.
LEMMA NothingToList ==
  ASSUME NEW max \in Nat, NEW ns PROVE Lists(ns, 0, {}, max)
BY DEF Lists

-----------------------------------------------------------------------------
(* One client, once the flows of t at M have been counted for it.          *)

Apps(t) == [name : {t[i].app : i \in 1..Len(t)}, flows : Nat, bytes : Nat]

ClientsOf(t) ==
  [mac : {t[i].mac : i \in 1..Len(t)}, total_bytes : Nat, total_flows : Nat,
   class_counts : [Classes -> Nat], apps : Seq(Apps(t))]

Uses(t, M, app) == {i \in M : t[i].app = app}

Used(t, M) == {t[i].app : i \in M} \ {NoApp}

OfClass(t, M, c) == {i \in M : t[i].cls = c}

Names(apps) == [a \in 1..Len(apps) |-> apps[a].name]

\* The sums of one application.
Sums(t, M, app, flows, bytes) ==
  /\ flows = Cardinality(Uses(t, M, app))
  /\ bytes = Bytes(t, Uses(t, M, app))

AppsOK(apps, t, M) ==
  /\ apps \in Seq(Apps(t))
  /\ Lists(Names(apps), Len(apps), Used(t, M), MAX_APPS)
  /\ \A a \in 1..Len(apps) : Sums(t, M, apps[a].name, apps[a].flows, apps[a].bytes)

\* The sums of one application when flow i has been counted.
LEMMA NextSums ==
  ASSUME NEW t, IsTable(t), NEW M, M \subseteq 1..Len(t), NEW i \in 1..Len(t), i \notin M,
         NEW app, NEW flows, NEW bytes, Sums(t, M, app, flows, bytes)
  PROVE  /\ t[i].app # app => Sums(t, M \cup {i}, app, flows, bytes)
         /\ t[i].app = app => Sums(t, M \cup {i}, app, flows + 1, bytes + t[i].bytes)
<1> DEFINE T == Uses(t, M, app)
<1>1. T \subseteq 1..Len(t) /\ i \notin T
  BY DEF Uses
<1>2. t[i].app # app => Uses(t, M \cup {i}, app) = T
  BY DEF Uses
<1>3. t[i].app = app => Uses(t, M \cup {i}, app) = T \cup {i}
  BY DEF Uses
<1>4. /\ Cardinality(T \cup {i}) = Cardinality(T) + 1
      /\ Bytes(t, T \cup {i}) = Bytes(t, T) + t[i].bytes
  <2> HIDE DEF T
  <2> QED
    BY <1>1, OneMore
<1> HIDE DEF T
<1>5. flows = Cardinality(T) /\ bytes = Bytes(t, T)
  BY DEF Sums, T
<1> QED
  BY <1>2, <1>3, <1>4, <1>5 DEF Sums

\* A flow without a name is no application's.
LEMMA UsedNext ==
  ASSUME NEW t, NEW M, NEW i
  PROVE  Used(t, M \cup {i}) =
           IF t[i].app = NoApp THEN Used(t, M) ELSE Used(t, M) \cup {t[i].app}
BY DEF Used

LEMMA WithUseIs ==
  ASSUME NEW t, IsTable(t), NEW a \in Apps(t), NEW i \in 1..Len(t)
  PROVE  /\ WithUse(a, t[i]) \in Apps(t)
         /\ WithUse(a, t[i]).name = a.name
         /\ WithUse(a, t[i]).flows = a.flows + 1
         /\ WithUse(a, t[i]).bytes = a.bytes + t[i].bytes
<1> DEFINE b == t[i].bytes
           N == {t[k].app : k \in 1..Len(t)}
<1>1. b \in Nat /\ a \in [name : N, flows : Nat, bytes : Nat]
  BY DEF IsTable, Apps
<1>2. WithUse(a, t[i]) = [a EXCEPT !.flows = @ + 1, !.bytes = @ + b]
  BY DEF WithUse
<1>3. Apps(t) = [name : N, flows : Nat, bytes : Nat]
  BY DEF Apps
<1> HIDE DEF b, N
<1>4. a.flows \in Nat /\ a.bytes \in Nat
  BY <1>1
<1>5. ASSUME NEW x \in Nat, NEW y \in Nat
      PROVE  /\ [a EXCEPT !.flows = x, !.bytes = y] \in [name : N, flows : Nat, bytes : Nat]
             /\ [a EXCEPT !.flows = x, !.bytes = y].name = a.name
             /\ [a EXCEPT !.flows = x, !.bytes = y].flows = x
             /\ [a EXCEPT !.flows = x, !.bytes = y].bytes = y
  BY <1>1
<1>6. a.flows + 1 \in Nat /\ a.bytes + b \in Nat
  BY <1>1, <1>4
<1>7. WithUse(a, t[i]) = [a EXCEPT !.flows = a.flows + 1, !.bytes = a.bytes + b]
  BY <1>2
<1> QED
  BY <1>3, <1>5, <1>6, <1>7 DEF b

\* What the applications of a client are after one more of its flows.
NextApps(apps, f) ==
  LET at == {j \in 1..Len(apps) : apps[j].name = f.app}
      new == [name |-> f.app, flows |-> 0, bytes |-> 0]
      j == CHOOSE a \in at : TRUE
  IN  CASE f.app = NoApp -> apps
        [] f.app # NoApp /\ at # {} -> [apps EXCEPT ![j] = WithUse(@, f)]
        [] f.app # NoApp /\ at = {} /\ Len(apps) < MAX_APPS -> Append(apps, WithUse(new, f))
        [] OTHER -> apps

LEMMA WithAppIs ==
  ASSUME NEW t, IsTable(t), NEW i \in 1..Len(t), NEW c \in ClientsOf(t)
  PROVE  WithApp(c, t[i]) = [c EXCEPT !.apps = NextApps(c.apps, t[i])]
<1> DEFINE f == t[i]
           at == {j \in 1..Len(c.apps) : c.apps[j].name = f.app}
           new == [name |-> f.app, flows |-> 0, bytes |-> 0]
           n == Len(c.apps)
<1>1. c.apps \in Seq(Apps(t)) /\ n \in Nat /\ AppSlot(c, f.app) = at
  BY DEF ClientsOf, AppSlot
<1>2. CASE f.app = NoApp
  <2>1. NextApps(c.apps, f) = c.apps /\ WithApp(c, f) = c
    BY <1>2 DEF NextApps, WithApp
  <2>2. [c EXCEPT !.apps = c.apps] = c
    BY DEF ClientsOf
  <2> QED
    BY <2>1, <2>2
<1>3. CASE f.app # NoApp /\ at # {}
  <2>1. WithApp(c, f) = [c EXCEPT !.apps[CHOOSE j \in at : TRUE] = WithUse(@, f)]
    BY <1>1, <1>3 DEF WithApp
  <2>2. NextApps(c.apps, f) = [c.apps EXCEPT ![CHOOSE j \in at : TRUE] = WithUse(@, f)]
    BY <1>3 DEF NextApps
  <2> DEFINE j == CHOOSE a \in at : TRUE
  <2> HIDE DEF j, at, f
  <2> QED
    BY <2>1, <2>2 DEF j, f, ClientsOf
<1>4. CASE f.app # NoApp /\ at = {} /\ n < MAX_APPS
  <2> DEFINE o == [c EXCEPT !.apps = Append(c.apps, new)]
  <2>1. o.apps = Append(c.apps, new) /\ new.name = f.app
    BY DEF ClientsOf
  <2>2. /\ Len(Append(c.apps, new)) = n + 1 /\ Append(c.apps, new)[n + 1] = new
        /\ \A a \in 1..n : Append(c.apps, new)[a] = c.apps[a]
    <3> HIDE DEF new
    <3> QED
      BY <1>1
  <2>3. AppSlot(o, f.app) = {n + 1}
    <3> HIDE DEF o, new, f
    <3>1. \A a \in 1..n : c.apps[a].name # f.app
      BY <1>4 
    <3> QED
      BY <1>1, <2>1, <2>2, <3>1 DEF AppSlot
  <2>4. WithApp(c, f) =
          IF AppSlot(o, f.app) = {} THEN c
          ELSE [o EXCEPT !.apps[CHOOSE j \in AppSlot(o, f.app) : TRUE] = WithUse(@, f)]
    BY <1>1, <1>4 DEF WithApp
  <2>5. WithApp(c, f) = [o EXCEPT !.apps[n + 1] = WithUse(@, f)]
    <3>1. (CHOOSE j \in {n + 1} : TRUE) = n + 1
      OBVIOUS
    <3> HIDE DEF o, f, n
    <3> QED
      BY <2>3, <2>4, <3>1
  <2>6. [Append(c.apps, new) EXCEPT ![n + 1] = WithUse(@, f)] = Append(c.apps, WithUse(new, f))
    <3>1. new \in Apps(t) /\ WithUse(new, f) \in Apps(t)
      <4>1. new \in Apps(t)
        BY DEF Apps
      <4> HIDE DEF new
      <4> QED
        BY <4>1, WithUseIs
    <3> HIDE DEF new, f
    <3> DEFINE A == Append(c.apps, new)
               w == WithUse(new, f)
               B == Append(c.apps, w)
    <3>2. /\ A \in Seq(Apps(t)) /\ Len(A) = n + 1 /\ A[n + 1] = new
          /\ \A a \in 1..n : A[a] = c.apps[a]
      <4> HIDE DEF w
      <4> QED
        BY <1>1, <3>1, AppendProperties DEF n
    <3>3. /\ B \in Seq(Apps(t)) /\ Len(B) = n + 1 /\ B[n + 1] = w
          /\ \A a \in 1..n : B[a] = c.apps[a]
      <4> HIDE DEF w
      <4> QED
        BY <1>1, <3>1, AppendProperties DEF n, w
    <3>4. [A EXCEPT ![n + 1] = w] = B
      <4> DEFINE C == [A EXCEPT ![n + 1] = w]
      <4>1. n + 1 \in 1..Len(A) /\ w \in Apps(t)
        BY <1>1, <3>1, <3>2
      <4> HIDE DEF A, B, w
      <4>2. /\ C \in Seq(Apps(t)) /\ Len(C) = n + 1
            /\ \A j \in 1..n + 1 : C[j] = IF j = n + 1 THEN w ELSE A[j]
        BY <3>2, <4>1, ExceptSeq
      <4> HIDE DEF C
      <4>3. \A j \in 1..n + 1 : C[j] = B[j]
        BY <1>1, <3>2, <3>3, <4>2
      <4>4. C = B
        BY <3>3, <4>2, <4>3, SeqEqual
      <4> QED
        BY <4>4 DEF C
    <3> QED
      BY <3>2, <3>4
  <2>7. NextApps(c.apps, f) = Append(c.apps, WithUse(new, f))
    BY <1>4 DEF NextApps
  <2>8. [o EXCEPT !.apps[n + 1] = WithUse(@, f)]
          = [c EXCEPT !.apps = [Append(c.apps, new) EXCEPT ![n + 1] = WithUse(@, f)]]
    <3> HIDE DEF f, n, new
    <3> QED
      BY DEF ClientsOf
  <2> HIDE DEF o, n, new, f
  <2> QED
    BY <2>5, <2>6, <2>7, <2>8 DEF f
<1>5. CASE f.app # NoApp /\ at = {} /\ ~(n < MAX_APPS)
  <2>1. WithApp(c, f) = c
    BY <1>1, <1>5 DEF WithApp
  <2>2. NextApps(c.apps, f) = c.apps
    BY <1>5 DEF NextApps
  <2>3. [c EXCEPT !.apps = c.apps] = c
    BY DEF ClientsOf
  <2> QED
    BY <2>1, <2>2, <2>3
<1> QED
  BY <1>2, <1>3, <1>4, <1>5

LEMMA AppsNext ==
  ASSUME NEW t, IsTable(t), NEW M, M \subseteq 1..Len(t), NEW i \in 1..Len(t), i \notin M,
         NEW apps, AppsOK(apps, t, M)
  PROVE  AppsOK(NextApps(apps, t[i]), t, M \cup {i})
<1> DEFINE f == t[i]
           M2 == M \cup {i}
           n == Len(apps)
           U == Used(t, M)
           at == {a \in 1..n : apps[a].name = f.app}
           next == NextApps(apps, f)
<1>1. /\ apps \in Seq(Apps(t)) /\ n \in Nat /\ MAX_APPS \in Nat
      /\ Lists(Names(apps), n, U, MAX_APPS)
      /\ \A a \in 1..n : Sums(t, M, apps[a].name, apps[a].flows, apps[a].bytes)
      /\ \A a \in 1..n : apps[a] \in Apps(t) /\ Names(apps)[a] = apps[a].name
  BY SummariesAssumption DEF AppsOK, Names
<1>2. f.app \in {t[k].app : k \in 1..Len(t)}
  OBVIOUS
<1>3. ASSUME NEW a \in 1..n, a \notin at
      PROVE  Sums(t, M2, apps[a].name, apps[a].flows, apps[a].bytes)
  BY <1>1, <1>3, NextSums
<1>4. CASE f.app = NoApp
  <2>1. next = apps /\ Used(t, M2) = U
    BY <1>4, UsedNext DEF NextApps
  <2>2. at = {}
    BY <1>1, <1>4 DEF Lists, Used
  <2> HIDE DEF next, f, M2, n, U, at
  <2> QED
    BY <1>1, <1>3, <2>1, <2>2 DEF AppsOK, n, f, M2, next
<1>5. CASE f.app # NoApp /\ at # {}
  <2> DEFINE j == CHOOSE a \in at : TRUE
             w == WithUse(apps[j], f)
  <2>1. next = [apps EXCEPT ![j] = w] /\ Used(t, M2) = U \cup {f.app}
    BY <1>5, UsedNext DEF NextApps
  <2>2. j \in 1..n /\ apps[j].name = f.app
    BY <1>5
  <2> HIDE DEF j
  <2>3. /\ w \in Apps(t) /\ w.name = f.app /\ w.flows = apps[j].flows + 1
        /\ w.bytes = apps[j].bytes + f.bytes
    BY <1>1, <2>2, WithUseIs
  <2>4. Sums(t, M2, w.name, w.flows, w.bytes)
    <3>1. Sums(t, M, f.app, apps[j].flows, apps[j].bytes)
      BY <1>1, <2>2
    <3>2. Sums(t, M2, f.app, apps[j].flows + 1, apps[j].bytes + f.bytes)
      BY <3>1, NextSums
    <3> HIDE DEF w, M2
    <3> QED
      BY <2>3, <3>2
  <2> HIDE DEF w, f, M2, n, U, at, next
  <2>5. /\ next \in Seq(Apps(t)) /\ Len(next) = n
        /\ \A a \in 1..n : next[a] = IF a = j THEN w ELSE apps[a]
    BY <1>1, <2>1, <2>2, <2>3, ExceptSeq DEF n
  <2>6. \A a \in 1..n : Names(next)[a] = Names(apps)[a]
    BY <1>1, <2>2, <2>3, <2>5 DEF Names
  <2>7. Lists(Names(next), n, U \cup {f.app}, MAX_APPS)
    <3>1. \E a \in 1..n : Names(apps)[a] = f.app
      BY <1>1, <2>2
    <3> QED
      BY <1>1, <2>6, <3>1, ListKeeps
  <2>8. ASSUME NEW a \in 1..n PROVE Sums(t, M2, next[a].name, next[a].flows, next[a].bytes)
    <3>1. CASE a = j
      BY <2>4, <2>5, <3>1
    <3>2. CASE a # j
      <4>1. apps[a].name # f.app
        BY <1>1, <2>2, <3>2 DEF Lists
      <4> QED
        BY <1>3, <2>5, <3>2, <4>1 DEF at
    <3> QED
      BY <3>1, <3>2
  <2> QED
    BY <2>1, <2>5, <2>7, <2>8 DEF AppsOK, f, M2, next
<1>6. CASE f.app # NoApp /\ at = {} /\ n < MAX_APPS
  <2> DEFINE new == [name |-> f.app, flows |-> 0, bytes |-> 0]
             w == WithUse(new, f)
  <2>1. next = Append(apps, w) /\ Used(t, M2) = U \cup {f.app}
    BY <1>6, UsedNext DEF NextApps
  <2>2. new \in Apps(t) /\ new.name = f.app /\ new.flows = 0 /\ new.bytes = 0
    BY <1>2 DEF Apps
  <2>3. w \in Apps(t) /\ w.name = f.app /\ w.flows = 0 + 1 /\ w.bytes = 0 + f.bytes
    <3> HIDE DEF new
    <3> QED
      BY <2>2, WithUseIs
  <2>4. Sums(t, M2, w.name, w.flows, w.bytes)
    <3>1. \A k \in M : t[k].app # f.app
      <4>1. \A a \in 1..n : Names(apps)[a] # f.app
        BY <1>1, <1>6
      <4>2. f.app \notin U
        BY <1>1, <1>6, <4>1 DEF Lists
      <4> QED
        BY <1>6, <4>2 DEF Used
    <3>2. Uses(t, M, f.app) = {}
      BY <3>1 DEF Uses
    <3>3. Sums(t, M, f.app, 0, 0)
      BY <3>2, NoBytes, FS_EmptySet DEF Sums
    <3>4. Sums(t, M2, f.app, 0 + 1, 0 + f.bytes)
      BY <3>3, NextSums
    <3> HIDE DEF w, M2
    <3> QED
      BY <2>3, <3>4
  <2>5. \A a \in 1..n : Names(apps)[a] # f.app
    BY <1>1, <1>6
  <2> HIDE DEF w, f, M2, n, U, next
  <2>6. /\ next \in Seq(Apps(t)) /\ Len(next) = n + 1 /\ next[n + 1] = w
        /\ \A a \in 1..n : next[a] = apps[a]
    BY <1>1, <2>1, <2>3, AppendProperties DEF n
  <2>7. Names(next)[n + 1] = f.app /\ \A a \in 1..n : Names(next)[a] = Names(apps)[a]
    BY <1>1, <2>3, <2>6 DEF Names
  <2>8. Lists(Names(next), n + 1, U \cup {f.app}, MAX_APPS)
    BY <1>1, <1>6, <2>5, <2>7, ListGrows
  <2>9. ASSUME NEW a \in 1..n + 1 PROVE Sums(t, M2, next[a].name, next[a].flows, next[a].bytes)
    <3>1. CASE a = n + 1
      BY <2>4, <2>6, <3>1
    <3>2. CASE a \in 1..n
      BY <1>3, <1>6, <2>6, <3>2
    <3> QED
      BY <1>1, <3>1, <3>2
  <2> QED
    BY <2>1, <2>6, <2>8, <2>9 DEF AppsOK, f, M2, next
<1>7. CASE f.app # NoApp /\ at = {} /\ ~(n < MAX_APPS)
  <2>1. next = apps /\ Used(t, M2) = U \cup {f.app}
    BY <1>7, UsedNext DEF NextApps
  <2> HIDE DEF f, M2, n, U, next
  <2>2. Lists(Names(apps), n, U \cup {f.app}, MAX_APPS)
    BY <1>1, <1>7, ListKeeps
  <2> QED
    BY <1>1, <1>3, <1>7, <2>1, <2>2 DEF AppsOK, n, f, M2, next
<1> QED
  BY <1>4, <1>5, <1>6, <1>7

ClientOK(c, t, M) ==
  /\ c \in ClientsOf(t)
  /\ c.total_bytes = Bytes(t, M)
  /\ c.total_flows = Cardinality(M)
  /\ \A k \in Classes : c.class_counts[k] = Cardinality(OfClass(t, M, k))
  /\ AppsOK(c.apps, t, M)

\* d is client c with the flows at M counted.
CountedIn(d, c, t, M) == ClientOK(d, t, M) /\ d.mac = c.mac

LEMMA WithFlowIs ==
  ASSUME NEW t, IsTable(t), NEW i \in 1..Len(t), NEW c \in ClientsOf(t),
         NextApps(c.apps, t[i]) \in Seq(Apps(t))
  PROVE  LET d == WithFlow(c, t[i])
         IN  /\ d \in ClientsOf(t)
             /\ d.mac = c.mac
             /\ d.total_bytes = c.total_bytes + t[i].bytes
             /\ d.total_flows = c.total_flows + 1
             /\ d.class_counts = [c.class_counts EXCEPT ![t[i].cls] = @ + 1]
             /\ d.apps = NextApps(c.apps, t[i])
<1> DEFINE f == t[i]
           x == c.total_bytes + f.bytes
           y == c.total_flows + 1
           z == [c.class_counts EXCEPT ![f.cls] = @ + 1]
           a == NextApps(c.apps, f)
           d == [c EXCEPT !.total_bytes = x, !.total_flows = y, !.class_counts = z]
           e == WithFlow(c, f)
           N == {t[k].mac : k \in 1..Len(t)}
           A == Seq(Apps(t))
           R == [mac : N, total_bytes : Nat, total_flows : Nat,
                 class_counts : [Classes -> Nat], apps : A]
<1>1. R = ClientsOf(t)
  BY DEF ClientsOf
<1>2. f.bytes \in Nat /\ f.cls \in Classes
  BY DEF IsTable
<1>3. c \in R /\ a \in A
  BY <1>1
<1>4. x \in Nat /\ y \in Nat /\ z \in [Classes -> Nat]
  <2> HIDE DEF N, A, f
  <2>1. c.total_bytes \in Nat /\ c.total_flows \in Nat /\ c.class_counts \in [Classes -> Nat]
    BY <1>3
  <2> QED
    BY <1>2, <2>1
<1>5. WithFlow(c, f) = WithApp(d, f)
  <2> HIDE DEF f
  <2> QED
    BY DEF WithFlow
<1> HIDE DEF x, y, z
<1>6. /\ d \in R /\ d.mac = c.mac /\ d.total_bytes = x /\ d.total_flows = y
      /\ d.class_counts = z /\ d.apps = c.apps
  <2> HIDE DEF N, A, f
  <2> QED
    BY <1>3, <1>4
<1>7. e = [d EXCEPT !.apps = a]
  <2> HIDE DEF R, d
  <2> QED
    BY <1>1, <1>5, <1>6, WithAppIs
<1>8. /\ e \in R /\ e.mac = c.mac /\ e.total_bytes = x /\ e.total_flows = y
      /\ e.class_counts = z /\ e.apps = a
  <2> HIDE DEF N, A, f, d, a, e
  <2> QED
    BY <1>3, <1>6, <1>7
<1> QED
  BY <1>1, <1>8 DEF x, y, z

LEMMA ClientNext ==
  ASSUME NEW t, IsTable(t), NEW M, M \subseteq 1..Len(t), NEW i \in 1..Len(t), i \notin M,
         NEW f, f = t[i], NEW M2, M2 = M \cup {i}, NEW c, ClientOK(c, t, M)
  PROVE  CountedIn(WithFlow(c, f), c, t, M2)
<1> DEFINE d == WithFlow(c, f)
<1>1. /\ c \in ClientsOf(t) /\ c.total_bytes = Bytes(t, M) /\ c.total_flows = Cardinality(M)
      /\ \A k \in Classes : c.class_counts[k] = Cardinality(OfClass(t, M, k))
      /\ AppsOK(c.apps, t, M)
  BY DEF ClientOK
<1>2. AppsOK(NextApps(c.apps, f), t, M2)
  BY <1>1, AppsNext
<1>3. NextApps(c.apps, f) \in Seq(Apps(t))
  BY <1>2 DEF AppsOK
<1>4. /\ d \in ClientsOf(t)
      /\ d.mac = c.mac
      /\ d.total_bytes = c.total_bytes + f.bytes
      /\ d.total_flows = c.total_flows + 1
      /\ d.class_counts = [c.class_counts EXCEPT ![f.cls] = @ + 1]
      /\ d.apps = NextApps(c.apps, f)
  BY <1>1, <1>3, WithFlowIs
<1>5. d.total_bytes = Bytes(t, M2) /\ d.total_flows = Cardinality(M2)
  <2>1. Bytes(t, M2) = Bytes(t, M) + f.bytes /\ Cardinality(M2) = Cardinality(M) + 1
    BY OneMore
  <2> HIDE DEF d
  <2> QED
    BY <1>1, <1>4, <2>1
<1>6. ASSUME NEW k \in Classes PROVE d.class_counts[k] = Cardinality(OfClass(t, M2, k))
  <2> DEFINE T == OfClass(t, M, k)
  <2>1. T \subseteq 1..Len(t) /\ i \notin T
    BY DEF OfClass
  <2>2. OfClass(t, M2, k) = IF f.cls = k THEN T \cup {i} ELSE T
    BY DEF OfClass
  <2>3. Cardinality(T \cup {i}) = Cardinality(T) + 1
    <3> HIDE DEF T
    <3> QED
      BY <2>1, OneMore
  <2>4. c.class_counts \in [Classes -> Nat]
    BY <1>1 DEF ClientsOf
  <2>5. c.class_counts[k] = Cardinality(T)
    BY <1>1
  <2>6. d.class_counts[k] = IF f.cls = k THEN c.class_counts[k] + 1 ELSE c.class_counts[k]
    <3> HIDE DEF d
    <3> QED
      BY <1>4, <2>4
  <2> HIDE DEF T, d
  <2> QED
    BY <2>2, <2>3, <2>5, <2>6
<1> HIDE DEF d
<1>7. ClientOK(d, t, M2)
  BY <1>2, <1>4, <1>5, <1>6 DEF ClientOK
<1> QED
  BY <1>4, <1>7 DEF d, CountedIn

LEMMA ClientNew ==
  ASSUME NEW t, IsTable(t), NEW i \in 1..Len(t)
  PROVE  ClientOK(NewClient(t[i].mac), t, {}) /\ NewClient(t[i].mac).mac = t[i].mac
<1> DEFINE c == NewClient(t[i].mac)
<1>1. /\ c.mac = t[i].mac /\ c.total_bytes = 0 /\ c.total_flows = 0
      /\ c.class_counts = [k \in Classes |-> 0] /\ c.apps = <<>>
  BY DEF NewClient
<1>2. c \in ClientsOf(t)
  BY DEF NewClient, ClientsOf
<1>3. AppsOK(<<>>, t, {})
  <2>1. Used(t, {}) = {} /\ Len(<<>>) = 0 /\ <<>> \in Seq(Apps(t)) /\ 1..0 = {}
    BY DEF Used
  <2> QED
    BY <2>1, NothingToList, SummariesAssumption DEF AppsOK
<1>4. \A k \in Classes : OfClass(t, {}, k) = {}
  BY DEF OfClass
<1>5. \A k \in Classes : c.class_counts[k] = Cardinality(OfClass(t, {}, k))
  BY <1>1, <1>4, FS_EmptySet
<1> HIDE DEF c
<1>6. ClientOK(c, t, {})
  BY <1>1, <1>2, <1>3, <1>5, NoBytes, FS_EmptySet DEF ClientOK
<1> QED
  BY <1>1, <1>6 DEF c

-----------------------------------------------------------------------------
(* All clients, once the first n flows of t have been counted.             *)

Senders(cs) == [k \in 1..Len(cs) |-> cs[k].mac]

FirstOf(t, n, mac) == {i \in 1..n : t[i].mac = mac}

AddsUpTo(cs, t, n) ==
  /\ cs \in Seq(ClientsOf(t))
  /\ Lists(Senders(cs), Len(cs), {t[i].mac : i \in 1..n}, MAX_CLIENTS)
  /\ \A k \in 1..Len(cs) : ClientOK(cs[k], t, FirstOf(t, n, cs[k].mac))

LEMMA AddsUpAtFirst ==
  ASSUME NEW t, IsTable(t)
  PROVE  AddsUpTo(<<>>, t, 0)
<1>1. /\ {t[i].mac : i \in 1..0} = {} /\ Len(<<>>) = 0 /\ 1..0 = {}
      /\ <<>> \in Seq(ClientsOf(t))
  OBVIOUS
<1> QED
  BY <1>1, NothingToList, SummariesAssumption DEF AddsUpTo

LEMMA AddsUpNext ==
  ASSUME NEW t, IsTable(t), NEW i \in 1..Len(t), NEW cs, AddsUpTo(cs, t, i - 1)
  PROVE  AddsUpTo(WithClient(cs, t[i]), t, i)
<1> DEFINE f == t[i]
           n == Len(cs)
           U == {t[k].mac : k \in 1..i - 1}
           at == ClientSlot(cs, f.mac)
           mine == FirstOf(t, i - 1, f.mac)
           next == WithClient(cs, f)
<1>1. /\ cs \in Seq(ClientsOf(t)) /\ n \in Nat /\ MAX_CLIENTS \in Nat
      /\ Lists(Senders(cs), n, U, MAX_CLIENTS)
      /\ \A k \in 1..n : ClientOK(cs[k], t, FirstOf(t, i - 1, cs[k].mac))
      /\ \A k \in 1..n : cs[k] \in ClientsOf(t) /\ Senders(cs)[k] = cs[k].mac
  BY SummariesAssumption DEF AddsUpTo, Senders
<1>2. /\ i \in Nat /\ i \notin 1..i - 1 /\ 1..i - 1 \subseteq 1..Len(t)
      /\ 1..i = (1..i - 1) \cup {i}
  BY DEF IsTable
<1>3. {t[k].mac : k \in 1..i} = U \cup {f.mac}
  BY <1>2
<1>4. \A mac : FirstOf(t, i, mac) = IF f.mac = mac THEN FirstOf(t, i - 1, mac) \cup {i}
                                    ELSE FirstOf(t, i - 1, mac)
  BY <1>2 DEF FirstOf
<1>5. \A mac : FirstOf(t, i - 1, mac) \subseteq 1..Len(t) /\ i \notin FirstOf(t, i - 1, mac)
  BY <1>2 DEF FirstOf
<1>6. at = {k \in 1..n : cs[k].mac = f.mac}
  BY DEF ClientSlot
<1>7. ASSUME NEW k \in 1..n, k \notin at PROVE ClientOK(cs[k], t, FirstOf(t, i, cs[k].mac))
  BY <1>1, <1>4, <1>6, <1>7
<1> HIDE DEF mine, next
<1>8. ASSUME NEW M, M \subseteq 1..Len(t), i \notin M, NEW c, ClientOK(c, t, M)
       PROVE  ClientOK(WithFlow(c, f), t, M \cup {i}) /\ WithFlow(c, f).mac = c.mac
  <2> DEFINE M2 == M \cup {i}
  <2>1. f = t[i] /\ M2 = M \cup {i}
    OBVIOUS
  <2> HIDE DEF f, M2
  <2>2. CountedIn(WithFlow(c, f), c, t, M2)
    BY <1>8, <2>1, ClientNext
  <2> QED
    BY <2>2 DEF M2, CountedIn
<1>9. CASE at # {}
  <2> DEFINE j == CHOOSE k \in at : TRUE
             w == WithFlow(cs[j], f)
  <2>1. next = [cs EXCEPT ![j] = w]
    BY <1>9 DEF WithClient, next
  <2>2. j \in 1..n /\ cs[j].mac = f.mac
    BY <1>6, <1>9
  <2> HIDE DEF j
  <2>3. ClientOK(w, t, FirstOf(t, i, f.mac)) /\ w.mac = f.mac
    <3>1. ClientOK(cs[j], t, FirstOf(t, i - 1, f.mac))
      BY <1>1, <2>2
    <3>2. ClientOK(w, t, mine \cup {i}) /\ w.mac = cs[j].mac
      <4>1. mine \subseteq 1..Len(t) /\ i \notin mine
        BY <1>5 DEF mine
      <4>2. ClientOK(cs[j], t, mine)
        BY <3>1 DEF mine
      <4> HIDE DEF f
      <4> QED
        BY <1>8, <4>1, <4>2
    <3> HIDE DEF w
    <3> QED
      BY <1>4, <2>2, <3>2 DEF mine
  <2>4. w \in ClientsOf(t)
    BY <2>3 DEF ClientOK
  <2> HIDE DEF w, f, n, U, at, next
  <2>5. /\ next \in Seq(ClientsOf(t)) /\ Len(next) = n
        /\ \A k \in 1..n : next[k] = IF k = j THEN w ELSE cs[k]
    BY <1>1, <2>1, <2>2, <2>4, ExceptSeq DEF n
  <2>6. \A k \in 1..n : Senders(next)[k] = Senders(cs)[k]
    BY <1>1, <2>2, <2>3, <2>5 DEF Senders
  <2>7. Lists(Senders(next), n, U \cup {f.mac}, MAX_CLIENTS)
    <3>1. \E k \in 1..n : Senders(cs)[k] = f.mac
      BY <1>1, <2>2
    <3> QED
      BY <1>1, <2>6, <3>1, ListKeeps
  <2>8. ASSUME NEW k \in 1..n PROVE ClientOK(next[k], t, FirstOf(t, i, next[k].mac))
    <3>1. CASE k = j
      BY <2>3, <2>5, <3>1
    <3>2. CASE k # j
      <4>1. cs[k].mac # f.mac
        BY <1>1, <2>2, <3>2 DEF Lists
      <4> QED
        BY <1>6, <1>7, <2>5, <3>2, <4>1
    <3> QED
      BY <3>1, <3>2
  <2> QED
    BY <1>3, <2>5, <2>7, <2>8 DEF AddsUpTo, f, next
<1>10. CASE at = {} /\ n < MAX_CLIENTS
  <2> DEFINE new == NewClient(f.mac)
             opened == Append(cs, new)
             w == WithFlow(new, f)
  <2>1. ClientOK(new, t, {}) /\ new.mac = f.mac
    BY ClientNew
  <2>2. \A k \in 1..n : cs[k].mac # f.mac
    BY <1>6, <1>10
  <2>3. FirstOf(t, i - 1, f.mac) = {}
    <3>1. f.mac \notin U
      <4>1. \A k \in 1..n : Senders(cs)[k] # f.mac
        BY <1>1, <2>2
      <4> HIDE DEF U, n, f
      <4> QED
        BY <1>1, <1>10, <4>1 DEF Lists
    <3> QED
      BY <3>1 DEF FirstOf
  <2>4. ClientOK(w, t, FirstOf(t, i, f.mac)) /\ w.mac = f.mac
    <3>1. ClientOK(w, t, {} \cup {i}) /\ w.mac = new.mac
      <4>1. {} \subseteq 1..Len(t) /\ i \notin {}
        OBVIOUS
      <4>2. ASSUME NEW M, M = {} PROVE ClientOK(w, t, M \cup {i}) /\ w.mac = new.mac
        <5>1. M \subseteq 1..Len(t) /\ i \notin M /\ ClientOK(new, t, M)
          BY <2>1, <4>2
        <5> HIDE DEF new, f
        <5> QED
          BY <1>8, <5>1
      <4> QED
        BY <4>2, Zenon
    <3> HIDE DEF w, new
    <3> QED
      BY <1>4, <2>1, <2>3, <3>1
  <2>5. w \in ClientsOf(t) /\ new \in ClientsOf(t)
    BY <2>1, <2>4 DEF ClientOK
  <2> HIDE DEF new
  <2>6. /\ opened \in Seq(ClientsOf(t)) /\ Len(opened) = n + 1 /\ opened[n + 1] = new
        /\ \A k \in 1..n : opened[k] = cs[k]
    BY <1>1, <2>5, AppendProperties
  <2> HIDE DEF w, opened, n
  <2>7. ClientSlot(opened, f.mac) = {n + 1}
    BY <1>1, <2>1, <2>2, <2>6 DEF ClientSlot
  <2>8. next = [opened EXCEPT ![n + 1] = WithFlow(@, f)]
    <3>1. (CHOOSE k \in {n + 1} : TRUE) = n + 1
      OBVIOUS
    <3>2. next = IF ClientSlot(opened, f.mac) = {} THEN opened
                 ELSE [opened EXCEPT ![CHOOSE k \in ClientSlot(opened, f.mac) : TRUE] =
                                       WithFlow(@, f)]
      <4>1. ClientSlot(cs, f.mac) = {} /\ Len(cs) < MAX_CLIENTS
        BY <1>10 DEF n
      <4> DEFINE o == IF ClientSlot(cs, f.mac) = {} /\ Len(cs) < MAX_CLIENTS
                      THEN Append(cs, NewClient(f.mac)) ELSE cs
      <4>2. WithClient(cs, f) = IF ClientSlot(o, f.mac) = {} THEN o
                 ELSE [o EXCEPT ![CHOOSE k \in ClientSlot(o, f.mac) : TRUE] = WithFlow(@, f)]
        BY DEF WithClient
      <4>3. o = opened
        BY <4>1 DEF opened, new
      <4>4. next = WithClient(cs, f)
        BY DEF next
      <4> HIDE DEF o, f, next
      <4> QED
        BY <4>2, <4>3, <4>4
    <3> HIDE DEF next, f
    <3> QED
      BY <2>7, <3>1, <3>2
  <2>9. next = [opened EXCEPT ![n + 1] = w]
    <3> HIDE DEF next
    <3> QED
      BY <2>6, <2>8 DEF w
  <2> HIDE DEF f, U, at, next
  <2>10. /\ next \in Seq(ClientsOf(t)) /\ Len(next) = n + 1 /\ next[n + 1] = w
         /\ \A k \in 1..n : next[k] = cs[k]
    <3>1. n + 1 \in 1..Len(opened)
      BY <1>1, <2>6
    <3>2. /\ next \in Seq(ClientsOf(t)) /\ Len(next) = n + 1
          /\ \A k \in 1..n + 1 : next[k] = IF k = n + 1 THEN w ELSE opened[k]
      BY <2>5, <2>6, <2>9, <3>1, ExceptSeq
    <3> QED
      BY <1>1, <2>6, <3>2
  <2>11. Senders(next)[n + 1] = f.mac /\ \A k \in 1..n : Senders(next)[k] = Senders(cs)[k]
    BY <1>1, <2>4, <2>10 DEF Senders, n
  <2>12. Lists(Senders(next), n + 1, U \cup {f.mac}, MAX_CLIENTS)
    <3>1. \A k \in 1..n : Senders(cs)[k] # f.mac
      BY <1>1, <2>2
    <3> QED
      BY <1>1, <1>10, <2>11, <3>1, ListGrows
  <2>13. ASSUME NEW k \in 1..n + 1 PROVE ClientOK(next[k], t, FirstOf(t, i, next[k].mac))
    <3>1. CASE k = n + 1
      BY <2>4, <2>10, <3>1
    <3>2. CASE k \in 1..n
      BY <1>7, <1>10, <2>10, <3>2
    <3> QED
      BY <1>1, <3>1, <3>2
  <2> QED
    BY <1>3, <2>10, <2>12, <2>13 DEF AddsUpTo, f, next
<1>11. CASE at = {} /\ ~(n < MAX_CLIENTS)
  <2>1. next = cs
    BY <1>11 DEF WithClient, next
  <2> HIDE DEF f, U, next, at, n
  <2>2. Lists(Senders(cs), n, U \cup {f.mac}, MAX_CLIENTS)
    BY <1>1, <1>11, ListKeeps
  <2>3. \A k \in 1..n : ClientOK(cs[k], t, FirstOf(t, i, cs[k].mac))
    BY <1>7, <1>11
  <2> QED
    BY <1>1, <1>3, <2>1, <2>2, <2>3 DEF AddsUpTo, n, f, next
<1> QED
  BY <1>9, <1>10, <1>11

\* The lists that add up for the first n flows.
Right(t, n) == {cs \in Seq(ClientsOf(t)) : AddsUpTo(cs, t, n)}

LEMMA RightIs ==
  ASSUME NEW t, NEW n, NEW cs
  PROVE  cs \in Right(t, n) <=> AddsUpTo(cs, t, n)
BY DEF Right, AddsUpTo

LEMMA SummariesAddUp ==
  ASSUME NEW t, IsTable(t)
  PROVE  AddsUpTo(Summaries(t), t, Len(t))
<1> DEFINE n == Len(t)
           G == [i \in 0..n |-> Right(t, i)]
           step == [i \in 1..n |-> [x \in Right(t, i - 1) |-> WithClient(x, t[i])]]
           Is(g) == g = [i \in 0..n |-> IF i = 0 THEN <<>> ELSE WithClient(g[i - 1], t[i])]
           after == CHOOSE g : Is(g)
<1>1. n \in Nat
  BY DEF IsTable
<1>2. \A i \in 0..n : G[i] = Right(t, i)
  OBVIOUS
<1>3. <<>> \in G[0]
  <2>1. <<>> \in Right(t, 0)
    BY AddsUpAtFirst, RightIs
  <2> HIDE DEF G, n
  <2> QED
    BY <1>1, <1>2, <2>1
<1>4. ASSUME NEW i \in 1..n, NEW x \in Right(t, i - 1) PROVE WithClient(x, t[i]) \in Right(t, i)
  <2>1. AddsUpTo(x, t, i - 1)
    BY RightIs
  <2>2. AddsUpTo(WithClient(x, t[i]), t, i)
    BY <2>1, AddsUpNext
  <2> QED
    BY <2>2, RightIs
<1>5. ASSUME NEW i \in 1..n, NEW x \in G[i - 1]
      PROVE  step[i][x] = WithClient(x, t[i]) /\ step[i][x] \in G[i]
  <2>1. i - 1 \in 0..n /\ i \in 0..n
    BY <1>1
  <2>2. x \in Right(t, i - 1)
    BY <1>2, <2>1
  <2>3. step[i][x] = WithClient(x, t[i])
    BY <2>2
  <2> HIDE DEF step, G
  <2> QED
    BY <1>2, <1>4, <2>1, <2>2, <2>3
<1>6. PICK g : RunsWithin(g, n, G, <<>>, step)
  <2> HIDE DEF n, G, step
  <2> QED
    BY <1>1, <1>3, <1>5, RunWithin
<1>7. Is(g)
  <2> HIDE DEF n, step, G
  <2>1. /\ g = [i \in 0..n |-> g[i]] /\ g[0] = <<>>
        /\ \A i \in 1..n : g[i] = step[i][g[i - 1]]
        /\ \A i \in 0..n : g[i] \in G[i]
    BY <1>6 DEF RunsWithin
  <2>2. ASSUME NEW i \in 1..n PROVE g[i] = WithClient(g[i - 1], t[i])
    <3>1. i - 1 \in 0..n
      BY <1>1
    <3> QED
      BY <1>5, <2>1, <3>1
  <2>3. ASSUME NEW i \in 0..n PROVE g[i] = IF i = 0 THEN <<>> ELSE WithClient(g[i - 1], t[i])
    <3>1. CASE i = 0
      BY <2>1, <3>1
    <3>2. CASE i \in 1..n
      <4>1. i # 0
        BY <3>2
      <4> QED
        BY <2>2, <3>2, <4>1, Zenon
    <3> QED
      BY <1>1, <3>1, <3>2
  <2> QED
    BY <2>1, <2>3
<1>8. Is(after)
  <2> HIDE DEF Is
  <2> QED
    BY <1>7
<1>9. Summaries(t) = after[n]
  BY DEF Summaries
<1> HIDE DEF after
<1> DEFINE T == {i \in 0..n : after[i] \in Right(t, i)}
<1>10. 0 \in T
  <2>1. after[0] = <<>>
    BY <1>1, <1>8
  <2>2. <<>> \in Right(t, 0)
    BY AddsUpAtFirst, RightIs
  <2> QED
    BY <1>1, <2>1, <2>2
<1>11. ASSUME NEW i \in 1..n, i - 1 \in T PROVE i \in T
  <2>1. after[i] = WithClient(after[i - 1], t[i])
    BY <1>1, <1>8
  <2> QED
    BY <1>4, <1>11, <2>1
<1>12. n \in T
  <2> HIDE DEF T, n
  <2>1. 0..n \subseteq T
    BY <1>1, <1>10, <1>11, UpTo
  <2> QED
    BY <1>1, <2>1
<1> QED
  BY <1>9, <1>12, RightIs

\* The values of a function on a finite set.
LEMMA FiniteImage ==
  ASSUME NEW f, NEW S, IsFiniteSet(S), DOMAIN f = S, f = [x \in S |-> f[x]]
  PROVE  IsFiniteSet({f[x] : x \in S})
<1> DEFINE T == {f[x] : x \in S}
<1>1. f \in Surjection(S, T)
  BY DEF Surjection
<1> HIDE DEF T
<1>2. IsFiniteSet(T)
  BY <1>1, FS_Surjection
<1> QED
  BY <1>2 DEF T

\* Clients that say the same as others.
SameClients(cs, ds) ==
  /\ Len(cs) = Len(ds)
  /\ \A k \in 1..Len(ds) :
       /\ cs[k].mac = ds[k].mac /\ cs[k].apps = ds[k].apps
       /\ cs[k].total_bytes = ds[k].total_bytes /\ cs[k].total_flows = ds[k].total_flows
       /\ cs[k].class_counts = ds[k].class_counts

\* What adds up for all flows of a table is what ListAddsUp asks for.
LEMMA AddedUpIsRight ==
  ASSUME NEW t, IsTable(t), NEW ds, AddsUpTo(ds, t, Len(t)), NEW cs, SameClients(cs, ds)
  PROVE  ListAddsUp(cs, t)
<1> DEFINE n == Len(ds)
           macs == {t[i].mac : i \in 1..Len(t)}
<1>1. /\ ds \in Seq(ClientsOf(t)) /\ n \in Nat /\ Len(cs) = n
      /\ Lists(Senders(ds), n, macs, MAX_CLIENTS)
      /\ \A k \in 1..n : ClientOK(ds[k], t, Sent(t, ds[k].mac))
      /\ \A k \in 1..n : /\ Senders(ds)[k] = ds[k].mac /\ cs[k].mac = ds[k].mac
                         /\ cs[k].apps = ds[k].apps
                         /\ cs[k].total_bytes = ds[k].total_bytes
                         /\ cs[k].total_flows = ds[k].total_flows
                         /\ cs[k].class_counts = ds[k].class_counts
  <2>1. AddsUpTo(ds, t, Len(t)) /\ \A mac : FirstOf(t, Len(t), mac) = Sent(t, mac)
    BY DEF FirstOf, Sent
  <2> QED
    BY <2>1 DEF AddsUpTo, Senders, SameClients
<1>2. IsFiniteSet(1..Len(t))
  BY FS_Interval DEF IsTable
<1>3. {cs[k].mac : k \in 1..Len(cs)} \subseteq macs
  BY <1>1 DEF Lists
<1>4. Len(cs) = Least(Cardinality(macs), MAX_CLIENTS)
  <2>1. IsFiniteSet(macs)
    <3> DEFINE f == [i \in 1..Len(t) |-> t[i].mac]
    <3>1. macs = {f[i] : i \in 1..Len(t)} /\ DOMAIN f = 1..Len(t)
          /\ f = [i \in 1..Len(t) |-> f[i]]
      OBVIOUS
    <3> HIDE DEF f, macs
    <3> QED
      BY <1>2, <3>1, FiniteImage
  <2> HIDE DEF macs
  <2> QED
    BY <1>1, <2>1, ListLength, SummariesAssumption
<1>5. ASSUME NEW k \in 1..n
      PROVE  LET mine == Sent(t, cs[k].mac)
                 apps == {t[i].app : i \in mine} \ {NoApp}
             IN  /\ ClientSlot(cs, cs[k].mac) = {k}
                 /\ cs[k].total_bytes = Bytes(t, mine)
                 /\ cs[k].total_flows = Cardinality(mine)
                 /\ \A c \in Classes :
                      cs[k].class_counts[c] = Cardinality({i \in mine : t[i].cls = c})
                 /\ Len(cs[k].apps) = Least(Cardinality(apps), MAX_APPS)
                 /\ \A a \in 1..Len(cs[k].apps) :
                      LET uses == {i \in mine : t[i].app = cs[k].apps[a].name}
                      IN  /\ cs[k].apps[a].flows = Cardinality(uses)
                          /\ cs[k].apps[a].bytes = Bytes(t, uses)
                          /\ uses # {} /\ AppSlot(cs[k], cs[k].apps[a].name) = {a}
  <2> DEFINE mine == Sent(t, cs[k].mac)
             apps == {t[i].app : i \in mine} \ {NoApp}
             as == cs[k].apps
  <2>1. ClientOK(ds[k], t, mine)
    BY <1>1
  <2>2. ClientSlot(cs, cs[k].mac) = {k}
    BY <1>1 DEF ClientSlot, Lists
  <2>3. /\ cs[k].total_bytes = Bytes(t, mine) /\ cs[k].total_flows = Cardinality(mine)
        /\ \A c \in Classes : cs[k].class_counts[c] = Cardinality(OfClass(t, mine, c))
        /\ AppsOK(as, t, mine)
    <3> HIDE DEF mine
    <3> QED
      BY <1>1, <2>1 DEF ClientOK
  <2>4. /\ as \in Seq(Apps(t)) /\ Lists(Names(as), Len(as), apps, MAX_APPS)
        /\ \A a \in 1..Len(as) : Sums(t, mine, as[a].name, as[a].flows, as[a].bytes)
    BY <2>3 DEF AppsOK, Used
  <2>5. IsFiniteSet(apps)
    <3>1. IsFiniteSet(mine)
      BY <1>2, FS_Subset DEF Sent
    <3>2. IsFiniteSet({t[i].app : i \in mine})
      <4> HIDE DEF mine
      <4> DEFINE f == [i \in mine |-> t[i].app]
      <4>1. {t[i].app : i \in mine} = {f[i] : i \in mine} /\ DOMAIN f = mine
            /\ f = [i \in mine |-> f[i]]
        OBVIOUS
      <4>2. IsFiniteSet({f[i] : i \in mine})
        <5> HIDE DEF f
        <5> QED
          BY <3>1, <4>1, FiniteImage
      <4> QED
        BY <4>1, <4>2
    <3> QED
      BY <3>2, FS_Subset
  <2>6. Len(as) = Least(Cardinality(apps), MAX_APPS)
    <3> HIDE DEF apps, as
    <3> QED
      BY <2>4, <2>5, ListLength, SummariesAssumption
  <2>7. ASSUME NEW a \in 1..Len(as)
        PROVE  LET uses == {i \in mine : t[i].app = as[a].name}
               IN  /\ as[a].flows = Cardinality(uses) /\ as[a].bytes = Bytes(t, uses)
                   /\ uses # {} /\ AppSlot(cs[k], as[a].name) = {a}
    <3>1. Names(as)[a] = as[a].name /\ \A b \in 1..Len(as) : Names(as)[b] = as[b].name
      BY DEF Names
    <3>2. as[a].name \in apps
      BY <2>4, <3>1 DEF Lists
    <3>3. {i \in mine : t[i].app = as[a].name} # {}
      BY <3>2
    <3>4. AppSlot(cs[k], as[a].name) = {a}
      <4>1. \A b \in 1..Len(as) : as[b].name = as[a].name => b = a
        BY <2>4, <3>1 DEF Lists
      <4> QED
        BY <4>1 DEF AppSlot
    <3>5. Sums(t, mine, as[a].name, as[a].flows, as[a].bytes)
      BY <2>4
    <3> HIDE DEF mine, as, apps
    <3> QED
      BY <3>3, <3>4, <3>5 DEF Sums, Uses
  <2>8. \A c \in Classes : cs[k].class_counts[c] = Cardinality({i \in mine : t[i].cls = c})
    BY <2>3 DEF OfClass
  <2> HIDE DEF mine
  <2> QED
    BY <2>2, <2>3, <2>6, <2>7, <2>8 DEF mine
<1> HIDE DEF n
<1> QED
  BY <1>1, <1>3, <1>4, <1>5 DEF ListAddsUp

\* Who sums up the flows of any table with WithClient, however many clients and
\* applications there are and however few have a place, gets a list that adds up.
THEOREM SummariesAreRight ==
  ASSUME NEW t, IsTable(t), NEW cs, SameClients(cs, Summaries(t))
  PROVE  ListAddsUp(cs, t)
BY SummariesAddUp, AddedUpIsRight

-----------------------------------------------------------------------------
(* Tables that differ in nothing that is summed up.                        *)

SameFlows(t, u) ==
  /\ Len(t) = Len(u)
  /\ \A i \in 1..Len(t) : /\ t[i].mac = u[i].mac /\ t[i].cls = u[i].cls
                          /\ t[i].app = u[i].app /\ t[i].bytes = u[i].bytes

LEMMA SameBytes ==
  ASSUME NEW t, IsTable(t), NEW u, SameFlows(t, u), NEW S
  PROVE  Bytes(u, S) = Bytes(t, S)
<1> DEFINE n == Len(t)
<1>1. n \in Nat /\ Len(u) = n /\ IsTable(u)
  BY DEF IsTable, SameFlows
<1>2. PICK f : IsSum(f, t, S) /\ Bytes(t, S) = f[n]
  BY BytesIs
<1>3. PICK g : IsSum(g, u, S) /\ Bytes(u, S) = g[n]
  BY <1>1, BytesIs
<1>4. \A k \in 1..n : Part(u, S, k) = Part(t, S, k)
  BY DEF Part, SameFlows
<1>5. /\ f[0] = 0 /\ g[0] = 0
      /\ \A k \in 1..n : f[k] = f[k - 1] + Part(t, S, k) /\ g[k] = g[k - 1] + Part(t, S, k)
  BY <1>1, <1>2, <1>3, <1>4 DEF IsSum
<1> DEFINE T == {k \in 0..n : f[k] = g[k]}
<1> HIDE DEF n
<1>6. 0 \in T /\ \A k \in 1..n : k - 1 \in T => k \in T
  BY <1>1, <1>5
<1>7. n \in T
  <2> HIDE DEF T
  <2>1. 0..n \subseteq T
    BY <1>1, <1>6, UpTo
  <2> QED
    BY <1>1, <2>1
<1> QED
  BY <1>2, <1>3, <1>7

LEMMA SameListAddsUp ==
  ASSUME NEW t, IsTable(t), NEW u, SameFlows(t, u), NEW cs, ListAddsUp(cs, t)
  PROVE  ListAddsUp(cs, u)
<1>1. \A mac : Sent(u, mac) = Sent(t, mac)
  BY DEF SameFlows, Sent
<1>2. {u[i].mac : i \in 1..Len(u)} = {t[i].mac : i \in 1..Len(t)}
  BY DEF SameFlows
<1>3. \A S : Bytes(u, S) = Bytes(t, S)
  BY SameBytes
<1>4. \A mac : /\ {u[i].app : i \in Sent(t, mac)} = {t[i].app : i \in Sent(t, mac)}
               /\ \A c : {i \in Sent(t, mac) : u[i].cls = c} = {i \in Sent(t, mac) : t[i].cls = c}
               /\ \A a : {i \in Sent(t, mac) : u[i].app = a} = {i \in Sent(t, mac) : t[i].app = a}
  BY DEF SameFlows, Sent
<1>5. /\ {cs[k].mac : k \in 1..Len(cs)} \subseteq {u[i].mac : i \in 1..Len(u)}
      /\ Len(cs) = Least(Cardinality({u[i].mac : i \in 1..Len(u)}), MAX_CLIENTS)
  BY <1>2 DEF ListAddsUp
<1>6. ASSUME NEW k \in 1..Len(cs)
      PROVE  LET mine == Sent(u, cs[k].mac)
                 apps == {u[i].app : i \in mine} \ {NoApp}
             IN  /\ ClientSlot(cs, cs[k].mac) = {k}
                 /\ cs[k].total_bytes = Bytes(u, mine)
                 /\ cs[k].total_flows = Cardinality(mine)
                 /\ \A c \in Classes :
                      cs[k].class_counts[c] = Cardinality({i \in mine : u[i].cls = c})
                 /\ Len(cs[k].apps) = Least(Cardinality(apps), MAX_APPS)
                 /\ \A a \in 1..Len(cs[k].apps) :
                      LET uses == {i \in mine : u[i].app = cs[k].apps[a].name}
                      IN  /\ cs[k].apps[a].flows = Cardinality(uses)
                          /\ cs[k].apps[a].bytes = Bytes(u, uses)
                          /\ uses # {} /\ AppSlot(cs[k], cs[k].apps[a].name) = {a}
  <2> DEFINE c0 == cs[k]
             mine == Sent(t, c0.mac)
  <2>1. /\ Sent(u, c0.mac) = mine
        /\ {u[i].app : i \in mine} = {t[i].app : i \in mine}
        /\ \A c : {i \in mine : u[i].cls = c} = {i \in mine : t[i].cls = c}
        /\ \A a : {i \in mine : u[i].app = a} = {i \in mine : t[i].app = a}
    BY <1>1, <1>4
  <2>2. /\ ClientSlot(cs, c0.mac) = {k}
        /\ c0.total_bytes = Bytes(t, mine) /\ c0.total_flows = Cardinality(mine)
        /\ Len(c0.apps) = Least(Cardinality({t[i].app : i \in mine} \ {NoApp}), MAX_APPS)
    BY DEF ListAddsUp
  <2>3. \A c \in Classes : c0.class_counts[c] = Cardinality({i \in mine : t[i].cls = c})
    BY DEF ListAddsUp
  <2>4. \A a \in 1..Len(c0.apps) :
          LET uses == {i \in mine : t[i].app = c0.apps[a].name}
          IN  /\ c0.apps[a].flows = Cardinality(uses) /\ c0.apps[a].bytes = Bytes(t, uses)
              /\ uses # {} /\ AppSlot(c0, c0.apps[a].name) = {a}
    BY DEF ListAddsUp
  <2> HIDE DEF c0, mine
  <2>5. /\ c0.total_bytes = Bytes(u, mine)
        /\ Len(c0.apps) = Least(Cardinality({u[i].app : i \in mine} \ {NoApp}), MAX_APPS)
        /\ \A c \in Classes : c0.class_counts[c] = Cardinality({i \in mine : u[i].cls = c})
    BY <1>3, <2>1, <2>2, <2>3
  <2>6. \A a \in 1..Len(c0.apps) :
          LET uses == {i \in mine : u[i].app = c0.apps[a].name}
          IN  /\ c0.apps[a].flows = Cardinality(uses) /\ c0.apps[a].bytes = Bytes(u, uses)
              /\ uses # {} /\ AppSlot(c0, c0.apps[a].name) = {a}
    BY <1>3, <2>1, <2>4
  <2> QED
    BY <2>1, <2>2, <2>5, <2>6 DEF c0
<1> QED
  BY <1>5, <1>6 DEF ListAddsUp

=============================================================================
