---------------------------- MODULE RoutingProofs ----------------------------
(* Proofs about Routing: for any deployment, every configuration gets its    *)
(* share of the requests, and every trace is sent once.                      *)
EXTENDS GrpcBackend, FiniteSetTheorems, WellFoundedInduction, TLAPS

-----------------------------------------------------------------------------
(* Induction and recursion over the numbers, for sets and functions.         *)
LEMMA NatSetInduction ==
  ASSUME NEW X, 0 \in X, \A n \in Nat : n \in X => n + 1 \in X
  PROVE  Nat \subseteq X
<1> SUFFICES ASSUME Nat \ X # {} PROVE FALSE
  OBVIOUS
<1> DEFINE T == Nat \ X
<1>1. T \subseteq Nat /\ T # {}
  OBVIOUS
<1>2. PICK x \in T : \A y \in T : ~(<<y, x>> \in OpToRel(<, Nat))
  BY <1>1, WFMin, NatLessThanWellFounded, Zenon
<1>3. \A y \in T : <<y, x>> \in Nat \X Nat
  OBVIOUS
<1>4. \A y \in T : ~(<<y, x>>[1] < <<y, x>>[2])
  BY <1>2, <1>3, Zenon DEF OpToRel
<1>5. x # 0 /\ x - 1 \in Nat /\ x - 1 \in X
  BY <1>4
<1> QED
  BY <1>5

(* A loop that goes from one element of X to the next: step[i][x] is what    *)
(* round i makes of x.                                                       *)
Loop(step, first, last, x0, f) ==
  f = [i \in first..last |-> IF i = first THEN x0 ELSE step[i][f[i - 1]]]

LEMMA LoopExists ==
  ASSUME NEW X, NEW first \in Nat, NEW last \in Nat, first <= last, NEW x0 \in X,
         NEW step, \A i \in (first + 1)..last : step[i] \in [X -> X]
  PROVE  \E f \in [first..last -> X] : Loop(step, first, last, x0, f)
<1> DEFINE n == last - first
<1> DEFINE T == {m \in Nat : m <= n =>
                   \E f \in [first..(first + m) -> X] : Loop(step, first, first + m, x0, f)}
<1>1. 0 \in T
  <2> DEFINE f == [i \in first..(first + 0) |-> x0]
  <2>1. f \in [first..(first + 0) -> X] /\ Loop(step, first, first + 0, x0, f)
    BY DEF Loop
  <2> QED
    BY <2>1
<1>2. ASSUME NEW m \in Nat, m \in T PROVE m + 1 \in T
  <2> SUFFICES ASSUME m + 1 <= n
               PROVE  \E f \in [first..(first + (m + 1)) -> X] : Loop(step, first, first + (m + 1), x0, f)
    OBVIOUS
  <2>1. PICK f \in [first..(first + m) -> X] : Loop(step, first, first + m, x0, f)
    BY <1>2
  <2> DEFINE k == first + m + 1
             g == [i \in first..k |-> IF i = k THEN step[k][f[k - 1]] ELSE f[i]]
  <2>2. k \in Nat /\ k - 1 = first + m /\ k = first + (m + 1) /\ k \in (first + 1)..last
        /\ k - 1 \in first..(first + m)
    OBVIOUS
  <2>3. step[k] \in [X -> X] /\ f[k - 1] \in X
    BY <2>1, <2>2
  <2>4. g \in [first..k -> X]
    BY <2>1, <2>2, <2>3
  <2>5. \A i \in first..(k - 1) : f[i] = IF i = first THEN x0 ELSE step[i][f[i - 1]]
    BY <2>1, <2>2 DEF Loop
  <2>6. \A i \in first..k : g[i] = IF i = first THEN x0 ELSE step[i][g[i - 1]]
    <3> SUFFICES ASSUME NEW i \in first..k
                 PROVE  g[i] = IF i = first THEN x0 ELSE step[i][g[i - 1]]
      OBVIOUS
    <3>1. CASE i = k
      BY <2>2, <3>1
    <3>2. CASE i \in first..(k - 1)
      BY <2>2, <2>5, <3>2
    <3> QED
      BY <2>2, <3>1, <3>2
  <2>7. Loop(step, first, k, x0, g)
    BY <2>4, <2>6 DEF Loop
  <2> QED
    BY <2>2, <2>4, <2>7
<1> HIDE DEF T
<1>3. n \in T
  BY <1>1, <1>2, NatSetInduction
<1>4. first + n = last
  OBVIOUS
<1> QED
  BY <1>3, <1>4 DEF T

-----------------------------------------------------------------------------
(* Total adds up the values, in the order of the sequence.                   *)
LEMMA TotalIsSum ==
  ASSUME NEW n \in Nat, NEW v \in [1..n -> Int]
  PROVE  \E s \in [0..n -> Int] : /\ s[0] = 0
                                  /\ \A i \in 1..n : s[i] = s[i - 1] + v[i]
                                  /\ Total(v) = s[n]
<1> DEFINE step == [i \in 1..n |-> [x \in Int |-> x + v[i]]]
           Sum(s) == s = [i \in 0..n |-> IF i = 0 THEN 0 ELSE s[i - 1] + v[i]]
<1>1. \A i \in (0 + 1)..n : step[i] \in [Int -> Int]
  OBVIOUS
<1>2. PICK f \in [0..n -> Int] : Loop(step, 0, n, 0, f)
  <2> HIDE DEF step
  <2>1. 0 \in Nat /\ 0 <= n /\ 0 \in Int
    OBVIOUS
  <2> QED
    BY <1>1, <2>1, LoopExists, Zenon
<1>3. Sum(f)
  <2>1. \A i \in 0..n : f[i] = IF i = 0 THEN 0 ELSE step[i][f[i - 1]]
    BY <1>2 DEF Loop
  <2>2. \A i \in 1..n : step[i][f[i - 1]] = f[i - 1] + v[i]
    OBVIOUS
  <2> HIDE DEF step
  <2>3. \A i \in 0..n : f[i] = IF i = 0 THEN 0 ELSE f[i - 1] + v[i]
    <3> SUFFICES ASSUME NEW i \in 0..n PROVE f[i] = IF i = 0 THEN 0 ELSE f[i - 1] + v[i]
      OBVIOUS
    <3>1. i = 0 \/ i \in 1..n
      OBVIOUS
    <3> QED
      BY <2>1, <2>2, <3>1
  <2> QED
    BY <1>2, <2>3
<1> DEFINE s == CHOOSE s : Sum(s)
<1>4. Sum(s)
  BY <1>3
<1>5. Len(v) = n /\ Total(v) = s[n]
  <2>1. v \in Seq(Int) /\ Len(v) = n
    OBVIOUS
  <2> QED
    BY <2>1 DEF Total
<1> HIDE DEF s
<1>6. \A k \in Nat : k <= n => s[k] \in Int
  <2> DEFINE T == {k \in Nat : k <= n => s[k] \in Int}
  <2>1. 0 \in T
    BY <1>4
  <2>2. ASSUME NEW k \in Nat, k \in T PROVE k + 1 \in T
    BY <1>4, <2>2, SMTT(30)
  <2> HIDE DEF T
  <2>3. Nat \subseteq T
    BY <2>1, <2>2, NatSetInduction
  <2> QED
    BY <2>3 DEF T
<1>7. s \in [0..n -> Int]
  BY <1>4, <1>6
<1>8. s[0] = 0 /\ \A i \in 1..n : s[i] = s[i - 1] + v[i]
  BY <1>4
<1> QED
  BY <1>5, <1>7, <1>8

(* Values of one sign add up to a value of that sign, which is 0 only if     *)
(* they all are.                                                             *)
LEMMA TotalOfNaturals ==
  ASSUME NEW n \in Nat, NEW v \in [1..n -> Int], \A i \in 1..n : v[i] >= 0
  PROVE  Total(v) \in Nat /\ (Total(v) = 0 => \A i \in 1..n : v[i] = 0)
<1>1. PICK s \in [0..n -> Int] : /\ s[0] = 0
                                 /\ \A i \in 1..n : s[i] = s[i - 1] + v[i]
                                 /\ Total(v) = s[n]
  BY TotalIsSum
<1> DEFINE T == {k \in Nat : k <= n => s[k] >= 0 /\ (s[k] = 0 => \A i \in 1..k : v[i] = 0)}
<1>2. 0 \in T
  BY <1>1
<1>3. ASSUME NEW k \in Nat, k \in T PROVE k + 1 \in T
  <2> SUFFICES ASSUME k + 1 <= n
               PROVE  s[k + 1] >= 0 /\ (s[k + 1] = 0 => \A i \in 1..(k + 1) : v[i] = 0)
    OBVIOUS
  <2>1. /\ s[k] \in Int /\ v[k + 1] \in Int /\ s[k + 1] = s[k] + v[k + 1] /\ v[k + 1] >= 0
        /\ s[k] >= 0 /\ (s[k] = 0 => \A i \in 1..k : v[i] = 0)
    BY <1>1, <1>3
  <2> QED
    BY <2>1
<1> HIDE DEF T
<1>4. n \in T
  BY <1>2, <1>3, NatSetInduction
<1> QED
  BY <1>1, <1>4 DEF T

LEMMA TotalIsLinear ==
  ASSUME NEW n \in Nat, NEW q \in Int, NEW v \in [1..n -> Int], NEW u \in [1..n -> Int],
         NEW w \in [1..n -> Int], \A i \in 1..n : v[i] = u[i] + q * w[i]
  PROVE  Total(u) \in Int /\ Total(w) \in Int /\ Total(v) = Total(u) + q * Total(w)
<1>1. PICK s \in [0..n -> Int] : /\ s[0] = 0
                                 /\ \A i \in 1..n : s[i] = s[i - 1] + v[i]
                                 /\ Total(v) = s[n]
  BY TotalIsSum
<1>2. PICK t \in [0..n -> Int] : /\ t[0] = 0
                                 /\ \A i \in 1..n : t[i] = t[i - 1] + u[i]
                                 /\ Total(u) = t[n]
  BY TotalIsSum
<1>3. PICK x \in [0..n -> Int] : /\ x[0] = 0
                                 /\ \A i \in 1..n : x[i] = x[i - 1] + w[i]
                                 /\ Total(w) = x[n]
  BY TotalIsSum
<1> DEFINE T == {k \in Nat : k <= n => s[k] = t[k] + q * x[k]}
<1>4. 0 \in T
  BY <1>1, <1>2, <1>3
<1>5. ASSUME NEW k \in Nat, k \in T PROVE k + 1 \in T
  <2> SUFFICES ASSUME k + 1 <= n PROVE s[k + 1] = t[k + 1] + q * x[k + 1]
    OBVIOUS
  <2>0. k + 1 \in 1..n /\ (k + 1) - 1 = k /\ k <= n
    OBVIOUS
  <2>1. s[k + 1] = s[k] + v[k + 1] /\ t[k + 1] = t[k] + u[k + 1] /\ x[k + 1] = x[k] + w[k + 1]
    BY <1>1, <1>2, <1>3, <2>0
  <2>3. v[k + 1] = u[k + 1] + q * w[k + 1]
    BY <2>0
  <2>4. s[k] = t[k] + q * x[k]
    BY <1>5, <2>0
  <2>2. /\ s[k] \in Int /\ t[k] \in Int /\ x[k] \in Int
        /\ v[k + 1] \in Int /\ u[k + 1] \in Int /\ w[k + 1] \in Int
    BY SMTT(30)
  <2>5. s[k] + v[k + 1] = (t[k] + u[k + 1]) + q * (x[k] + w[k + 1])
    <3> DEFINE sk == s[k]
               tk == t[k]
               xk == x[k]
               vk == v[k + 1]
               uk == u[k + 1]
               wk == w[k + 1]
    <3>1. sk \in Int /\ tk \in Int /\ xk \in Int /\ vk \in Int /\ uk \in Int /\ wk \in Int
      BY <2>2
    <3>2. sk = tk + q * xk /\ vk = uk + q * wk
      BY <2>3, <2>4, Zenon
    <3> HIDE DEF sk, tk, xk, vk, uk, wk
    <3>3. sk + vk = (tk + uk) + q * (xk + wk)
      BY <3>1, <3>2
    <3> QED
      BY <3>3, Zenon DEF sk, tk, xk, vk, uk, wk
  <2> QED
    BY <2>1, <2>5, Zenon
<1> HIDE DEF T
<1>6. n \in T
  BY <1>4, <1>5, NatSetInduction
<1> QED
  BY <1>1, <1>2, <1>3, <1>6 DEF T

-----------------------------------------------------------------------------
(* c / w <= d / x, for scores that are numbers.                              *)
AtMost(c, w, d, x) == c * x <= d * w

LEMMA AtMostTransitive ==
  ASSUME NEW a \in Nat, NEW b \in Nat, NEW c \in Nat, NEW d \in Nat, NEW e \in Nat, NEW f \in Nat,
         d # 0, AtMost(a, b, c, d), AtMost(c, d, e, f)
  PROVE  AtMost(a, b, e, f)
<1>1. (a * d) * f <= (c * b) * f
  BY DEF AtMost
<1>2. (c * f) * b <= (e * d) * b
  BY DEF AtMost
<1>3. (a * f) * d <= (e * b) * d
  BY <1>1, <1>2
<1>4. a * f \in Nat /\ e * b \in Nat
  OBVIOUS
<1>5. \A x, y \in Nat : x * d <= y * d => x <= y
  OBVIOUS
<1>6. a * f <= e * b
  BY <1>3, <1>4, <1>5, Zenon
<1> QED
  BY <1>6 DEF AtMost

(* What min_idx is after n entries.                                          *)
Least(list, counts, n, m) ==
  /\ m \in 1..n
  /\ list[m].weight # 0 =>
       \A j \in 1..n : list[j].weight # 0 =>
         AtMost(counts[m], list[m].weight, counts[j], list[j].weight)
  /\ list[m].weight = 0 => m = 1 /\ (counts[1] = 0 \/ \A j \in 1..n : list[j].weight = 0)

LEMMA LeastStep ==
  ASSUME NEW list, NEW n \in Nat, NEW counts, NEW m, Least(list, counts, n, m),
         \A i \in 1..(n + 1) : list[i].weight \in Nat /\ counts[i] \in Nat
  PROVE  Least(list, counts, n + 1, IF ScoreLess(list, counts, n + 1, m) THEN n + 1 ELSE m)
<1> DEFINE k == n + 1
<1>1. /\ m \in 1..n /\ k \in Nat /\ m \in 1..k /\ k \in 1..k /\ 1 \in 1..n
      /\ \A j \in 1..k : j \in 1..n \/ j = k
      /\ \A j \in 1..n : j \in 1..k
  BY DEF Least
<1>2. \A i \in 1..k : list[i].weight \in Nat /\ counts[i] \in Nat
  OBVIOUS
<1> HIDE DEF k
<1>3. CASE ScoreLess(list, counts, k, m)
  <2>1. list[k].weight # 0
    BY <1>3 DEF ScoreLess
  <2>2. CASE list[m].weight = 0
    <3>1. counts[m] > 0
      BY <1>3, <2>2 DEF ScoreLess
    <3>2. \A j \in 1..n : list[j].weight = 0
      BY <1>1, <1>2, <2>2, <3>1 DEF Least
    <3>3. AtMost(counts[k], list[k].weight, counts[k], list[k].weight)
      BY <1>1, <1>2 DEF AtMost
    <3> QED
      BY <1>1, <1>3, <2>1, <3>2, <3>3 DEF Least, k
  <2>3. CASE list[m].weight # 0
    <3>1. AtMost(counts[k], list[k].weight, counts[m], list[m].weight)
      BY <1>1, <1>2, <1>3, <2>3 DEF ScoreLess, AtMost
    <3>2. ASSUME NEW j \in 1..k, list[j].weight # 0
          PROVE  AtMost(counts[k], list[k].weight, counts[j], list[j].weight)
      <4>1. CASE j \in 1..n
        <5>1. AtMost(counts[m], list[m].weight, counts[j], list[j].weight)
          BY <2>3, <3>2, <4>1 DEF Least
        <5> QED
          BY <1>1, <1>2, <2>3, <3>1, <5>1, AtMostTransitive
      <4>2. CASE j = k
        BY <1>1, <1>2, <4>2 DEF AtMost
      <4> QED
        BY <1>1, <4>1, <4>2
    <3> QED
      BY <1>1, <1>3, <2>1, <3>2 DEF Least, k
  <2> QED
    BY <2>2, <2>3
<1>4. CASE ~ScoreLess(list, counts, k, m)
  <2>1. CASE list[m].weight = 0
    <3>1. m = 1 /\ (counts[1] = 0 \/ \A j \in 1..n : list[j].weight = 0)
      BY <2>1 DEF Least
    <3>2. counts[1] = 0 \/ list[k].weight = 0
      BY <1>1, <1>2, <1>4, <2>1, <3>1 DEF ScoreLess
    <3>3. counts[1] = 0 \/ \A j \in 1..k : list[j].weight = 0
      BY <1>1, <3>1, <3>2
    <3> QED
      BY <1>1, <1>4, <2>1, <3>1, <3>3 DEF Least, k
  <2>2. CASE list[m].weight # 0
    <3>1. ASSUME NEW j \in 1..k, list[j].weight # 0
          PROVE  AtMost(counts[m], list[m].weight, counts[j], list[j].weight)
      <4>1. CASE j \in 1..n
        BY <2>2, <3>1, <4>1 DEF Least
      <4>2. CASE j = k
        <5>1. ~(counts[k] * list[m].weight < counts[m] * list[k].weight)
          BY <1>4, <2>2, <3>1, <4>2 DEF ScoreLess
        <5> QED
          BY <1>1, <1>2, <4>2, <5>1 DEF AtMost
      <4> QED
        BY <1>1, <4>1, <4>2
    <3> QED
      BY <1>1, <1>4, <2>2, <3>1 DEF Least, k
  <2> QED
    BY <2>1, <2>2
<1> QED
  BY <1>3, <1>4 DEF k

LEMMA SelectsLeast ==
  ASSUME NEW list, Len(list) \in Nat, Len(list) # 0, NEW counts,
         \A i \in 1..Len(list) : list[i].weight \in Nat /\ counts[i] \in Nat
  PROVE  Least(list, counts, Len(list), Select(list, counts))
<1> DEFINE n == Len(list)
           Of(i, x) == IF ScoreLess(list, counts, i, x) THEN i ELSE x
           step == [i \in 1..n |-> [x \in Nat |-> Of(i, x)]]
           MinIdx(f) == f = [i \in 1..n |-> IF i = 1 THEN 1
                                             ELSE IF ScoreLess(list, counts, i, f[i - 1]) THEN i
                                             ELSE f[i - 1]]
<1>0. n \in Nat /\ 1 \in Nat /\ 1 <= n
  OBVIOUS
<1>1. \A i \in (1 + 1)..n : step[i] \in [Nat -> Nat]
  BY <1>0
<1>2. PICK f \in [1..n -> Nat] : Loop(step, 1, n, 1, f)
  <2> HIDE DEF step, n
  <2> QED
    BY <1>0, <1>1, LoopExists, Zenon
<1>3. MinIdx(f)
  <2>1. \A i \in 1..n : f[i] = IF i = 1 THEN 1 ELSE step[i][f[i - 1]]
    BY <1>2 DEF Loop
  <2> HIDE DEF n
  <2>2. \A i \in 1..n : i # 1 => step[i][f[i - 1]] = Of(i, f[i - 1])
    <3> SUFFICES ASSUME NEW i \in 1..n, i # 1 PROVE step[i][f[i - 1]] = Of(i, f[i - 1])
      OBVIOUS
    <3>1. f[i - 1] \in Nat
      BY <1>0, <1>2
    <3> HIDE DEF Of
    <3> QED
      BY <3>1
  <2> HIDE DEF step
  <2>3. \A i \in 1..n : f[i] = IF i = 1 THEN 1 ELSE Of(i, f[i - 1])
    BY <2>1, <2>2
  <2> QED
    BY <1>2, <2>3
<1> HIDE DEF step
<1> DEFINE g == CHOOSE f_1 : MinIdx(f_1)
<1>4. MinIdx(g)
  BY <1>3, Zenon
<1>5. Select(list, counts) = g[n]
  BY DEF Select
<1> HIDE DEF g, n
<1>6. \A i \in 1..n : g[i] = IF i = 1 THEN 1 ELSE Of(i, g[i - 1])
  BY <1>4
<1> HIDE DEF Of
<1> DEFINE T == {k \in Nat : k + 1 <= n => Least(list, counts, k + 1, g[k + 1])}
<1>7. 0 \in T
  <2>1. g[1] = 1 /\ list[1].weight \in Nat /\ counts[1] \in Nat
    BY <1>0, <1>6 DEF n
  <2>2. AtMost(counts[1], list[1].weight, counts[1], list[1].weight)
    BY <2>1 DEF AtMost
  <2>3. 1..1 = {1}
    OBVIOUS
  <2>4. Least(list, counts, 1, 1)
    BY <2>2, <2>3 DEF Least
  <2> QED
    BY <2>1, <2>4
<1>8. ASSUME NEW k \in Nat, k \in T PROVE k + 1 \in T
  <2> SUFFICES ASSUME (k + 1) + 1 <= n PROVE Least(list, counts, (k + 1) + 1, g[(k + 1) + 1])
    OBVIOUS
  <2>1. Least(list, counts, k + 1, g[k + 1])
    BY <1>0, <1>8
  <2>2. g[(k + 1) + 1] = Of((k + 1) + 1, g[k + 1])
    BY <1>0, <1>6
  <2>3. \A i \in 1..((k + 1) + 1) : list[i].weight \in Nat /\ counts[i] \in Nat
    BY <1>0 DEF n
  <2>4. k + 1 \in Nat
    OBVIOUS
  <2> QED
    BY <2>1, <2>2, <2>3, <2>4, LeastStep, Zenon DEF Of
<1> HIDE DEF T
<1>9. n - 1 \in T
  <2>1. Nat \subseteq T
    BY <1>7, <1>8, NatSetInduction
  <2>2. n - 1 \in Nat
    BY <1>0
  <2> QED
    BY <2>1, <2>2
<1>10. Least(list, counts, n, g[n])
  <2>1. (n - 1) + 1 = n /\ n <= n
    BY <1>0
  <2> QED
    BY <1>9, <2>1 DEF T
<1> QED
  BY <1>5, <1>10 DEF n

-----------------------------------------------------------------------------
LEMMA MoreOfIt ==
  ASSUME NEW q \in Nat, NEW w \in Nat
  PROVE  /\ q * w \in Nat /\ (q + 1) * w \in Nat /\ ((q + 1) + 1) * w \in Nat
         /\ (q + 1) * w = q * w + w /\ ((q + 1) + 1) * w = (q + 1) * w + w
  OBVIOUS

(* If the entry with the least score has had all of its round, all have.     *)
LEMMA RoundIsOver ==
  ASSUME NEW p \in Nat, NEW c \in Nat, NEW w \in Nat, NEW d \in Nat, NEW x \in Nat,
         w # 0, c = p * w, AtMost(c, w, d, x)
  PROVE  p * x <= d
<1>1. (p * x) * w <= d * w
  BY DEF AtMost
<1>2. p * x \in Nat
  OBVIOUS
<1>3. \A y, z \in Nat : y * w <= z * w => y <= z
  OBVIOUS
<1> QED
  BY <1>1, <1>2, <1>3, Zenon

LEMMA InitWeights == Init => WeightInvariant
<1> SUFFICES ASSUME Init PROVE WeightInvariant
  OBVIOUS
<1>1. /\ deployment \in Deployments /\ served = counts_ /\ counts_ = [i \in DOMAIN List |-> 0]
  BY DEF Init, List
<1>2. \A i \in DOMAIN List : Weights[i] \in Nat
  BY <1>1, WeightAssumption DEF Weights, List
<1>3. \A i \in DOMAIN List : 0 * Weights[i] <= 0 /\ 0 <= (0 + 1) * Weights[i]
  BY <1>2
<1>4. \A i \in DOMAIN List : served[i] = 0
  BY <1>1
<1>6. served \in [DOMAIN List -> Nat]
  BY <1>1
<1>5. WithinRound(0)
  BY <1>3, <1>4 DEF WithinRound
<1> QED
  BY <1>1, <1>5, <1>6 DEF WeightInvariant

(* One selection.                                                            *)
LEMMA SelectionWeights ==
  ASSUME WeightInvariant, UNCHANGED deployment, NEW m, m = Select(List, counts_),
         counts_' = Count(List, counts_, m), served' = Count(List, served, m)
  PROVE  WeightInvariant'
<1> DEFINE n == Len(List)
<1>1. /\ deployment \in Deployments /\ served = counts_ /\ List' = List /\ Weights' = Weights
      /\ served' = counts_'
  BY DEF WeightInvariant, List, Weights
<1>2. n \in Nat /\ n # 0 /\ DOMAIN List = 1..n /\ \A i \in 1..n : List[i].weight \in Nat
  BY <1>1, WeightAssumption DEF List
<1>3. \A i \in 1..n : Weights[i] = List[i].weight /\ Weights[i] \in Nat
  BY <1>2 DEF Weights
<1>4. served \in [1..n -> Nat]
  BY <1>2 DEF WeightInvariant
<1>5. SUFFICES ASSUME n > 1
               PROVE  /\ served' \in [DOMAIN List -> Nat]
                      /\ (\E i \in DOMAIN List : Weights[i] # 0) => \E q \in Nat : WithinRound(q)'
  <2>1. CASE n = 1
    <3>1. served' = served
      BY <2>1 DEF Count
    <3> QED
      BY <1>1, <1>2, <1>4, <2>1, <3>1 DEF WeightInvariant
  <2>2. CASE n > 1
    BY <1>1, <2>2 DEF WeightInvariant
  <2>3. n = 1 \/ n > 1
    BY <1>2
  <2> QED
    BY <2>1, <2>2, <2>3
<1>6. Least(List, served, n, m)
  BY <1>1, <1>2, <1>5, <1>4, SelectsLeast
<1>7. m \in 1..n
  BY <1>6 DEF Least
<1>8. served' = [served EXCEPT ![m] = @ + 1]
  BY <1>2, <1>5 DEF Count
<1>9. /\ served' \in [1..n -> Nat] /\ served'[m] = served[m] + 1
      /\ \A i \in 1..n : i # m => served'[i] = served[i]
  BY <1>4, <1>7, <1>8
<1> HIDE DEF n
<1>10. ASSUME NEW i0 \in 1..n, Weights[i0] # 0 PROVE \E q \in Nat : WithinRound(q)'
  <2>1. PICK q \in Nat : WithinRound(q)
    BY <1>2, <1>5, <1>10 DEF WeightInvariant, n
  <2>2. \A i \in 1..n : IF Weights[i] = 0 THEN served[i] <= (IF i = 1 THEN 1 ELSE 0)
                         ELSE q * Weights[i] <= served[i] /\ served[i] <= (q + 1) * Weights[i]
    BY <1>2, <2>1 DEF WithinRound
  <2>3. ASSUME NEW p \in Nat,
               \A i \in 1..n : IF Weights[i] = 0 THEN served'[i] <= (IF i = 1 THEN 1 ELSE 0)
                                ELSE p * Weights[i] <= served'[i] /\ served'[i] <= (p + 1) * Weights[i]
        PROVE  WithinRound(p)'
    BY <1>1, <1>2, <2>3 DEF WithinRound
  <2>4. CASE Weights[m] = 0
    <3>1. m = 1 /\ served[1] = 0
      BY <1>3, <1>6, <1>7, <1>10, <2>4 DEF Least
    <3>2. \A i \in 1..n : IF Weights[i] = 0 THEN served'[i] <= (IF i = 1 THEN 1 ELSE 0)
                           ELSE q * Weights[i] <= served'[i] /\ served'[i] <= (q + 1) * Weights[i]
      BY <1>9, <2>2, <2>4, <3>1
    <3> QED
      BY <2>3, <3>2
  <2>5. CASE Weights[m] # 0 /\ served[m] < (q + 1) * Weights[m]
    <3>1. /\ q * Weights[m] \in Nat /\ (q + 1) * Weights[m] \in Nat
          /\ q * Weights[m] <= served[m] /\ served[m] \in Nat
      BY <1>3, <1>4, <1>7, <2>2, <2>5, MoreOfIt
    <3>2. q * Weights[m] <= served'[m] /\ served'[m] <= (q + 1) * Weights[m]
      BY <1>9, <2>5, <3>1
    <3>3. \A i \in 1..n : IF Weights[i] = 0 THEN served'[i] <= (IF i = 1 THEN 1 ELSE 0)
                           ELSE q * Weights[i] <= served'[i] /\ served'[i] <= (q + 1) * Weights[i]
      BY <1>9, <2>2, <2>5, <3>2
    <3> QED
      BY <2>3, <3>3
  <2>6. CASE Weights[m] # 0 /\ ~(served[m] < (q + 1) * Weights[m])
    <3>1. served[m] = (q + 1) * Weights[m]
      <4>1. (q + 1) * Weights[m] \in Nat /\ served[m] <= (q + 1) * Weights[m] /\ served[m] \in Nat
        BY <1>3, <1>4, <1>7, <2>2, <2>6, MoreOfIt
      <4> QED
        BY <2>6, <4>1
    <3>2. ASSUME NEW i \in 1..n, Weights[i] # 0
          PROVE  /\ (q + 1) * Weights[i] <= served'[i]
                 /\ served'[i] <= ((q + 1) + 1) * Weights[i]
      <4>1. AtMost(served[m], Weights[m], served[i], Weights[i])
        BY <1>3, <1>6, <1>7, <2>6, <3>2 DEF Least
      <4>2. q + 1 \in Nat /\ Weights[m] \in Nat /\ Weights[i] \in Nat /\ served[m] \in Nat /\ served[i] \in Nat
        BY <1>3, <1>4, <1>7
      <4>3. (q + 1) * Weights[i] <= served[i]
        BY <2>6, <3>1, <4>1, <4>2, RoundIsOver
      <4>4. served[i] <= (q + 1) * Weights[i]
        BY <2>2, <3>2
      <4>5. served'[i] \in {served[i], served[i] + 1}
        BY <1>9
      <4>6. /\ (q + 1) * Weights[i] \in Nat
            /\ ((q + 1) + 1) * Weights[i] = (q + 1) * Weights[i] + Weights[i]
        BY <4>2, MoreOfIt
      <4> QED
        BY <3>2, <4>2, <4>3, <4>4, <4>5, <4>6
    <3>3. \A i \in 1..n :
            IF Weights[i] = 0 THEN served'[i] <= (IF i = 1 THEN 1 ELSE 0)
            ELSE (q + 1) * Weights[i] <= served'[i] /\ served'[i] <= ((q + 1) + 1) * Weights[i]
      BY <1>9, <2>2, <2>6, <3>2
    <3>4. q + 1 \in Nat
      OBVIOUS
    <3>5. WithinRound(q + 1)'
      BY <2>3, <3>3, <3>4
    <3> QED
      BY <3>4, <3>5
  <2> QED
    BY <2>4, <2>5, <2>6
<1> QED
  BY <1>2, <1>9, <1>10

LEMMA NextWeights == WeightInvariant /\ [Next]_vars => WeightInvariant'
<1> SUFFICES ASSUME WeightInvariant, [Next]_vars PROVE WeightInvariant'
  OBVIOUS
<1>1. ASSUME NEW req, CreateRequestHandler(req) PROVE WeightInvariant'
  <2>1. /\ UNCHANGED deployment
        /\ \E m \in {Select(List, counts_)} :
             counts_' = Count(List, counts_, m) /\ served' = Count(List, served, m)
    BY <1>1 DEF CreateRequestHandler
  <2> QED
    BY <2>1, SelectionWeights, Zenon
<1>2. CASE UNCHANGED <<deployment, counts_, served>>
  BY <1>2, Zenon DEF WeightInvariant, List, Weights, WithinRound
<1>3. CASE AddAndDeployConfigs \/ AggregatorTimer \/ Close \/ Tick \/ UNCHANGED vars
  <2>1. CASE AddAndDeployConfigs
    BY <1>2, <2>1, Zenon DEF AddAndDeployConfigs
  <2>3. CASE AggregatorTimer \/ Close
    BY <1>2, <2>3, Zenon DEF AggregatorTimer, Close
  <2>4. CASE Tick \/ UNCHANGED vars
    BY <1>2, <2>4, Zenon DEF Tick, vars
  <2> QED
    BY <1>3, <2>1, <2>3, <2>4
<1>4. ASSUME NEW uri, RewriteUri(uri) PROVE WeightInvariant'
  BY <1>2, <1>4 DEF RewriteUri
<1>5. ASSUME NEW c, CheckPassed(c) \/ Report(c) PROVE WeightInvariant'
  <2>1. CASE CheckPassed(c)
    BY <1>2, <2>1, Zenon DEF CheckPassed
  <2>2. CASE Report(c)
    BY <1>2, <2>2, Zenon DEF Report
  <2> QED
    BY <1>5, <2>1, <2>2
<1> QED
  BY <1>1, <1>3, <1>4, <1>5, Zenon DEF Next

LEMMA TotalOfNegatives ==
  ASSUME NEW n \in Nat, NEW v \in [1..n -> Int], \A i \in 1..n : v[i] <= 0
  PROVE  Total(v) \in Int /\ Total(v) <= 0 /\ (Total(v) = 0 => \A i \in 1..n : v[i] = 0)
<1> DEFINE u == [i \in 1..n |-> -v[i]]
<1>1. u \in [1..n -> Int] /\ (\A i \in 1..n : u[i] >= 0 /\ v[i] = u[i] + (-2) * u[i])
  OBVIOUS
<1>2. \A i \in 1..n : u[i] = 0 => v[i] = 0
  OBVIOUS
<1> HIDE DEF u
<1>3. Total(u) \in Nat /\ (Total(u) = 0 => \A i \in 1..n : u[i] = 0)
  BY <1>1, TotalOfNaturals
<1>4. -2 \in Int
  OBVIOUS
<1>5. Total(v) = Total(u) + (-2) * Total(u)
  BY <1>1, <1>4, TotalIsLinear, Zenon
<1> QED
  BY <1>2, <1>3, <1>5

(* A total between two rounds that is a multiple of the round is one of them.*)
LEMMA WholeRounds ==
  ASSUME NEW q \in Nat, NEW x \in Int, NEW r \in Int, r > 0, x % r = 0,
         NEW t \in Nat, NEW u \in Int, u <= 0, x = t + q * r, x = u + (q + 1) * r
  PROVE  (t = 0 /\ x \div r = q) \/ (u = 0 /\ x \div r = q + 1)
<1> DEFINE k == x \div r
<1>1. k \in Int /\ x = r * k + (x % r)
  OBVIOUS
<1> HIDE DEF k
<1>2. t = (k - q) * r
  BY <1>1
<1>3. t <= r
  OBVIOUS
<1>4. k - q >= 0 /\ k - q <= 1
  BY <1>1, <1>2, <1>3
<1>5. CASE k = q
  BY <1>2, <1>5 DEF k
<1>6. CASE k = q + 1
  BY <1>2, <1>6 DEF k
<1> QED
  BY <1>1, <1>4, <1>5, <1>6

LEMMA SharesOfRounds ==
  ASSUME WeightInvariant, Len(List) > 1, Total(Weights) > 0
  PROVE  /\ \A i \in DOMAIN List : Weights[i] = 0 => served[i] <= (IF i = 1 THEN 1 ELSE 0)
         /\ Total(Selected) % Total(Weights) = 0 =>
              \A i \in DOMAIN List : Selected[i] = Weights[i] * (Total(Selected) \div Total(Weights))
<1> DEFINE n == Len(List)
<1>1. n \in Nat /\ DOMAIN List = 1..n
  BY WeightAssumption DEF WeightInvariant, List
<1>2. Weights \in [1..n -> Nat] /\ served \in [1..n -> Nat]
  BY <1>1, WeightAssumption DEF WeightInvariant, List, Weights
<1>3. Selected \in [1..n -> Nat] /\ \A i \in 1..n : Selected[i] = IF Weights[i] = 0 THEN 0 ELSE served[i]
  BY <1>1, <1>2 DEF Selected
<1>4. Weights \in [1..n -> Int] /\ Selected \in [1..n -> Int]
  BY <1>2, <1>3
<1> HIDE DEF n
<1>5. \E i \in 1..n : Weights[i] # 0
  <2> SUFFICES ASSUME \A i \in 1..n : Weights[i] <= 0 PROVE FALSE
    BY <1>2
  <2>1. Total(Weights) \in Int /\ Total(Weights) <= 0
    BY <1>1, <1>4, TotalOfNegatives
  <2> QED
    BY <2>1
<1>6. PICK q \in Nat : WithinRound(q)
  BY <1>1, <1>5 DEF WeightInvariant
<1>7. \A i \in 1..n : IF Weights[i] = 0 THEN served[i] <= (IF i = 1 THEN 1 ELSE 0)
                       ELSE q * Weights[i] <= served[i] /\ served[i] <= (q + 1) * Weights[i]
  BY <1>1, <1>6 DEF WithinRound
<1>8. ASSUME NEW i \in 1..n
      PROVE  /\ q * Weights[i] \in Int /\ (q + 1) * Weights[i] \in Int
             /\ q * Weights[i] <= Selected[i] /\ Selected[i] <= (q + 1) * Weights[i]
  <2>1. Weights[i] \in Nat /\ Selected[i] \in Nat
    BY <1>2, <1>3
  <2>2. q * Weights[i] \in Nat /\ (q + 1) * Weights[i] \in Nat
    BY <2>1, MoreOfIt
  <2>3. CASE Weights[i] = 0
    BY <1>3, <2>3
  <2>4. CASE Weights[i] # 0
    BY <1>3, <1>7, <2>2, <2>4
  <2> QED
    BY <2>2, <2>3, <2>4
<1> DEFINE t == [i \in 1..n |-> Selected[i] - q * Weights[i]]
           u == [i \in 1..n |-> Selected[i] - (q + 1) * Weights[i]]
           x == Total(Selected)
           r == Total(Weights)
<1>9. /\ t \in [1..n -> Int] /\ \A i \in 1..n : t[i] >= 0 /\ Selected[i] = t[i] + q * Weights[i]
      /\ u \in [1..n -> Int] /\ \A i \in 1..n : u[i] <= 0 /\ Selected[i] = u[i] + (q + 1) * Weights[i]
  <2> SUFFICES ASSUME NEW i \in 1..n
               PROVE  /\ Selected[i] - q * Weights[i] \in Int /\ Selected[i] - q * Weights[i] >= 0
                      /\ Selected[i] = (Selected[i] - q * Weights[i]) + q * Weights[i]
                      /\ Selected[i] - (q + 1) * Weights[i] \in Int /\ Selected[i] - (q + 1) * Weights[i] <= 0
                      /\ Selected[i] = (Selected[i] - (q + 1) * Weights[i]) + (q + 1) * Weights[i]
    BY Zenon
  <2>1. Selected[i] \in Int
    BY <1>4
  <2> QED
    BY <1>8, <2>1
<1> HIDE DEF t, u
<1>10. Total(t) \in Nat /\ (Total(t) = 0 => \A i \in 1..n : t[i] = 0)
  BY <1>1, <1>9, TotalOfNaturals
<1>11. Total(u) \in Int /\ Total(u) <= 0 /\ (Total(u) = 0 => \A i \in 1..n : u[i] = 0)
  BY <1>1, <1>9, TotalOfNegatives
<1>12. q \in Int /\ q + 1 \in Int
  OBVIOUS
<1>13. x = Total(t) + q * r
  <2>1. t \in [1..n -> Int] /\ \A i \in 1..n : Selected[i] = t[i] + q * Weights[i]
    BY <1>9, Zenon
  <2> QED
    BY <1>1, <1>4, <1>12, <2>1, TotalIsLinear, ZenonT(60)
<1>14. x = Total(u) + (q + 1) * r /\ r \in Int
  <2> DEFINE p == q + 1
  <2>1. p \in Int /\ u \in [1..n -> Int] /\ \A i \in 1..n : Selected[i] = u[i] + p * Weights[i]
    BY <1>9, <1>12, Zenon
  <2> HIDE DEF p
  <2>2. x = Total(u) + p * r /\ r \in Int
    BY <1>1, <1>4, <2>1, TotalIsLinear, ZenonT(60)
  <2> QED
    BY <2>2, Zenon DEF p
<1>15. x \in Int /\ r > 0
  BY <1>3, <1>1, <1>4, TotalIsSum, SMTT(30)
<1> HIDE DEF x, r
<1>16. ASSUME x % r = 0
       PROVE  \A i \in 1..n : Selected[i] = Weights[i] * (x \div r)
  <2>1. (Total(t) = 0 /\ x \div r = q) \/ (Total(u) = 0 /\ x \div r = q + 1)
    BY <1>10, <1>11, <1>13, <1>14, <1>15, <1>16, WholeRounds
  <2>2. CASE Total(t) = 0 /\ x \div r = q
    BY <1>4, <1>9, <1>10, <2>2
  <2>3. CASE Total(u) = 0 /\ x \div r = q + 1
    <3> SUFFICES ASSUME NEW i \in 1..n PROVE Selected[i] = Weights[i] * (q + 1)
      BY <2>3
    <3>1. Weights[i] \in Int /\ u[i] = 0 /\ Selected[i] = u[i] + (q + 1) * Weights[i]
      BY <1>4, <1>9, <1>11, <2>3
    <3>2. Selected[i] = 0 + (q + 1) * Weights[i]
      BY <3>1, Zenon
    <3> QED
      BY <3>1, <3>2
  <2> QED
    BY <2>1, <2>2, <2>3
<1>17. \A i \in 1..n : Weights[i] = 0 => served[i] <= (IF i = 1 THEN 1 ELSE 0)
  BY <1>7
<1> QED
  BY <1>1, <1>16, <1>17 DEF x, r

(* A step of the whole is one of Routing, or the handler of grpc_pass, which *)
(* serves a request that has been given its configuration and its trace.     *)
LEMMA BackendSteps ==
  [BackendNext]_backendVars => [Next]_vars \/ \E c \in call : GrpcBackendHandler(c)
<1>1. \A s : ServerStep(s) => UNCHANGED vars
  BY Zenon DEF ServerStep
<1>2. CASE Read \/ OnDownstreamReadable \/ SendInitialMetadata
  BY <1>1, <1>2, Zenon DEF Read, OnDownstreamReadable, SendInitialMetadata
<1>3. CASE RunPendingRead
  BY <1>1, <1>3, Zenon DEF RunPendingRead
<1>4. ASSUME NEW message, Write(message) PROVE UNCHANGED vars
  BY <1>1, <1>4, Zenon DEF Write
<1>5. ASSUME NEW e, Finish(e) PROVE UNCHANGED vars
  BY <1>1, <1>5, Zenon DEF Finish
<1>6. CASE UNCHANGED backendVars
  BY <1>6, Zenon DEF backendVars
<1> QED
  BY <1>2, <1>3, <1>4, <1>5, <1>6, Zenon DEF BackendNext, Next

(* Whatever is served, no service is ahead of another by more than a round.  *)
THEOREM WeightInvariantHolds == BackendSpec => []WeightInvariant
<1>1. BackendInit => WeightInvariant
  BY InitWeights DEF BackendInit
<1>2. WeightInvariant /\ [BackendNext]_backendVars => WeightInvariant'
  <2> SUFFICES ASSUME WeightInvariant, [BackendNext]_backendVars PROVE WeightInvariant'
    OBVIOUS
  <2>1. CASE [Next]_vars
    BY <2>1, NextWeights
  <2>2. ASSUME NEW c, GrpcBackendHandler(c) PROVE WeightInvariant'
    <3>1. UNCHANGED <<deployment, counts_, served>>
      BY <2>2, Zenon DEF GrpcBackendHandler
    <3> QED
      BY <3>1, Zenon DEF WeightInvariant, List, Weights, WithinRound
  <2> QED
    BY <2>1, <2>2, BackendSteps
<1> QED
  BY <1>1, <1>2, PTL DEF BackendSpec

(* WeightedSelector::Select keeps to the weights: after any whole number of  *)
(* rounds every configuration has had exactly its share of the requests, and *)
(* one with weight 0 at most the first, whatever the number of               *)
(* configurations and their weights, up to the 2^23 selections for which the *)
(* scores are exact.                                                         *)
THEOREM WeightsAreKept == BackendSpec => []WeightsKept
<1>1. WeightInvariant => WeightsKept
  BY SharesOfRounds DEF WeightsKept
<1> QED
  BY <1>1, WeightInvariantHolds, PTL

-----------------------------------------------------------------------------
(* The operators of CloudTrace.                                              *)
TraceOf(t, trace_id, span_id, time) ==
  /\ t \in Trace /\ t.trace_id = trace_id /\ t.project_id = "" /\ t.start = time
  /\ t.spans # <<>> /\ IdOf(t) = span_id

LEMMA NewTraceIs ==
  ASSUME NEW trace_id \in Int, NEW span_id \in Nat, NEW parent \in SUBSET Int, NEW time \in Nat
  PROVE  TraceOf(GetNewTrace(trace_id, span_id, parent, time), trace_id, span_id, time)
<1> DEFINE span == [span_id |-> span_id, parent |-> parent, ended |-> FALSE]
<1>1. span \in Span /\ span.span_id = span_id
  BY DEF Span
<1> DEFINE spans == <<span>>
           new == [trace_id |-> trace_id, project_id |-> "", start |-> time, spans |-> spans]
<1>2. GetNewTrace(trace_id, span_id, parent, time) = new
  BY Zenon DEF GetNewTrace
<1> HIDE DEF span
<1>3. spans \in Seq(Span) /\ spans # <<>> /\ spans[1] = span
  BY <1>1
<1> HIDE DEF spans
<1>4. new.trace_id = trace_id /\ new.project_id = "" /\ new.start = time /\ new.spans = spans
  OBVIOUS
<1>5. new \in Trace
  <2>1. "" \in ProjectIds
    BY Zenon DEF ProjectIds
  <2> QED
    BY <1>3, <2>1 DEF Trace
<1> HIDE DEF new
<1> QED
  BY <1>1, <1>2, <1>3, <1>4, <1>5, Zenon DEF IdOf, TraceOf

LEMMA ContinuesIs ==
  ASSUME NEW h, h.trace_id \in Int, h.span_id \in Int, NEW span_id \in Nat, NEW time \in Nat
  PROVE  TraceOf(Continues(h, span_id, time), h.trace_id, span_id, time)
<1> DEFINE parent == IF h.span_id = 0 THEN {} ELSE {h.span_id}
<1>1. parent \in SUBSET Int
  OBVIOUS
<1>2. Continues(h, span_id, time) = GetNewTrace(h.trace_id, span_id, parent, time)
  BY DEF Continues
<1> HIDE DEF parent
<1>3. TraceOf(GetNewTrace(h.trace_id, span_id, parent, time), h.trace_id, span_id, time)
  BY <1>1, NewTraceIs
<1> QED
  BY <1>2, <1>3, Zenon

LEMMA DefaultOptions == kDefaultTraceOptions \in Seq(Option) /\ kDefaultTraceOptions # <<>>
  BY DEF kDefaultTraceOptions, Option

(* What a header asks for.                                                   *)
NewTraceOf(t, type, span_id, time) ==
  /\ t \in RequestTrace /\ t.header_type = type
  /\ t.trace.project_id = "" /\ t.trace.start = time
  /\ t.trace.spans # <<>> /\ IdOf(t.trace) = span_id
  /\ t.options # <<>> /\ (type = "GRPC_TRACE_CONTEXT" => t.options = kDefaultTraceOptions)

LEMMA RequestTraceIs ==
  ASSUME NEW type \in {"GRPC_TRACE_CONTEXT", "CLOUD_TRACE_CONTEXT"}, NEW span_id \in Nat, NEW time \in Nat,
         NEW trace \in Trace, trace.project_id = "", trace.start = time, trace.spans # <<>>,
         IdOf(trace) = span_id, NEW options \in Seq(Option), options # <<>>,
         type = "GRPC_TRACE_CONTEXT" => options = kDefaultTraceOptions
  PROVE  NewTraceOf([trace |-> trace, options |-> options, header_type |-> type], type, span_id, time)
<1> DEFINE t == [trace |-> trace, options |-> options, header_type |-> type]
<1>1. t \in RequestTrace /\ t.trace = trace /\ t.options = options /\ t.header_type = type
  BY DEF RequestTrace
<1> HIDE DEF t
<1>2. NewTraceOf(t, type, span_id, time)
  BY <1>1, Zenon DEF NewTraceOf
<1> QED
  BY <1>2, Zenon DEF t

(* The headers of one kind of a request.                                     *)
HeaderOk(type, header) ==
  /\ \A g, h \in header : g = h
  /\ \A h \in header : /\ h.trace_id \in Int \ Nat /\ h.span_id \in Int
                       /\ type = "CLOUD_TRACE_CONTEXT" => h.items \in Seq(Option)

AskedBy(type, h, random, time) ==
  IF type = "GRPC_TRACE_CONTEXT" THEN GetTraceFromGRpcTraceContextHeader(h, random, time)
  ELSE GetTraceFromCloudTraceContextHeader(h, random, time)

LEMMA AskedIs ==
  ASSUME NEW type \in {"GRPC_TRACE_CONTEXT", "CLOUD_TRACE_CONTEXT"}, NEW header, HeaderOk(type, header),
         NEW h \in header, NEW random \in Nat, NEW time \in Nat
  PROVE  \/ AskedBy(type, h, random, time) = {}
         \/ \E options \in Seq(Option) :
              /\ AskedBy(type, h, random, time) = {[trace |-> Continues(h, random, time), options |-> options]}
              /\ options # <<>> /\ (type = "GRPC_TRACE_CONTEXT" => options = kDefaultTraceOptions)
<1>1. CASE type = "GRPC_TRACE_CONTEXT"
  BY <1>1, DefaultOptions, Zenon DEF AskedBy, GetTraceFromGRpcTraceContextHeader
<1>2. CASE type = "CLOUD_TRACE_CONTEXT"
  <2> DEFINE named == {i \in DOMAIN h.items : h.items[i].o}
  <2>1. h.items \in Seq(Option)
    BY <1>2 DEF HeaderOk
  <2>2. named # {} => h.items # <<>>
    BY <2>1
  <2>3. \/ AskedBy(type, h, random, time) = {}
        \/ /\ named # {}
           /\ AskedBy(type, h, random, time) = {[trace |-> Continues(h, random, time), options |-> h.items]}
    BY <1>2, Zenon DEF AskedBy, GetTraceFromCloudTraceContextHeader
  <2> HIDE DEF named
  <2> QED
    BY <1>2, <2>1, <2>2, <2>3, Zenon
<1> QED
  BY <1>1, <1>2

(* What CreateCloudTrace makes of the headers and the sampler s.             *)
Creates(r, type, s, random, time) ==
  \/ r.cloud_trace = {} /\ r.sampler = s
  \/ /\ r.sampler = Refresh(s, time)
     /\ \E t : r.cloud_trace = {t} /\ NewTraceOf(t, type, random, time) /\ (AskedFor(t) \/ On(s, time))

LEMMA CreateCloudTraceIs ==
  ASSUME NEW type \in {"GRPC_TRACE_CONTEXT", "CLOUD_TRACE_CONTEXT"}, NEW header, HeaderOk(type, header),
         NEW s, NEW random \in Nat, NEW time \in Nat
  PROVE  Creates(CreateCloudTrace(type, header, s, random, time), type, s, random, time)
<1> DEFINE asked == UNION {AskedBy(type, h, random, time) : h \in header}
           new == [trace |-> GetNewTrace(random, random, {}, time), options |-> kDefaultTraceOptions]
           found == IF asked # {} THEN asked ELSE IF On(s, time) THEN {new} ELSE {}
           Of(t) == [trace |-> t.trace, options |-> t.options, header_type |-> type]
           r == [cloud_trace |-> {Of(t) : t \in found},
                 sampler |-> IF found = {} THEN s ELSE Refresh(s, time)]
<1>1. CreateCloudTrace(type, header, s, random, time) = r
  BY Zenon DEF CreateCloudTrace, AskedBy
<1>2. r.cloud_trace = {Of(t) : t \in found} /\ r.sampler = (IF found = {} THEN s ELSE Refresh(s, time))
  BY Zenon
<1> HIDE DEF r, asked, new, Of
<1>3. \/ asked = {}
      \/ \E h \in header : \E options \in Seq(Option) :
           /\ asked = {[trace |-> Continues(h, random, time), options |-> options]}
           /\ options # <<>> /\ (type = "GRPC_TRACE_CONTEXT" => options = kDefaultTraceOptions)
  <2>1. CASE header = {}
    BY <2>1 DEF asked
  <2>2. ASSUME NEW h \in header
        PROVE  \/ asked = {}
               \/ \E options \in Seq(Option) :
                    /\ asked = {[trace |-> Continues(h, random, time), options |-> options]}
                    /\ options # <<>> /\ (type = "GRPC_TRACE_CONTEXT" => options = kDefaultTraceOptions)
    <3>1. asked = AskedBy(type, h, random, time)
      <4>1. \A g \in header : g = h
        BY Zenon DEF HeaderOk
      <4>2. header = {h}
        BY <4>1
      <4> QED
        BY <4>2 DEF asked
    <3>2. \/ AskedBy(type, h, random, time) = {}
          \/ \E options \in Seq(Option) :
               /\ AskedBy(type, h, random, time) = {[trace |-> Continues(h, random, time), options |-> options]}
               /\ options # <<>> /\ (type = "GRPC_TRACE_CONTEXT" => options = kDefaultTraceOptions)
      BY AskedIs
    <3> QED
      BY <3>1, <3>2, Zenon
  <2> QED
    BY <2>1, <2>2, Zenon
<1>4. ASSUME NEW trace, NEW options \in Seq(Option), NEW id, TraceOf(trace, id, random, time),
             options # <<>>, type = "GRPC_TRACE_CONTEXT" => options = kDefaultTraceOptions,
             found = {[trace |-> trace, options |-> options]}, id \in Int \ Nat \/ On(s, time)
      PROVE  Creates(r, type, s, random, time)
  <2> DEFINE x == [trace |-> trace, options |-> options]
             t == [trace |-> trace, options |-> options, header_type |-> type]
  <2>1. Of(x) = t
    BY DEF Of
  <2>2. r.cloud_trace = {Of(x)} /\ r.sampler = Refresh(s, time)
    <3> HIDE DEF x, found
    <3>1. found = {x}
      BY <1>4, Zenon DEF x
    <3> QED
      BY <1>2, <3>1
  <2>3. NewTraceOf(t, type, random, time)
    BY <1>4, RequestTraceIs, Zenon DEF TraceOf
  <2>4. t.trace = trace
    OBVIOUS
  <2> HIDE DEF t, x
  <2>5. AskedFor(t) \/ On(s, time)
    <3>1. trace.trace_id = id /\ IdOf(trace) = random
      BY <1>4, Zenon DEF TraceOf
    <3>2. id \in Int \ Nat => id # random
      OBVIOUS
    <3> QED
      BY <1>4, <2>4, <3>1, <3>2, Zenon DEF AskedFor
  <2> QED
    BY <2>1, <2>2, <2>3, <2>5, Zenon DEF Creates
<1>5. CASE found = {}
  <2>1. r.cloud_trace = {} /\ r.sampler = s
    BY <1>2, <1>5, Zenon
  <2> QED
    BY <1>1, <2>1, Zenon DEF Creates
<1>6. CASE asked = {} /\ On(s, time)
  <2>1. found = {new}
    BY <1>6
  <2>2. TraceOf(GetNewTrace(random, random, {}, time), random, random, time)
    BY NewTraceIs
  <2> HIDE DEF found
  <2> QED
    BY <1>1, <1>4, <1>6, <2>1, <2>2, DefaultOptions, Zenon DEF new
<1>7. CASE asked # {}
  <2>1. PICK h \in header, options \in Seq(Option) :
           /\ asked = {[trace |-> Continues(h, random, time), options |-> options]}
           /\ options # <<>> /\ (type = "GRPC_TRACE_CONTEXT" => options = kDefaultTraceOptions)
    BY <1>3, <1>7, Zenon
  <2>2. found = asked
    BY <1>7
  <2>3. h.trace_id \in Int \ Nat /\ h.span_id \in Int
    BY Zenon DEF HeaderOk
  <2>4. TraceOf(Continues(h, random, time), h.trace_id, random, time)
    BY <2>3, ContinuesIs
  <2> HIDE DEF found
  <2> QED
    BY <1>1, <1>4, <2>1, <2>2, <2>3, <2>4, Zenon
<1> QED
  BY <1>5, <1>6, <1>7

(* The span of the backend is added to a trace, and keeps what else is in it.*)
WithSpan(t, id, u) ==
  /\ u \in RequestTrace /\ u.options = t.options /\ u.header_type = t.header_type
  /\ u.trace.trace_id = t.trace.trace_id /\ u.trace.project_id = t.trace.project_id
  /\ u.trace.start = t.trace.start /\ u.trace.spans # <<>> /\ IdOf(u.trace) = IdOf(t.trace)
  /\ \E i \in DOMAIN u.trace.spans :
       u.trace.spans[i].span_id = id /\ u.trace.spans[i].parent = {IdOf(t.trace)}

LEMMA CreateSpanIs ==
  ASSUME NEW t \in RequestTrace, t.trace.spans # <<>>, NEW id \in Nat, NEW u, u = CreateSpan(t, id)
  PROVE  WithSpan(t, id, u)
<1> DEFINE old == t.trace.spans
           span == [span_id |-> id, parent |-> {old[1].span_id}, ended |-> FALSE]
           spans == Append(old, span)
<1>1. old \in Seq(Span) /\ old # <<>>
  BY DEF RequestTrace, Trace
<1>2. u = [t EXCEPT !.trace.spans = spans]
  BY DEF CreateSpan
<1>3. old[1] \in Span /\ Len(old) \in Nat /\ Len(old) # 0
  BY <1>1
<1>4. span \in Span /\ span.span_id = id /\ span.parent = {old[1].span_id}
  BY <1>3 DEF Span
<1> HIDE DEF old, span
<1>5. /\ spans \in Seq(Span) /\ spans # <<>> /\ spans[1] = old[1]
      /\ Len(old) + 1 \in DOMAIN spans /\ spans[Len(old) + 1] = span
  BY <1>1, <1>3, <1>4
<1> HIDE DEF spans
<1>6. /\ u \in RequestTrace /\ u.trace.spans = spans
      /\ u.options = t.options /\ u.header_type = t.header_type
  BY <1>2, <1>5 DEF RequestTrace, Trace
<1>7. /\ u.trace.trace_id = t.trace.trace_id /\ u.trace.project_id = t.trace.project_id
      /\ u.trace.start = t.trace.start
  BY <1>2, <1>5 DEF RequestTrace, Trace
<1> QED
  BY <1>4, <1>5, <1>6, <1>7, Zenon DEF WithSpan, IdOf, old

(* EndSpans changes nothing but the ends.                                    *)
LEMMA EndSpansIs ==
  ASSUME NEW t \in RequestTrace, t.trace.spans # <<>>, NEW trace, trace = EndSpans(t).trace
  PROVE  /\ trace \in Trace /\ trace.spans # <<>> /\ IdOf(trace) = IdOf(t.trace)
         /\ trace.trace_id = t.trace.trace_id
<1> DEFINE old == t.trace.spans
           spans == [i \in DOMAIN old |-> [old[i] EXCEPT !.ended = TRUE]]
<1>1. old \in Seq(Span) /\ old # <<>>
  BY DEF RequestTrace, Trace
<1>2. EndSpans(t) = [t EXCEPT !.trace.spans = spans]
  BY DEF EndSpans
<1>3. \A x \in Span : [x EXCEPT !.ended = TRUE] \in Span /\ [x EXCEPT !.ended = TRUE].span_id = x.span_id
  BY DEF Span
<1>4. /\ spans \in Seq(Span) /\ spans # <<>> /\ spans[1].span_id = old[1].span_id
  <2>1. DOMAIN old = 1..Len(old) /\ Len(old) \in Nat /\ 1 \in DOMAIN old
    BY <1>1
  <2>2. \A i \in 1..Len(old) : old[i] \in Span
    BY <1>1
  <2>3. \A i \in 1..Len(old) : spans[i] \in Span /\ spans[i].span_id = old[i].span_id
    BY <1>3, <2>1, <2>2
  <2>4. spans \in [1..Len(old) -> Span]
    BY <2>1, <2>3
  <2> QED
    BY <2>1, <2>3, <2>4
<1> HIDE DEF spans, old
<1>5. EndSpans(t).trace.spans = spans /\ EndSpans(t).trace \in Trace
      /\ EndSpans(t).trace.trace_id = t.trace.trace_id
  BY <1>2, <1>4 DEF RequestTrace, Trace
<1> QED
  BY <1>4, <1>5, Zenon DEF IdOf, old

(* A trace that ended is the same under another project.                     *)
LEMMA OfProject ==
  ASSUME NEW trace \in Trace, NEW p \in ProjectIds
  PROVE  /\ [trace EXCEPT !.project_id = p] \in Trace
         /\ [trace EXCEPT !.project_id = p].project_id = p
         /\ [trace EXCEPT !.project_id = p].trace_id = trace.trace_id
         /\ [trace EXCEPT !.project_id = p].spans = trace.spans
  BY DEF Trace

Labelled(t, p, u) ==
  /\ u \in RequestTrace /\ u.trace.project_id = p
  /\ u.trace.trace_id = t.trace.trace_id /\ u.trace.spans = t.trace.spans
  /\ u.trace.start = t.trace.start /\ EndSpans(u).trace.spans = EndSpans(t).trace.spans

LEMMA TracedOfProject ==
  ASSUME NEW t \in RequestTrace, NEW p \in ProjectIds, NEW u, u = EndedFor(t, p)
  PROVE  Labelled(t, p, u)
<1>1. /\ u \in RequestTrace /\ u.trace.project_id = p
      /\ u.trace.trace_id = t.trace.trace_id /\ u.trace.spans = t.trace.spans
      /\ u.trace.start = t.trace.start
  BY DEF EndedFor, RequestTrace, Trace
<1> DEFINE Ended(spans) == [i \in DOMAIN spans |-> [spans[i] EXCEPT !.ended = TRUE]]
<1>2. ASSUME NEW x \in RequestTrace
      PROVE  EndSpans(x).trace.spans = Ended(x.trace.spans)
  <2> DEFINE spans == [i \in DOMAIN x.trace.spans |-> [x.trace.spans[i] EXCEPT !.ended = TRUE]]
  <2>1. EndSpans(x) = [x EXCEPT !.trace.spans = spans]
    BY DEF EndSpans
  <2> HIDE DEF spans
  <2>2. EndSpans(x).trace.spans = spans
    BY <2>1 DEF RequestTrace, Trace
  <2> QED
    BY <2>2 DEF spans
<1> HIDE DEF Ended
<1>3. EndSpans(u).trace.spans = Ended(u.trace.spans) /\ EndSpans(t).trace.spans = Ended(t.trace.spans)
  BY <1>1, <1>2
<1> QED
  BY <1>1, <1>3, Zenon DEF Labelled

-----------------------------------------------------------------------------
(* Batches that come from others: each trace of new is the one at its place  *)
(* in old, but for the project, or the extra one at the end of the last      *)
(* batch.                                                                    *)
Alike(x, y) == x \in Trace /\ x.trace_id = y.trace_id /\ x.spans = y.spans
ComeFrom(new, old, extra) ==
  \A i \in DOMAIN new : \A k \in DOMAIN new[i] :
    \/ i \in DOMAIN old /\ k \in DOMAIN old[i] /\ Alike(new[i][k], old[i][k])
    \/ i = Len(old) /\ k = Len(old[i]) + 1 /\ \E x \in extra : Alike(new[i][k], x)
Keep(new, old) ==
  \A i \in DOMAIN old : \A k \in DOMAIN old[i] :
    i \in DOMAIN new /\ k \in DOMAIN new[i] /\ Alike(new[i][k], old[i][k])

LEMMA AlikeIds == ASSUME NEW x, NEW y, Alike(x, y) PROVE IdOf(x) = IdOf(y)
  BY Zenon DEF Alike, IdOf

LEMMA OnceMore ==
  ASSUME NEW old, NEW new, NEW x, ComeFrom(new, old, {x}), SentOnce(old),
         \A i \in DOMAIN old : \A k \in DOMAIN old[i] : IdOf(old[i][k]) # IdOf(x)
  PROVE  SentOnce(new)
<1> SUFFICES ASSUME NEW i \in DOMAIN new, NEW j \in DOMAIN new, NEW k \in DOMAIN new[i],
                    NEW l \in DOMAIN new[j], IdOf(new[i][k]) = IdOf(new[j][l])
             PROVE  i = j /\ k = l
  BY Zenon DEF SentOnce
<1>1. ASSUME NEW m \in DOMAIN new, NEW n \in DOMAIN new[m]
      PROVE  \/ m \in DOMAIN old /\ n \in DOMAIN old[m] /\ IdOf(new[m][n]) = IdOf(old[m][n])
             \/ m = Len(old) /\ n = Len(old[m]) + 1 /\ IdOf(new[m][n]) = IdOf(x)
  <2>1. \/ m \in DOMAIN old /\ n \in DOMAIN old[m] /\ Alike(new[m][n], old[m][n])
        \/ m = Len(old) /\ n = Len(old[m]) + 1 /\ Alike(new[m][n], x)
    BY <1>1, Zenon DEF ComeFrom
  <2> QED
    BY <2>1, AlikeIds, Zenon
<1>2. CASE i \in DOMAIN old /\ k \in DOMAIN old[i] /\ IdOf(new[i][k]) = IdOf(old[i][k])
  <2>1. CASE j \in DOMAIN old /\ l \in DOMAIN old[j] /\ IdOf(new[j][l]) = IdOf(old[j][l])
    <3>1. IdOf(old[i][k]) = IdOf(old[j][l]) => i = j /\ k = l
      BY <1>2, <2>1 DEF SentOnce
    <3> QED
      BY <1>2, <2>1, <3>1, Zenon
  <2>2. CASE IdOf(new[j][l]) = IdOf(x)
    BY <1>2, <2>2, Zenon
  <2> QED
    BY <1>1, <2>1, <2>2, Zenon
<1>3. CASE i = Len(old) /\ k = Len(old[i]) + 1 /\ IdOf(new[i][k]) = IdOf(x)
  <2>1. CASE j \in DOMAIN old /\ l \in DOMAIN old[j] /\ IdOf(new[j][l]) = IdOf(old[j][l])
    BY <1>3, <2>1, Zenon
  <2>2. CASE j = Len(old) /\ l = Len(old[j]) + 1
    BY <1>3, <2>2, Zenon
  <2> QED
    BY <1>1, <2>1, <2>2, Zenon
<1> QED
  BY <1>1, <1>2, <1>3, Zenon

LEMMA StillOnce ==
  ASSUME NEW old, NEW new, ComeFrom(new, old, {}), SentOnce(old)
  PROVE  SentOnce(new)
<1> SUFFICES ASSUME NEW i \in DOMAIN new, NEW j \in DOMAIN new, NEW k \in DOMAIN new[i],
                    NEW l \in DOMAIN new[j], IdOf(new[i][k]) = IdOf(new[j][l])
             PROVE  i = j /\ k = l
  BY Zenon DEF SentOnce
<1>1. ASSUME NEW m \in DOMAIN new, NEW n \in DOMAIN new[m]
      PROVE  m \in DOMAIN old /\ n \in DOMAIN old[m] /\ IdOf(new[m][n]) = IdOf(old[m][n])
  BY <1>1, AlikeIds, Zenon DEF ComeFrom
<1>2. /\ i \in DOMAIN old /\ k \in DOMAIN old[i] /\ IdOf(new[i][k]) = IdOf(old[i][k])
      /\ j \in DOMAIN old /\ l \in DOMAIN old[j] /\ IdOf(new[j][l]) = IdOf(old[j][l])
  BY <1>1, Zenon
<1>3. IdOf(old[i][k]) = IdOf(old[j][l]) => i = j /\ k = l
  BY <1>2 DEF SentOnce
<1> QED
  BY <1>2, <1>3, Zenon

LEMMA ComeFromThrough ==
  ASSUME NEW old, NEW mid, NEW new, NEW extra, ComeFrom(mid, old, extra), ComeFrom(new, mid, {})
  PROVE  ComeFrom(new, old, extra)
<1>1. \A x, y, z : Alike(x, y) /\ Alike(y, z) => Alike(x, z)
  BY Zenon DEF Alike
<1>2. ASSUME NEW i \in DOMAIN new, NEW k \in DOMAIN new[i]
      PROVE  \/ i \in DOMAIN old /\ k \in DOMAIN old[i] /\ Alike(new[i][k], old[i][k])
             \/ i = Len(old) /\ k = Len(old[i]) + 1 /\ \E x \in extra : Alike(new[i][k], x)
  <2>1. i \in DOMAIN mid /\ k \in DOMAIN mid[i] /\ Alike(new[i][k], mid[i][k])
    BY <1>2, Zenon DEF ComeFrom
  <2>2. \/ i \in DOMAIN old /\ k \in DOMAIN old[i] /\ Alike(mid[i][k], old[i][k])
        \/ i = Len(old) /\ k = Len(old[i]) + 1 /\ \E x \in extra : Alike(mid[i][k], x)
    BY <2>1, Zenon DEF ComeFrom
  <2> QED
    BY <1>1, <2>1, <2>2, Zenon
<1> QED
  BY <1>2, Zenon DEF ComeFrom

LEMMA KeepThrough ==
  ASSUME NEW old, NEW mid, NEW new, Keep(mid, old), Keep(new, mid)
  PROVE  Keep(new, old)
<1>1. \A x, y, z : Alike(x, y) /\ Alike(y, z) => Alike(x, z)
  BY Zenon DEF Alike
<1> QED
  BY <1>1, Zenon DEF Keep

LEMMA KeptOn ==
  ASSUME NEW old, NEW new, Keep(new, old), NEW t, Kept(old, t)
  PROVE  Kept(new, t)
<1>0. PICK i \in DOMAIN old : \E k \in DOMAIN old[i] : SameTrace(old[i][k], t)
  BY Zenon DEF Kept
<1>1. PICK k \in DOMAIN old[i] : SameTrace(old[i][k], t)
  BY <1>0
<1>2. i \in DOMAIN new /\ k \in DOMAIN new[i] /\ Alike(new[i][k], old[i][k])
  BY Zenon DEF Keep
<1>3. SameTrace(new[i][k], t)
  BY <1>1, <1>2, Zenon DEF SameTrace, Alike
<1> QED
  BY <1>2, <1>3, Zenon DEF Kept

(* What is in the batches, the last of which waits.                          *)
LEMMA BatchesIs ==
  ASSUME NEW a \in AggregatorState
  PROVE  /\ a.sent \in Seq(Seq(Trace)) /\ a.traces \in Seq(Trace) /\ Len(a.sent) \in Nat
         /\ Len(Batches(a)) = Len(a.sent) + 1 /\ DOMAIN Batches(a) = 1..(Len(a.sent) + 1)
         /\ \A i \in 1..Len(a.sent) : Batches(a)[i] = a.sent[i] /\ a.sent[i] \in Seq(Trace)
         /\ Batches(a)[Len(a.sent) + 1] = a.traces
<1>1. a.sent \in Seq(Seq(Trace)) /\ a.traces \in Seq(Trace)
  BY DEF AggregatorState
<1> QED
  BY <1>1 DEF Batches

LEMMA AlikeItself == ASSUME NEW x \in Trace PROVE Alike(x, x)
  BY Zenon DEF Alike

(* SendAndClearTraces: the traces that wait become a batch, or are dropped   *)
(* if there is no project.                                                   *)
Sends(a, b) ==
  /\ b \in AggregatorState /\ b.traces = <<>> /\ b.project_id = a.project_id
  /\ b.sampler = a.sampler /\ b.cache_max_size = a.cache_max_size
  /\ ComeFrom(Batches(b), Batches(a), {})
  /\ a.traces = <<>> \/ a.project_id # "" => Keep(Batches(b), Batches(a))
  /\ \A i \in DOMAIN b.sent :
       \/ i \in DOMAIN a.sent /\ b.sent[i] = a.sent[i]
       \/ /\ Len(b.sent[i]) = Len(a.traces) /\ a.traces # <<>>
          /\ \A j \in DOMAIN b.sent[i] : b.sent[i][j].project_id # ""

LEMMA SendIs ==
  ASSUME NEW a \in AggregatorState, NEW b, b = SendAndClearTraces(a)
  PROVE  Sends(a, b)
<1> DEFINE batch == [i \in DOMAIN a.traces |-> [a.traces[i] EXCEPT !.project_id = a.project_id]]
           none == a.traces = <<>> \/ a.project_id = ""
           sent == IF none THEN a.sent ELSE Append(a.sent, batch)
           n == Len(a.sent)
<1>1. /\ a.sent \in Seq(Seq(Trace)) /\ a.traces \in Seq(Trace) /\ n \in Nat
      /\ Len(Batches(a)) = n + 1 /\ DOMAIN Batches(a) = 1..(n + 1)
      /\ \A i \in 1..n : Batches(a)[i] = a.sent[i] /\ a.sent[i] \in Seq(Trace)
      /\ Batches(a)[n + 1] = a.traces
  BY BatchesIs
<1>2. a.project_id \in ProjectIds
  BY DEF AggregatorState
<1>3. b = [a EXCEPT !.sent = sent, !.traces = <<>>]
  BY Zenon DEF SendAndClearTraces
<1>4. DOMAIN a.traces = 1..Len(a.traces) /\ Len(a.traces) \in Nat /\ DOMAIN a.sent = 1..n
  BY <1>1
<1>5. \A i \in 1..Len(a.traces) :
        /\ Alike(batch[i], a.traces[i]) /\ batch[i] \in Trace /\ batch[i].project_id = a.project_id
  <2> SUFFICES ASSUME NEW i \in 1..Len(a.traces)
               PROVE  /\ Alike(batch[i], a.traces[i]) /\ batch[i] \in Trace
                      /\ batch[i].project_id = a.project_id
    OBVIOUS
  <2>1. a.traces[i] \in Trace
    BY <1>1
  <2>2. batch[i] = [a.traces[i] EXCEPT !.project_id = a.project_id]
    BY <1>4
  <2> DEFINE y == a.traces[i]
             p == a.project_id
             z == [y EXCEPT !.project_id = p]
  <2> HIDE DEF batch, y, p
  <2>3. z \in Trace /\ z.project_id = p /\ z.trace_id = y.trace_id /\ z.spans = y.spans
    BY <1>2, <2>1, OfProject DEF y, p
  <2>4. batch[i] = z
    BY <2>2, Zenon DEF y, p
  <2> HIDE DEF z
  <2> QED
    BY <2>3, <2>4, Zenon DEF Alike, y, p
<1>6. batch \in [1..Len(a.traces) -> Trace]
  BY <1>4, <1>5
<1>7. batch \in Seq(Trace) /\ Len(batch) = Len(a.traces) /\ DOMAIN batch = 1..Len(a.traces)
  BY <1>4, <1>6
<1> HIDE DEF batch, none
<1>8. sent \in Seq(Seq(Trace))
  <2>1. Append(a.sent, batch) \in Seq(Seq(Trace))
    BY <1>1, <1>7
  <2> QED
    BY <1>1, <2>1
<1> HIDE DEF sent
<1> DEFINE empty == <<>>
           c == [a EXCEPT !.sent = sent, !.traces = empty]
<1>9. b = c
  BY <1>3, Zenon
<1>10. empty \in Seq(Trace)
  OBVIOUS
<1> HIDE DEF empty
<1>11. c \in AggregatorState
  BY <1>8, <1>10 DEF AggregatorState
<1>12. c.sent = sent /\ c.traces = empty
  BY DEF AggregatorState
<1>13. c.project_id = a.project_id /\ c.sampler = a.sampler /\ c.cache_max_size = a.cache_max_size
  BY DEF AggregatorState
<1> HIDE DEF c
<1>14. b \in AggregatorState /\ b.sent = sent /\ b.traces = <<>>
  BY <1>9, <1>11, <1>12, Zenon DEF empty
<1>15. b.project_id = a.project_id /\ b.sampler = a.sampler /\ b.cache_max_size = a.cache_max_size
  BY <1>9, <1>13, Zenon
<1> HIDE DEF n
<1>16. /\ DOMAIN Batches(b) = 1..(Len(sent) + 1) /\ Len(sent) \in Nat
       /\ \A i \in 1..Len(sent) : Batches(b)[i] = sent[i]
       /\ Batches(b)[Len(sent) + 1] = <<>>
  BY <1>14, BatchesIs
<1>17. CASE none
  <2>1. sent = a.sent /\ Len(sent) = n
    BY <1>17 DEF sent, n
  <2>2. \A i \in 1..n : Batches(b)[i] = Batches(a)[i]
    BY <1>1, <1>16, <2>1
  <2>3. \A i \in 1..n : \A k \in DOMAIN a.sent[i] : a.sent[i][k] \in Trace
    BY <1>1
  <2>4. \A i \in 1..n : \A k \in DOMAIN Batches(a)[i] : Alike(Batches(b)[i][k], Batches(a)[i][k])
    BY <1>1, <2>2, <2>3, AlikeItself
  <2>5. DOMAIN Batches(b)[n + 1] = {}
    BY <1>16, <2>1
  <2>6. \A i \in 1..(n + 1) : i \in 1..n \/ i = n + 1
    BY <1>1
  <2>7. ComeFrom(Batches(b), Batches(a), {})
    BY <1>1, <1>16, <2>1, <2>2, <2>4, <2>5, <2>6 DEF ComeFrom
  <2>8. a.traces = <<>> => Keep(Batches(b), Batches(a))
    <3>1. ASSUME a.traces = <<>> PROVE DOMAIN Batches(a)[n + 1] = {}
      BY <1>1, <3>1
    <3> QED
      BY <1>1, <1>16, <2>1, <2>2, <2>4, <2>6, <3>1 DEF Keep
  <2>9. \A i \in DOMAIN b.sent : i \in DOMAIN a.sent /\ b.sent[i] = a.sent[i]
    BY <1>14, <2>1, Zenon
  <2> QED
    BY <1>14, <1>15, <1>17, <2>7, <2>8, <2>9, Zenon DEF none, Sends
<1>18. CASE ~none
  <2>1. sent = Append(a.sent, batch)
    BY <1>18 DEF sent
  <2>2. /\ Len(sent) = n + 1 /\ DOMAIN sent = 1..(n + 1) /\ sent[n + 1] = batch
        /\ \A i \in 1..n : sent[i] = a.sent[i]
    BY <1>1, <1>7, <2>1 DEF n
  <2>3. \A i \in 1..(n + 1) : i \in 1..n \/ i = n + 1
    BY <1>1
  <2>4. ASSUME NEW i \in 1..(n + 1)
        PROVE  /\ DOMAIN Batches(b)[i] = DOMAIN Batches(a)[i]
               /\ \A k \in DOMAIN Batches(a)[i] : Alike(Batches(b)[i][k], Batches(a)[i][k])
    <3>1. CASE i \in 1..n
      <4>1. Batches(b)[i] = Batches(a)[i]
        BY <1>1, <1>16, <2>2, <3>1
      <4>2. \A k \in DOMAIN a.sent[i] : a.sent[i][k] \in Trace
        BY <1>1, <3>1
      <4> QED
        BY <1>1, <3>1, <4>1, <4>2, AlikeItself
    <3>2. CASE i = n + 1
      <4>1. Batches(b)[i] = batch /\ Batches(a)[i] = a.traces
        BY <1>1, <1>16, <2>2, <3>2
      <4> QED
        BY <1>4, <1>5, <1>7, <4>1
    <3> QED
      BY <2>3, <3>1, <3>2
  <2>5. /\ DOMAIN Batches(b) = 1..((n + 1) + 1) /\ DOMAIN Batches(b)[(n + 1) + 1] = {}
    BY <1>16, <2>2
  <2>6. ComeFrom(Batches(b), Batches(a), {})
    <3>1. \A i \in 1..((n + 1) + 1) : i \in 1..(n + 1) \/ i = (n + 1) + 1
      BY <1>1
    <3> QED
      BY <1>1, <2>4, <2>5, <3>1 DEF ComeFrom
  <2>7. Keep(Batches(b), Batches(a))
    <3>1. \A i \in 1..(n + 1) : i \in 1..((n + 1) + 1)
      BY <1>1
    <3> QED
      BY <1>1, <2>4, <2>5, <3>1 DEF Keep
  <2>8. \A j \in DOMAIN batch : batch[j].project_id # ""
    BY <1>5, <1>7, <1>18 DEF none
  <2>9. \A i \in DOMAIN b.sent :
          \/ i \in DOMAIN a.sent /\ b.sent[i] = a.sent[i]
          \/ /\ Len(b.sent[i]) = Len(a.traces) /\ a.traces # <<>>
             /\ \A j \in DOMAIN b.sent[i] : b.sent[i][j].project_id # ""
    BY <1>4, <1>7, <1>14, <1>18, <2>2, <2>3, <2>8 DEF none
  <2> QED
    BY <1>14, <1>15, <2>6, <2>7, <2>9, Zenon DEF Sends
<1> QED
  BY <1>17, <1>18

(* What was sent stays within the limits of the cache, with its project.     *)
LEMMA SendFits ==
  ASSUME NEW a \in AggregatorState, NEW b, b = SendAndClearTraces(a), Len(a.traces) <= a.cache_max_size + 1,
         SentFits(a)
  PROVE  Fits(b)
<1>1. /\ b.traces = <<>> /\ b.cache_max_size = a.cache_max_size
      /\ \A i \in DOMAIN b.sent :
           \/ i \in DOMAIN a.sent /\ b.sent[i] = a.sent[i]
           \/ /\ Len(b.sent[i]) = Len(a.traces) /\ a.traces # <<>>
              /\ \A j \in DOMAIN b.sent[i] : b.sent[i][j].project_id # ""
  <2>1. Sends(a, b)
    BY SendIs
  <2> QED
    BY <2>1, Zenon DEF Sends
<1>2. a.cache_max_size \in Nat /\ a.traces \in Seq(Trace)
  BY DEF AggregatorState
<1>3. Len(a.traces) \in Nat /\ (a.traces # <<>> => Len(a.traces) # 0)
  BY <1>2
<1>4. Len(b.traces) = 0
  BY <1>1
<1>5. ASSUME NEW i \in DOMAIN b.sent
      PROVE  /\ Len(b.sent[i]) \in 1..(b.cache_max_size + 1)
             /\ \A j \in DOMAIN b.sent[i] : b.sent[i][j].project_id # ""
  <2>1. CASE i \in DOMAIN a.sent /\ b.sent[i] = a.sent[i]
    BY <1>1, <2>1, Zenon DEF SentFits
  <2>2. CASE /\ Len(b.sent[i]) = Len(a.traces) /\ a.traces # <<>>
             /\ \A j \in DOMAIN b.sent[i] : b.sent[i][j].project_id # ""
    <3>1. Len(a.traces) # 0
      BY <1>3, <2>2, Zenon
    <3>2. Len(a.traces) \in 1..(a.cache_max_size + 1)
      BY <1>2, <1>3, <3>1
    <3> QED
      BY <1>1, <2>2, <3>2, Zenon
  <2> QED
    BY <1>1, <2>1, <2>2, Zenon
<1>6. Len(b.traces) <= b.cache_max_size
  <2>1. 0 <= a.cache_max_size
    BY <1>2
  <2> QED
    BY <1>1, <1>4, <2>1, Zenon
<1> QED
  BY <1>5, <1>6, Zenon DEF Fits, SentFits

(* One more trace waits.                                                     *)
Waits(a, x, c) ==
  /\ c \in AggregatorState /\ c.sent = a.sent
  /\ Len(c.traces) = Len(a.traces) + 1 /\ Len(a.traces) \in Nat
  /\ c.project_id = a.project_id /\ c.sampler = a.sampler /\ c.cache_max_size = a.cache_max_size
  /\ ComeFrom(Batches(c), Batches(a), {x}) /\ Keep(Batches(c), Batches(a))
  /\ \E i \in DOMAIN Batches(c) : \E k \in DOMAIN Batches(c)[i] : Batches(c)[i][k] = x

LEMMA WaitIs ==
  ASSUME NEW a \in AggregatorState, NEW x \in Trace, NEW c, c = [a EXCEPT !.traces = Append(@, x)]
  PROVE  Waits(a, x, c)
<1> DEFINE more == Append(a.traces, x)
           d == [a EXCEPT !.traces = more]
           n == Len(a.sent)
           m == Len(a.traces)
<1>1. /\ a.sent \in Seq(Seq(Trace)) /\ a.traces \in Seq(Trace) /\ n \in Nat
      /\ Len(Batches(a)) = n + 1 /\ DOMAIN Batches(a) = 1..(n + 1)
      /\ \A i \in 1..n : Batches(a)[i] = a.sent[i] /\ a.sent[i] \in Seq(Trace)
      /\ Batches(a)[n + 1] = a.traces
  BY BatchesIs
<1>2. /\ more \in Seq(Trace) /\ Len(more) = m + 1 /\ m \in Nat /\ DOMAIN more = 1..(m + 1)
      /\ DOMAIN a.traces = 1..m /\ more[m + 1] = x
  BY <1>1
<1>3. \A k \in 1..m : more[k] = a.traces[k] /\ a.traces[k] \in Trace
  BY <1>1
<1>4. c = d
  BY Zenon
<1> HIDE DEF more
<1>5. d \in AggregatorState
  BY <1>2 DEF AggregatorState
<1>6. /\ d.sent = a.sent /\ d.traces = more /\ d.project_id = a.project_id
      /\ d.sampler = a.sampler /\ d.cache_max_size = a.cache_max_size
  BY DEF AggregatorState
<1> HIDE DEF d
<1>7. /\ c \in AggregatorState /\ c.sent = a.sent /\ c.traces = more /\ c.project_id = a.project_id
      /\ c.sampler = a.sampler /\ c.cache_max_size = a.cache_max_size
  BY <1>4, <1>5, <1>6, Zenon
<1>8. /\ DOMAIN Batches(c) = 1..(n + 1) /\ Batches(c)[n + 1] = more
      /\ \A i \in 1..n : Batches(c)[i] = a.sent[i]
  BY <1>7, BatchesIs
<1>9. \A i \in 1..(n + 1) : i \in 1..n \/ i = n + 1
  BY <1>1
<1>10. \A k \in 1..(m + 1) : k \in 1..m \/ k = m + 1
  BY <1>2
<1> HIDE DEF n, m
<1>11. \A i \in 1..n : \A k \in DOMAIN a.sent[i] : Alike(a.sent[i][k], a.sent[i][k])
  <2>1. \A i \in 1..n : \A k \in DOMAIN a.sent[i] : a.sent[i][k] \in Trace
    BY <1>1
  <2> QED
    BY <2>1, AlikeItself
<1>12. \A k \in 1..m : Alike(more[k], a.traces[k])
  BY <1>3, AlikeItself
<1>13. Alike(x, x)
  BY AlikeItself
<1>14. Len(a.traces) = m
  BY DEF m
<1>15. ComeFrom(Batches(c), Batches(a), {x})
  <2> SUFFICES ASSUME NEW i \in 1..(n + 1), NEW k \in DOMAIN Batches(c)[i]
               PROVE  \/ i \in DOMAIN Batches(a) /\ k \in DOMAIN Batches(a)[i]
                         /\ Alike(Batches(c)[i][k], Batches(a)[i][k])
                      \/ i = Len(Batches(a)) /\ k = Len(Batches(a)[i]) + 1 /\ Alike(Batches(c)[i][k], x)
    BY <1>8 DEF ComeFrom
  <2>1. CASE i \in 1..n
    BY <1>1, <1>8, <1>11, <2>1
  <2>2. CASE i = n + 1
    <3>1. k \in 1..(m + 1)
      BY <1>2, <1>8, <2>2, Zenon
    <3>2. CASE k \in 1..m
      BY <1>1, <1>2, <1>8, <1>12, <2>2, <3>2, Zenon
    <3>3. CASE k = m + 1
      BY <1>1, <1>2, <1>8, <1>13, <1>14, <2>2, <3>3, Zenon
    <3> QED
      BY <1>10, <3>1, <3>2, <3>3, Zenon
  <2> QED
    BY <1>9, <2>1, <2>2, Zenon
<1>16. Keep(Batches(c), Batches(a))
  <2> SUFFICES ASSUME NEW i \in 1..(n + 1), NEW k \in DOMAIN Batches(a)[i]
               PROVE  k \in DOMAIN Batches(c)[i] /\ Alike(Batches(c)[i][k], Batches(a)[i][k])
    BY <1>1, <1>8 DEF Keep
  <2>1. CASE i \in 1..n
    BY <1>1, <1>8, <1>11, <2>1
  <2>2. CASE i = n + 1
    <3>1. k \in 1..m /\ k \in 1..(m + 1)
      BY <1>1, <1>2, <2>2
    <3> QED
      BY <1>1, <1>2, <1>8, <1>12, <2>2, <3>1, Zenon
  <2> QED
    BY <1>9, <2>1, <2>2, Zenon
<1>17. \E i \in DOMAIN Batches(c) : \E k \in DOMAIN Batches(c)[i] : Batches(c)[i][k] = x
  <2>1. n + 1 \in DOMAIN Batches(c)
    BY <1>1, <1>8
  <2>2. m + 1 \in DOMAIN Batches(c)[n + 1] /\ Batches(c)[n + 1][m + 1] = x
    BY <1>2, <1>8
  <2> QED
    BY <2>1, <2>2, Zenon
<1> QED
  BY <1>2, <1>7, <1>14, <1>15, <1>16, <1>17, Zenon DEF Waits

(* AppendTrace: the trace waits, or goes with all that wait once they are    *)
(* too many.                                                                 *)
Appends(a, x, b) ==
  /\ b \in AggregatorState /\ Fits(b) /\ b.project_id = a.project_id /\ b.sampler = a.sampler
  /\ ComeFrom(Batches(b), Batches(a), {x})
  /\ a.project_id # "" =>
       /\ Keep(Batches(b), Batches(a))
       /\ \E i \in DOMAIN Batches(b) : \E k \in DOMAIN Batches(b)[i] : Alike(Batches(b)[i][k], x)

LEMMA AppendIs ==
  ASSUME NEW a \in AggregatorState, Fits(a), NEW x \in Trace, NEW b, b = AppendTrace(a, x)
  PROVE  Appends(a, x, b)
<1> DEFINE c == [a EXCEPT !.traces = Append(@, x)]
<1>1. /\ c \in AggregatorState /\ c.sent = a.sent
      /\ Len(c.traces) = Len(a.traces) + 1 /\ Len(a.traces) \in Nat
      /\ c.project_id = a.project_id /\ c.sampler = a.sampler /\ c.cache_max_size = a.cache_max_size
      /\ ComeFrom(Batches(c), Batches(a), {x}) /\ Keep(Batches(c), Batches(a))
      /\ \E i \in DOMAIN Batches(c) : \E k \in DOMAIN Batches(c)[i] : Batches(c)[i][k] = x
  <2>1. c = [a EXCEPT !.traces = Append(@, x)]
    OBVIOUS
  <2> HIDE DEF c
  <2>2. Waits(a, x, c)
    BY <2>1, WaitIs
  <2> QED
    BY <2>2, Zenon DEF Waits
<1>2. b = IF Len(c.traces) > a.cache_max_size THEN SendAndClearTraces(c) ELSE c
  BY Zenon DEF AppendTrace
<1> HIDE DEF c
<1>3. a.cache_max_size \in Nat
  BY DEF AggregatorState
<1>4. Alike(x, x)
  BY AlikeItself
<1>5. CASE ~(Len(c.traces) > a.cache_max_size)
  <2>1. b = c
    BY <1>2, <1>5
  <2>2. Len(c.traces) <= c.cache_max_size
    BY <1>1, <1>3, <1>5
  <2>3. Fits(c)
    BY <1>1, <2>2, Zenon DEF Fits, SentFits
  <2> QED
    BY <1>1, <1>4, <2>1, <2>3, Zenon DEF Appends
<1>6. CASE Len(c.traces) > a.cache_max_size
  <2>1. b = SendAndClearTraces(c)
    BY <1>2, <1>6, Zenon
  <2>2. /\ b \in AggregatorState /\ b.project_id = c.project_id /\ b.sampler = c.sampler
        /\ ComeFrom(Batches(b), Batches(c), {})
        /\ c.project_id # "" => Keep(Batches(b), Batches(c))
    <3>1. Sends(c, b)
      BY <1>1, <2>1, SendIs
    <3> QED
      BY <3>1, Zenon DEF Sends
  <2>3. Fits(b)
    <3>1. Len(a.traces) <= a.cache_max_size
      BY Zenon DEF Fits
    <3>2. Len(c.traces) <= c.cache_max_size + 1
      BY <1>1, <1>3, <3>1
    <3>3. SentFits(c)
      BY <1>1, Zenon DEF Fits, SentFits
    <3> QED
      BY <1>1, <2>1, <3>2, <3>3, SendFits, Zenon
  <2>4. ComeFrom(Batches(b), Batches(a), {x})
    BY <1>1, <2>2, ComeFromThrough, Zenon
  <2>5. ASSUME a.project_id # ""
        PROVE  /\ Keep(Batches(b), Batches(a))
               /\ \E i \in DOMAIN Batches(b) : \E k \in DOMAIN Batches(b)[i] : Alike(Batches(b)[i][k], x)
    <3>1. Keep(Batches(b), Batches(c))
      BY <1>1, <2>2, <2>5, Zenon
    <3>2. Keep(Batches(b), Batches(a))
      BY <1>1, <3>1, KeepThrough, Zenon
    <3> QED
      BY <1>1, <3>1, <3>2, Zenon DEF Keep
  <2> QED
    BY <1>1, <2>2, <2>3, <2>4, <2>5, Zenon DEF Appends
<1> QED
  BY <1>5, <1>6

-----------------------------------------------------------------------------
(* The parts of TraceInvariant.                                              *)
LEMMA SelectedIsThere ==
  ASSUME WeightInvariant
  PROVE  Select(List, counts_) \in DOMAIN List
<1>1. deployment \in Deployments /\ served = counts_ /\ served \in [DOMAIN List -> Nat]
  BY DEF WeightInvariant
<1>2. /\ Len(List) \in Nat /\ Len(List) # 0 /\ DOMAIN List = 1..Len(List)
      /\ \A i \in 1..Len(List) : List[i].weight \in Nat
  BY <1>1, WeightAssumption DEF List
<1>3. \A i \in 1..Len(List) : List[i].weight \in Nat /\ counts_[i] \in Nat
  BY <1>1, <1>2
<1>4. Least(List, counts_, Len(List), Select(List, counts_))
  BY <1>2, <1>3, SelectsLeast
<1> QED
  BY <1>2, <1>4 DEF Least

LEMMA ProjectsAgree ==
  ASSUME WeightInvariant, NEW i \in DOMAIN List
  PROVE  project_id(i) = project_id(1) /\ project_id(1) \in ProjectIds
<1>1. deployment \in Deployments /\ 1 \in DOMAIN List
  BY WeightAssumption DEF WeightInvariant, List
<1>2. List[i].service.producer_project_id = List[1].service.producer_project_id
  BY <1>1, TraceAssumption, Zenon DEF List
<1>3. deployment.project_id \in ProjectIds
  BY <1>1, Zenon DEF ProjectIds
<1>4. List[1].service.producer_project_id \in ProjectIds
  <2> DEFINE Of(d) == {d.list[j].service.producer_project_id : j \in DOMAIN d.list}
             all == UNION {Of(d) : d \in Deployments}
  <2>1. List[1].service.producer_project_id \in Of(deployment)
    BY <1>1, Zenon DEF List
  <2>2. all \subseteq ProjectIds
    BY Zenon DEF ProjectIds
  <2> HIDE DEF Of
  <2>3. Of(deployment) \subseteq all
    BY <1>1, Zenon
  <2> QED
    BY <2>1, <2>2, <2>3, Zenon
<1> QED
  BY <1>2, <1>3, <1>4, Zenon DEF project_id

LEMMA IdIsNatural ==
  ASSUME NEW x \in Trace, x.spans # <<>>
  PROVE  IdOf(x) \in Nat
<1>1. x.spans \in Seq(Span)
  BY DEF Trace
<1>2. x.spans[1] \in Span
  BY <1>1
<1> QED
  BY <1>2 DEF IdOf, Span

LEMMA SpannedOn ==
  ASSUME NEW x, Spanned(x), ids \in Nat, ids' \in Nat, ids <= ids'
  PROVE  Spanned(x)'
<1>1. x \in Trace /\ x.spans # <<>> /\ IdOf(x) <= ids
  BY Zenon DEF Spanned
<1>2. IdOf(x) \in Nat
  BY <1>1, IdIsNatural
<1>3. IdOf(x) <= ids'
  BY <1>1, <1>2
<1> QED
  BY <1>1, <1>3 DEF Spanned

LEMMA NatLeq == ASSUME NEW n \in Nat PROVE n <= n
  OBVIOUS

LEMMA StartIsNatural ==
  ASSUME NEW t \in RequestTrace
  PROVE  t.trace \in Trace /\ t.trace.start \in Nat
  BY DEF RequestTrace, Trace

(* The sampler: once due, its trace is later than all it remembers.          *)
LEMMA LaterWhenDue ==
  ASSUME now \in Nat, NEW s \in SamplerState, SamplerSound(s), On(s, now), NEW t, t.trace.start = now,
         NEW u \in RequestTrace, Remembered(u, s)
  PROVE  Later(t, u, s)
<1>1. PICK d \in s.duration : \A p \in s.previous : now - p > d
  BY Zenon DEF On
<1>2. s.duration \in SUBSET Nat /\ s.previous \in SUBSET Nat
  BY DEF SamplerState
<1>3. \A e \in s.duration : e = d
  BY Zenon DEF SamplerSound
<1>4. PICK p \in s.previous : u.trace.start <= p
  BY <1>1 DEF Remembered
<1>5. u.trace.start \in Nat
  BY StartIsNatural
<1>6. d \in Nat /\ p \in Nat /\ now - p > d
  BY <1>1, <1>2
<1>7. now - u.trace.start > d
  BY <1>4, <1>5, <1>6
<1> QED
  BY <1>3, <1>7, Zenon DEF Later

Refreshed(s, z) ==
  /\ z \in SamplerState /\ SamplerSound(z) /\ z.duration = s.duration
  /\ z.duration # {} => now \in z.previous

LEMMA RefreshIs ==
  ASSUME now \in Nat, NEW s \in SamplerState, SamplerSound(s)
  PROVE  Refreshed(s, Refresh(s, now))
<1>1. CASE s.duration = {}
  <2>1. Refresh(s, now) = s
    BY <1>1, Zenon DEF Refresh
  <2> QED
    BY <1>1, <2>1, Zenon DEF Refreshed
<1>2. CASE s.duration # {}
  <2> DEFINE z == [s EXCEPT !.previous = {now}]
  <2>1. z \in SamplerState /\ z.duration = s.duration /\ z.previous = {now}
    BY DEF SamplerState
  <2>2. Refresh(s, now) = z
    BY <1>2, Zenon DEF Refresh
  <2> HIDE DEF z
  <2>3. now <= now
    OBVIOUS
  <2>4. SamplerSound(z)
    BY <2>1, <2>3 DEF SamplerSound
  <2> QED
    BY <2>1, <2>2, <2>4 DEF Refreshed
<1> QED
  BY <1>1, <1>2

LEMMA RememberedOn ==
  ASSUME now \in Nat, NEW s \in SamplerState, SamplerSound(s), NEW z, Refreshed(s, z),
         NEW u \in RequestTrace, Remembered(u, s)
  PROVE  Remembered(u, z)
<1> SUFFICES ASSUME z.duration # {} PROVE \E p \in z.previous : u.trace.start <= p
  BY Zenon DEF Remembered
<1>1. s.duration # {} /\ now \in z.previous
  BY Zenon DEF Refreshed
<1>2. PICK p \in s.previous : u.trace.start <= p
  BY <1>1 DEF Remembered
<1>3. p \in Nat /\ p <= now
  BY DEF SamplerState, SamplerSound
<1>4. u.trace.start \in Nat
  BY StartIsNatural
<1>5. u.trace.start <= now
  BY <1>2, <1>3, <1>4
<1> QED
  BY <1>1, <1>5, Zenon

(* A change of a field that no batch is about.                               *)
LEMMA SampledBy ==
  ASSUME NEW a \in AggregatorState, NEW z \in SamplerState
  PROVE  /\ [a EXCEPT !.sampler = z] \in AggregatorState
         /\ [a EXCEPT !.sampler = z].sampler = z
         /\ [a EXCEPT !.sampler = z].project_id = a.project_id
         /\ [a EXCEPT !.sampler = z].traces = a.traces
         /\ [a EXCEPT !.sampler = z].sent = a.sent
         /\ [a EXCEPT !.sampler = z].cache_max_size = a.cache_max_size
  BY DEF AggregatorState

LEMMA TracesOf ==
  ASSUME NEW a \in AggregatorState, NEW p \in ProjectIds
  PROVE  /\ [a EXCEPT !.project_id = p] \in AggregatorState
         /\ [a EXCEPT !.project_id = p].project_id = p
         /\ [a EXCEPT !.project_id = p].sampler = a.sampler
         /\ [a EXCEPT !.project_id = p].traces = a.traces
         /\ [a EXCEPT !.project_id = p].sent = a.sent
         /\ [a EXCEPT !.project_id = p].cache_max_size = a.cache_max_size
  BY DEF AggregatorState

LEMMA SameBatches ==
  ASSUME NEW a, NEW b, b.traces = a.traces, b.sent = a.sent, b.cache_max_size = a.cache_max_size
  PROVE  Batches(b) = Batches(a) /\ (Fits(a) => Fits(b))
  BY Zenon DEF Batches, Fits, SentFits

(* The traces known are those of the requests that ended and of those open.  *)
LEMMA KnownIs ==
  \A t : t \in Known <=> \/ \E n \in DOMAIN traced : t = traced[n]
                         \/ \E c \in call : t \in c.cloud_trace
<1>1. \A t : t \in Range(traced) <=> \E n \in DOMAIN traced : t = traced[n]
  BY Zenon DEF Range
<1>2. \A t : t \in UNION {c.cloud_trace : c \in call} <=> \E c \in call : t \in c.cloud_trace
  BY Zenon
<1> QED
  BY <1>1, <1>2, Zenon DEF Known

LEMMA KnownIsNext ==
  \A t : t \in Known' <=> \/ \E n \in DOMAIN traced' : t = traced'[n]
                          \/ \E c \in call' : t \in c.cloud_trace
<1>1. \A t : t \in Range(traced') <=> \E n \in DOMAIN traced' : t = traced'[n]
  BY Zenon DEF Range
<1>2. \A t : t \in UNION {c.cloud_trace : c \in call'} <=> \E c \in call' : t \in c.cloud_trace
  BY Zenon
<1> QED
  BY <1>1, <1>2, Zenon DEF Known

LEMMA InitTraces == Init => TraceInvariant
<1> SUFFICES ASSUME Init PROVE TraceInvariant
  OBVIOUS
<1> DEFINE config == deployment.tracing
<1>1. /\ deployment \in Deployments /\ call = {} /\ traced = <<>> /\ ids = 0 /\ now = 0
      /\ aggregator = CreateCloudTraceAggregator(config)
  BY DEF Init
<1>2. ids \in Nat /\ now \in Nat /\ traced \in Seq(RequestTrace) /\ DOMAIN traced = {}
  BY <1>1
<1>3. CASE aggregator = {}
  BY <1>1, <1>2, <1>3 DEF TraceInvariant
<1>4. CASE aggregator # {}
  <2> DEFINE empty == <<>>
             s == Sampler(config.duration)
             none == ""
             timer == config.time_millisec # 0
             a == [traces |-> empty, project_id |-> none, sampler |-> s,
                   cache_max_size |-> config.cache_max_size, timer |-> timer, sent |-> empty]
  <2>1. ~config.force_disable /\ aggregator = {a}
    BY <1>1, <1>4, Zenon DEF CreateCloudTraceAggregator
  <2>2. /\ config.cache_max_size \in Nat /\ config.duration \in SUBSET Nat
        /\ \A d, e \in config.duration : d = e
    BY <1>1, <2>1, TraceAssumption
  <2>3. s \in SamplerState /\ s.duration = config.duration /\ s.previous = {}
    BY <2>2 DEF Sampler, SamplerState
  <2>4. empty \in Seq(Trace) /\ empty \in Seq(Seq(Trace)) /\ Len(empty) = 0 /\ DOMAIN empty = {}
    OBVIOUS
  <2>5. none \in ProjectIds /\ timer \in BOOLEAN
    BY Zenon DEF ProjectIds
  <2>6. empty = <<>>
    OBVIOUS
  <2> HIDE DEF empty, s, none, timer, config
  <2>7. /\ a.traces = empty /\ a.sent = empty /\ a.sampler = s
        /\ a.cache_max_size = config.cache_max_size
    OBVIOUS
  <2>8. a \in AggregatorState
    BY <2>2, <2>3, <2>4, <2>5 DEF AggregatorState
  <2> HIDE DEF a
  <2>9. SamplerSound(a.sampler)
    BY <2>2, <2>3, <2>7, Zenon DEF SamplerSound
  <2>10. Fits(a)
    <3>1. 0 <= config.cache_max_size
      BY <2>2
    <3> QED
      BY <2>4, <2>7, <3>1, Zenon DEF Fits, SentFits
  <2>11. \A i \in DOMAIN Batches(a) : DOMAIN Batches(a)[i] = {}
    <3>1. /\ DOMAIN Batches(a) = 1..(Len(a.sent) + 1) /\ Batches(a)[Len(a.sent) + 1] = a.traces
      BY <2>8, BatchesIs
    <3>2. DOMAIN Batches(a) = {1} /\ Batches(a)[1] = a.traces
      BY <2>4, <2>7, <3>1
    <3> QED
      BY <2>4, <2>7, <3>2
  <2>12. BatchesSound(a)
    BY <2>6, <2>7, <2>10, <2>11, Zenon DEF BatchesSound, SentOnce
  <2>13. EndedSound(Batches(a)) /\ StartedSound(Batches(a)) /\ KnownSound(a.sampler)
    <3>1. \A t : t \notin Known
      BY <1>1, <1>2, KnownIs, Zenon
    <3> QED
      BY <1>1, <1>2, <3>1, Zenon DEF EndedSound, StartedSound, KnownSound, InOrder
  <2>14. AggregatorSound(a)
    BY <2>8, <2>9, <2>12, <2>13, Zenon DEF AggregatorSound
  <2> QED
    BY <1>1, <1>2, <2>1, <2>14 DEF TraceInvariant
<1> QED
  BY <1>3, <1>4

(* What stays true of the batches as more ids are drawn.                     *)
LEMMA BatchesSoundOn ==
  ASSUME NEW a, BatchesSound(a), NEW b, b.traces = a.traces, b.sent = a.sent,
         b.cache_max_size = a.cache_max_size, b.project_id = a.project_id,
         UNCHANGED deployment, ids \in Nat, ids' \in Nat, ids <= ids'
  PROVE  BatchesSound(b)'
<1>1. Batches(b) = Batches(a) /\ Fits(b)
  BY SameBatches, Zenon DEF BatchesSound
<1>2. project_id(1)' = project_id(1)
  BY DEF project_id, List
<1>3. \A i \in DOMAIN Batches(a) : \A k \in DOMAIN Batches(a)[i] : Spanned(Batches(a)[i][k])'
  BY SpannedOn, Zenon DEF BatchesSound
<1> QED
  BY <1>1, <1>2, <1>3, Zenon DEF BatchesSound

LEMMA CreateTraceIs ==
  ASSUME deployment \in Deployments, ids \in Nat, now \in Nat, NEW req \in Requests(deployment), NEW s
  PROVE  \E type \in {"GRPC_TRACE_CONTEXT", "CLOUD_TRACE_CONTEXT"} :
           Creates(CreateTrace(req, s), type, s, ids + 1, now)
<1>0. ids + 1 \in Nat
  OBVIOUS
<1>1. /\ \A g, h \in req.grpc_trace : g = h
      /\ \A g, h \in req.cloud_trace : g = h /\ h.items \in Seq(Option)
      /\ \A h \in req.grpc_trace \union req.cloud_trace : h.trace_id \in Int \ Nat /\ h.span_id \in Int
  BY TraceAssumption, Zenon
<1>2. CASE req.grpc_trace # {}
  <2>1. HeaderOk("GRPC_TRACE_CONTEXT", req.grpc_trace)
    BY <1>1 DEF HeaderOk
  <2>2. CreateTrace(req, s) = CreateCloudTrace("GRPC_TRACE_CONTEXT", req.grpc_trace, s, ids + 1, now)
    BY <1>2, Zenon DEF CreateTrace
  <2>3. Creates(CreateTrace(req, s), "GRPC_TRACE_CONTEXT", s, ids + 1, now)
    BY <1>0, <2>1, <2>2, CreateCloudTraceIs, Zenon
  <2> QED
    BY <2>3, Zenon
<1>3. CASE req.grpc_trace = {}
  <2>1. HeaderOk("CLOUD_TRACE_CONTEXT", req.cloud_trace)
    BY <1>1, Zenon DEF HeaderOk
  <2>2. CreateTrace(req, s) = CreateCloudTrace("CLOUD_TRACE_CONTEXT", req.cloud_trace, s, ids + 1, now)
    BY <1>3, Zenon DEF CreateTrace
  <2>3. Creates(CreateTrace(req, s), "CLOUD_TRACE_CONTEXT", s, ids + 1, now)
    BY <1>0, <2>1, <2>2, CreateCloudTraceIs, Zenon
  <2> QED
    BY <2>3, Zenon
<1> QED
  BY <1>2, <1>3

LEMMA StartedOn ==
  ASSUME NEW t, Started(t), ids \in Nat, ids' \in Nat, ids <= ids', now \in Nat, now' \in Nat, now <= now'
  PROVE  Started(t)'
<1>1. t \in RequestTrace /\ Spanned(t.trace) /\ t.trace.start <= now
  BY Zenon DEF Started
<1>2. Spanned(t.trace)'
  BY <1>1, SpannedOn
<1>3. t.trace.start \in Nat
  BY <1>1, StartIsNatural
<1>4. t.trace.start <= now'
  BY <1>1, <1>3
<1> QED
  BY <1>1, <1>2, <1>4, Zenon DEF Started

(* The other requests at hand are left alone.                                *)
LEMMA CallOn ==
  ASSUME NEW c, CallTraced(c), UNCHANGED deployment, ids \in Nat, ids' \in Nat, ids <= ids',
         now \in Nat, now' \in Nat, now <= now'
  PROVE  CallTraced(c)'
<1>1. List' = List
  BY DEF List
<1>2. \A t \in c.cloud_trace : Started(t)'
  BY StartedOn, Zenon DEF CallTraced
<1> QED
  BY <1>1, <1>2, Zenon DEF CallTraced

(* Later goes by when and how a trace started, and in what order.            *)
SameStart(t, u) ==
  /\ IdOf(t.trace) = IdOf(u.trace) /\ t.trace.trace_id = u.trace.trace_id
  /\ t.trace.start = u.trace.start

LEMMA KnownStep ==
  ASSUME NEW s, KnownSound(s), ids \in Nat, ids' \in Nat, ids <= ids', now \in Nat, now' \in Nat, now <= now',
         NEW new, \A t \in Known' : t \in Known \/ t \in new,
         \A t \in new : Started(t)' /\ \E u \in Known : SameStart(t, u)
  PROVE  KnownSound(s)'
<1>1. \A t \in Known' : Started(t)' /\ \E u \in Known : SameStart(t, u)
  <2>1. \A t \in Known : Started(t)'
    BY StartedOn, Zenon DEF KnownSound
  <2>2. \A t : SameStart(t, t)
    BY Zenon DEF SameStart
  <2> QED
    BY <2>1, <2>2, Zenon
<1>2. ASSUME NEW t \in Known' PROVE Remembered(t, s)
  <2>1. PICK u \in Known : SameStart(t, u)
    BY <1>1, Zenon
  <2>2. Remembered(u, s)
    BY <2>1, Zenon DEF KnownSound
  <2> QED
    BY <2>1, <2>2, Zenon DEF Remembered, SameStart
<1>3. ASSUME NEW t \in Known', NEW v \in Known', IdOf(v.trace) < IdOf(t.trace) PROVE Later(t, v, s)
  <2>1. PICK u \in Known : SameStart(t, u)
    BY <1>1, Zenon
  <2>2. PICK w \in Known : SameStart(v, w)
    BY <1>1, Zenon
  <2>3. IdOf(w.trace) < IdOf(u.trace)
    BY <1>3, <2>1, <2>2, Zenon DEF SameStart
  <2>4. Later(u, w, s)
    BY <2>1, <2>2, <2>3, Zenon DEF KnownSound, InOrder
  <2> QED
    BY <2>1, <2>2, <2>4, Zenon DEF Later, AskedFor, SameStart
<1> QED
  BY <1>1, <1>2, <1>3, Zenon DEF KnownSound, InOrder

(* No trace is new.                                                          *)
LEMMA KnownStay ==
  ASSUME NEW s, KnownSound(s), ids \in Nat, ids' \in Nat, ids <= ids', now \in Nat, now' \in Nat, now <= now',
         \A t \in Known' : t \in Known
  PROVE  KnownSound(s)'
<1> DEFINE new == {}
<1>1. /\ \A t \in Known' : t \in Known \/ t \in new
      /\ \A t \in new : Started(t)' /\ \E u \in Known : SameStart(t, u)
  BY Zenon
<1> HIDE DEF new
<1> QED
  BY <1>1, KnownStep, Zenon

(* A request that goes on with its trace keeps the ids apart.                *)
LEMMA StartedStep ==
  ASSUME NEW batches, StartedSound(batches), NEW c \in call, NEW d, GoesOn(c, d),
         \A t \in d.cloud_trace : \E u \in c.cloud_trace : IdOf(t.trace) = IdOf(u.trace)
  PROVE  StartedSound(batches)'
<1>1. \A e \in call' : (e \in call /\ e # c) \/ e = d
  BY Zenon DEF GoesOn
<1>2. ASSUME NEW e \in call', NEW t \in e.cloud_trace
      PROVE  \A i \in DOMAIN batches : \A k \in DOMAIN batches[i] : IdOf(batches[i][k]) # IdOf(t.trace)
  <2>1. CASE e \in call
    BY <2>1, Zenon DEF StartedSound
  <2>2. CASE e = d
    <3>1. PICK u \in c.cloud_trace : IdOf(t.trace) = IdOf(u.trace)
      BY <2>2, Zenon
    <3>2. \A i \in DOMAIN batches : \A k \in DOMAIN batches[i] : IdOf(batches[i][k]) # IdOf(u.trace)
      BY Zenon DEF StartedSound
    <3> QED
      BY <3>1, <3>2
  <2> QED
    BY <1>1, <2>1, <2>2
<1>3. ASSUME NEW e \in call', NEW t \in e.cloud_trace, NEW f \in call', NEW v \in f.cloud_trace,
             IdOf(v.trace) = IdOf(t.trace)
      PROVE  f = e
  <2>1. CASE e \in call /\ f \in call
    BY <1>3, <2>1, Zenon DEF StartedSound
  <2>2. CASE e = d /\ f \in call /\ f # c
    <3>1. PICK u \in c.cloud_trace : IdOf(t.trace) = IdOf(u.trace)
      BY <2>2, Zenon
    <3> QED
      BY <1>3, <2>2, <3>1, Zenon DEF StartedSound
  <2>3. CASE f = d /\ e \in call /\ e # c
    <3>1. PICK u \in c.cloud_trace : IdOf(v.trace) = IdOf(u.trace)
      BY <2>3, Zenon
    <3> QED
      BY <1>3, <2>3, <3>1, Zenon DEF StartedSound
  <2>4. CASE e = d /\ f = d
    BY <2>4, Zenon
  <2> QED
    BY <1>1, <2>1, <2>2, <2>3, <2>4
<1> QED
  BY <1>2, <1>3, Zenon DEF StartedSound

(* A new trace is that of no other request, and one that the sampler started *)
(* is later than all before, whether they have ended or not.                 *)
LEMMA StartSound ==
  ASSUME TraceInvariant, NEW a \in aggregator, NEW type, NEW r,
         Creates(r, type, a.sampler, ids + 1, now), NEW c, c.cloud_trace = r.cloud_trace,
         c.trace_header = {}, c.by \in DOMAIN List, call' = call \union {c},
         UNCHANGED <<deployment, traced, now>>, ids' = ids + Cardinality(r.cloud_trace)
  PROVE  /\ ids' \in Nat /\ ids <= ids' /\ CallTraced(c)'
         /\ r.sampler \in SamplerState /\ SamplerSound(r.sampler)'
         /\ EndedSound(Batches(a))' /\ StartedSound(Batches(a))' /\ KnownSound(r.sampler)'
<1> DEFINE s == a.sampler
           z == r.sampler
<1>1. /\ ids \in Nat /\ now \in Nat /\ traced \in Seq(RequestTrace)
      /\ a \in AggregatorState /\ SamplerSound(s) /\ BatchesSound(a)
      /\ EndedSound(Batches(a)) /\ StartedSound(Batches(a)) /\ KnownSound(s)
  BY Zenon DEF TraceInvariant, AggregatorSound
<1>2. s \in SamplerState /\ now <= now
  BY <1>1 DEF AggregatorState
<1>3. List' = List /\ project_id(1)' = project_id(1)
  BY DEF List, project_id
<1>4. \A u \in Known : u \in RequestTrace /\ Spanned(u.trace) /\ Remembered(u, s)
  BY <1>1, Zenon DEF KnownSound, Started
<1>5. EndedSound(Batches(a))'
  BY <1>1, <1>3, Zenon DEF EndedSound
<1>6. \A t \in Known' : t \in Known \/ t \in c.cloud_trace
  <2>1. \A e \in call' : e \in call \/ e = c
    OBVIOUS
  <2> QED
    BY <2>1, KnownIs, KnownIsNext, Zenon
<1>7. \A e \in call' : e \in call \/ e = c
  OBVIOUS
<1> HIDE DEF s, z
<1>8. CASE r.cloud_trace = {} /\ z = s
  <2>1. ids' = ids + 0
    BY <1>8, FS_EmptySet
  <2>2. ids' = ids /\ ids <= ids
    BY <1>1, <2>1
  <2>3. CallTraced(c)'
    BY <1>3, <1>8, Zenon DEF CallTraced
  <2>4. StartedSound(Batches(a))'
    BY <1>1, <1>7, <1>8, Zenon DEF StartedSound
  <2>5. SamplerSound(s)'
    BY <1>1, Zenon DEF SamplerSound
  <2>6. KnownSound(s)'
    <3>1. \A t \in Known' : t \in Known
      BY <1>6, <1>8
    <3> QED
      BY <1>1, <1>2, <2>2, <3>1, KnownStay, Zenon
  <2> QED
    BY <1>1, <1>2, <1>5, <1>8, <2>2, <2>3, <2>4, <2>5, <2>6, Zenon DEF z
<1>9. ASSUME NEW t, r.cloud_trace = {t}, NewTraceOf(t, type, ids + 1, now),
             AskedFor(t) \/ On(s, now), z = Refresh(s, now)
      PROVE  /\ ids' \in Nat /\ ids <= ids' /\ CallTraced(c)'
             /\ z \in SamplerState /\ SamplerSound(z)'
             /\ EndedSound(Batches(a))' /\ StartedSound(Batches(a))' /\ KnownSound(z)'
  <2>1. ids' = ids + 1
    BY <1>9, FS_Singleton
  <2>2. ids' \in Nat /\ ids <= ids' /\ ids + 1 <= ids'
    BY <1>1, <2>1
  <2>3. /\ t \in RequestTrace /\ t.header_type = type /\ t.trace.project_id = "" /\ t.trace.start = now
        /\ t.trace.spans # <<>> /\ IdOf(t.trace) = ids + 1
        /\ t.options # <<>> /\ (type = "GRPC_TRACE_CONTEXT" => t.options = kDefaultTraceOptions)
    BY <1>9, Zenon DEF NewTraceOf
  <2>4. t.trace \in Trace
    BY <2>3, StartIsNatural, Zenon
  <2>5. Started(t)'
    BY <1>2, <2>2, <2>3, <2>4 DEF Started, Spanned
  <2>6. \A v \in c.cloud_trace : v = t
    BY <1>9
  <2>7. CallTraced(c)'
    <3>1. /\ Started(t)' /\ t.trace.project_id = "" /\ t.options # <<>>
          /\ t.header_type = "GRPC_TRACE_CONTEXT" => t.options = kDefaultTraceOptions
      BY <2>3, <2>5, Zenon
    <3>2. \A h \in c.trace_header : HandedOn(h, t)
      BY Zenon
    <3> QED
      BY <1>3, <2>6, <3>1, <3>2, Zenon DEF CallTraced
  <2>8. Refreshed(s, z)
    BY <1>1, <1>2, <1>9, RefreshIs, Zenon
  <2>9. z \in SamplerState /\ SamplerSound(z) /\ z.duration = s.duration /\ (z.duration # {} => now \in z.previous)
    BY <2>8, Zenon DEF Refreshed
  <2>10. SamplerSound(z)'
    BY <2>9, Zenon DEF SamplerSound
  <2>11. ASSUME NEW x, Spanned(x) PROVE IdOf(x) # IdOf(t.trace) /\ ~(IdOf(t.trace) < IdOf(x))
    <3>1. x \in Trace /\ x.spans # <<>> /\ IdOf(x) <= ids
      BY <2>11, Zenon DEF Spanned
    <3>2. IdOf(x) \in Nat
      BY <3>1, IdIsNatural
    <3>3. IdOf(x) # ids + 1 /\ ~(ids + 1 < IdOf(x))
      BY <1>1, <3>1, <3>2
    <3> QED
      BY <2>3, <3>3
  <2>12. StartedSound(Batches(a))'
    <3>1. \A i \in DOMAIN Batches(a) : \A k \in DOMAIN Batches(a)[i] : IdOf(Batches(a)[i][k]) # IdOf(t.trace)
      BY <1>1, <2>11, Zenon DEF BatchesSound
    <3>2. \A e \in call : \A v \in e.cloud_trace : IdOf(v.trace) # IdOf(t.trace)
      BY <1>4, <2>11, KnownIs, Zenon
    <3> QED
      BY <1>1, <1>7, <2>6, <3>1, <3>2, Zenon DEF StartedSound
  <2>13. \A u \in Known : Remembered(u, z) /\ Later(t, u, z)
    <3>1. \A u \in Known : Remembered(u, z)
      BY <1>1, <1>2, <1>4, <2>8, RememberedOn, Zenon
    <3>2. CASE AskedFor(t)
      BY <3>1, <3>2, Zenon DEF Later
    <3>3. CASE On(s, now)
      <4>1. \A u \in Known : Later(t, u, s)
        BY <1>1, <1>2, <1>4, <2>3, <3>3, LaterWhenDue, Zenon
      <4> QED
        BY <2>9, <3>1, <4>1, Zenon DEF Later
    <3> QED
      BY <1>9, <3>2, <3>3
  <2>14. Remembered(t, z)
    BY <1>2, <2>3, <2>9, Zenon DEF Remembered
  <2>15. \A u \in Known' : u \in Known \/ u = t
    BY <1>6, <2>6, Zenon
  <2>16. ~(IdOf(t.trace) < IdOf(t.trace))
    <3>1. IdOf(t.trace) = ids + 1 /\ ids \in Nat
      BY <1>1, <2>3, Zenon
    <3> QED
      BY <3>1
  <2>17. ASSUME NEW u \in Known', NEW v \in Known', IdOf(v.trace) < IdOf(u.trace) PROVE Later(u, v, z)
    <3>1. CASE u \in Known /\ v \in Known
      <4>1. Later(u, v, s)
        BY <1>1, <2>17, <3>1, Zenon DEF KnownSound, InOrder
      <4> QED
        BY <2>9, <4>1, Zenon DEF Later
    <3>2. CASE u = t /\ v \in Known
      BY <2>13, <3>2, Zenon
    <3>3. v # t
      <4>1. CASE u = t
        BY <2>16, <2>17, <4>1, Zenon
      <4>2. CASE u \in Known
        BY <1>4, <2>11, <2>17, <4>2, Zenon
      <4> QED
        BY <2>15, <4>1, <4>2
    <3> QED
      BY <2>15, <3>1, <3>2, <3>3, Zenon
  <2>18. \A u \in Known' : Started(u)' /\ Remembered(u, z)
    <3>1. \A u \in Known : Started(u)'
      BY <1>1, <1>2, <2>2, StartedOn, Zenon DEF KnownSound
    <3> QED
      BY <2>5, <2>13, <2>14, <2>15, <3>1, Zenon
  <2>19. KnownSound(z)'
    BY <2>17, <2>18, Zenon DEF KnownSound, InOrder
  <2> QED
    BY <1>5, <2>2, <2>7, <2>9, <2>10, <2>12, <2>19, Zenon
<1> QED
  BY <1>8, <1>9, Zenon DEF Creates, s, z

LEMMA OneAggregator ==
  ASSUME TraceInvariant, NEW a \in aggregator
  PROVE  aggregator = {a}
<1>1. \A b \in aggregator : b = a
  BY Zenon DEF TraceInvariant
<1> QED
  BY <1>1

(* CreateRequestHandler                                                      *)
LEMMA CreateTraces ==
  ASSUME WeightInvariant, TraceInvariant, NEW req \in Requests(deployment), CreateRequestHandler(req)
  PROVE  TraceInvariant'
<1> DEFINE Start(a) == CreateTrace(req, a.sampler)
           started == {Start(a) : a \in aggregator}
           all == UNION {x.cloud_trace : x \in started}
<1>1. /\ UNCHANGED <<deployment, traced, now>> /\ ids' = ids + Cardinality(all)
      /\ aggregator' = {[a EXCEPT !.sampler = Start(a).sampler] : a \in aggregator}
  BY Zenon DEF CreateRequestHandler
<1>2. \E c : /\ call' = call \union {c} /\ c.by = Select(List, counts_)
             /\ c.cloud_trace = all /\ c.trace_header = {}
  <2> DEFINE Context(i) == RequestContext(Min(FreeSlots), req, i, MethodCall(configs[i], req),
                                          WithoutUserInfo(req.headers), "check", all, {})
  <2>1. \E i \in {Select(List, counts_)} : call' = call \union {Context(i)}
    BY Zenon DEF CreateRequestHandler
  <2> HIDE DEF all
  <2>2. PICK i \in {Select(List, counts_)} : call' = call \union {Context(i)}
    BY <2>1
  <2>3. Context(i).by = i /\ Context(i).cloud_trace = all /\ Context(i).trace_header = {}
    BY DEF RequestContext
  <2> HIDE DEF Context
  <2> QED
    BY <2>2, <2>3, Zenon
<1>3. PICK c : /\ call' = call \union {c} /\ c.by = Select(List, counts_)
               /\ c.cloud_trace = all /\ c.trace_header = {}
  BY <1>2, Zenon
<1>4. c.by \in DOMAIN List /\ List' = List
  BY <1>1, <1>3, SelectedIsThere DEF List
<1>5. /\ ids \in Nat /\ now \in Nat /\ traced \in Seq(RequestTrace) /\ now <= now
  BY DEF TraceInvariant
<1>6. ASSUME ids' \in Nat, ids <= ids', CallTraced(c)' PROVE \A d \in call' : CallTraced(d)'
  <2>1. \A d \in call' : d \in call \/ d = c
    BY <1>3
  <2>2. \A d \in call : CallTraced(d)'
    BY <1>1, <1>5, <1>6, CallOn, Zenon DEF TraceInvariant
  <2> QED
    BY <1>6, <2>1, <2>2, Zenon
<1>7. CASE aggregator = {}
  <2>1. all = {} /\ aggregator' = {}
    BY <1>1, <1>7
  <2>2. ids' = ids + 0
    BY <1>1, <2>1, FS_EmptySet
  <2>3. ids' \in Nat /\ ids <= ids'
    BY <1>5, <2>2
  <2>4. CallTraced(c)'
    BY <1>3, <1>4, <2>1, Zenon DEF CallTraced
  <2>5. \A d \in call' : CallTraced(d)'
    BY <1>6, <2>3, <2>4, Zenon
  <2> QED
    BY <1>1, <1>5, <2>1, <2>3, <2>5, Zenon DEF TraceInvariant
<1>8. ASSUME NEW a \in aggregator PROVE TraceInvariant'
  <2>1. aggregator = {a}
    BY OneAggregator
  <2> HIDE DEF Start
  <2>2. all = Start(a).cloud_trace /\ aggregator' = {[a EXCEPT !.sampler = Start(a).sampler]}
    BY <1>1, <2>1
  <2>3. PICK type \in {"GRPC_TRACE_CONTEXT", "CLOUD_TRACE_CONTEXT"} :
          Creates(Start(a), type, a.sampler, ids + 1, now)
    BY <1>5, CreateTraceIs DEF WeightInvariant, Start
  <2>4. PICK r : r = Start(a)
    OBVIOUS
  <2>5. PICK b : b = [a EXCEPT !.sampler = r.sampler]
    OBVIOUS
  <2> HIDE DEF all
  <2>6. /\ c.cloud_trace = r.cloud_trace /\ ids' = ids + Cardinality(r.cloud_trace) /\ aggregator' = {b}
        /\ Creates(r, type, a.sampler, ids + 1, now)
    BY <1>1, <1>3, <2>2, <2>3, <2>4, <2>5, Zenon
  <2>7. /\ ids' \in Nat /\ ids <= ids' /\ CallTraced(c)'
        /\ r.sampler \in SamplerState /\ SamplerSound(r.sampler)'
        /\ EndedSound(Batches(a))' /\ StartedSound(Batches(a))' /\ KnownSound(r.sampler)'
    BY <1>1, <1>3, <1>4, <2>6, StartSound, Zenon
  <2>8. a \in AggregatorState /\ BatchesSound(a)
    BY Zenon DEF TraceInvariant, AggregatorSound
  <2>9. /\ b \in AggregatorState /\ b.sampler = r.sampler /\ b.project_id = a.project_id
        /\ b.traces = a.traces /\ b.sent = a.sent /\ b.cache_max_size = a.cache_max_size
    BY <2>5, <2>7, <2>8, SampledBy, Zenon
  <2>10. Batches(b) = Batches(a) /\ BatchesSound(b)'
    BY <1>1, <1>5, <2>7, <2>8, <2>9, SameBatches, BatchesSoundOn, Zenon
  <2>11. AggregatorSound(b)'
    BY <2>7, <2>9, <2>10, Zenon DEF AggregatorSound
  <2>12. \A d \in call' : CallTraced(d)'
    BY <1>6, <2>7, Zenon
  <2>13. (\A d, e \in aggregator' : d = e) /\ \A d \in aggregator' : AggregatorSound(d)'
    BY <2>6, <2>11
  <2> QED
    BY <1>1, <1>5, <2>7, <2>12, <2>13, Zenon DEF TraceInvariant
<1> QED
  BY <1>7, <1>8

(* The aggregator is left alone as time passes and ids are drawn.            *)
LEMMA AggregatorOn ==
  ASSUME TraceInvariant, NEW a \in aggregator, UNCHANGED <<deployment, traced>>, ids' \in Nat, ids <= ids',
         now' \in Nat, now <= now', StartedSound(Batches(a))', KnownSound(a.sampler)'
  PROVE  AggregatorSound(a)'
<1>1. /\ ids \in Nat /\ now \in Nat /\ a \in AggregatorState /\ SamplerSound(a.sampler)
      /\ BatchesSound(a) /\ EndedSound(Batches(a))
  BY Zenon DEF TraceInvariant, AggregatorSound
<1>2. a.sampler \in SamplerState
  BY <1>1 DEF AggregatorState
<1> DEFINE s == a.sampler
<1> HIDE DEF s
<1>3. SamplerSound(s)'
  <2>1. \A p \in s.previous : p \in Nat
    BY <1>2 DEF SamplerState, s
  <2>2. \A p \in s.previous : p <= now
    BY <1>1, Zenon DEF SamplerSound, s
  <2>3. \A p \in s.previous : p <= now'
    BY <1>1, <2>1, <2>2
  <2> QED
    BY <1>1, <2>3, Zenon DEF SamplerSound, s
<1>4. BatchesSound(a)'
  BY <1>1, BatchesSoundOn, Zenon
<1>5. project_id(1)' = project_id(1)
  BY DEF project_id, List
<1>6. EndedSound(Batches(a))'
  BY <1>1, <1>5, Zenon DEF EndedSound
<1> QED
  BY <1>1, <1>3, <1>4, <1>6, Zenon DEF AggregatorSound, s

(* A request c goes on as d: the steps that leave the aggregator alone.      *)
LEMMA GoesOnTraces ==
  ASSUME TraceInvariant, UNCHANGED <<deployment, aggregator, traced, now>>, ids' \in Nat, ids <= ids',
         NEW c \in call, NEW d, GoesOn(c, d), CallTraced(d)',
         \A t \in d.cloud_trace : \E u \in c.cloud_trace : SameStart(t, u)
  PROVE  TraceInvariant'
<1>1. /\ ids \in Nat /\ now \in Nat /\ traced \in Seq(RequestTrace) /\ now <= now
      /\ \A a, b \in aggregator : a = b
  BY DEF TraceInvariant
<1>2. \A e \in call' : e \in call \/ e = d
  BY Zenon DEF GoesOn
<1>3. \A e \in call' : CallTraced(e)'
  <2>1. \A e \in call : CallTraced(e)'
    BY <1>1, CallOn, Zenon DEF TraceInvariant
  <2> QED
    BY <1>2, <2>1, Zenon
<1>4. \A t \in Known' : t \in Known \/ t \in d.cloud_trace
  BY <1>2, KnownIs, KnownIsNext, Zenon
<1>5. \A t \in d.cloud_trace : Started(t)' /\ \E u \in Known : SameStart(t, u)
  <2>1. \A t \in d.cloud_trace : Started(t)'
    BY Zenon DEF CallTraced
  <2> QED
    BY <2>1, KnownIs, Zenon
<1>6. ASSUME NEW a \in aggregator PROVE AggregatorSound(a)'
  <2>1. StartedSound(Batches(a)) /\ KnownSound(a.sampler)
    BY Zenon DEF TraceInvariant, AggregatorSound
  <2>2. KnownSound(a.sampler)'
    BY <1>1, <1>4, <1>5, <2>1, KnownStep, Zenon
  <2>3. StartedSound(Batches(a))'
    <3>1. \A t \in d.cloud_trace : \E u \in c.cloud_trace : IdOf(t.trace) = IdOf(u.trace)
      BY Zenon DEF SameStart
    <3> QED
      BY <2>1, <3>1, StartedStep, Zenon
  <2> QED
    BY <1>1, <2>2, <2>3, AggregatorOn, Zenon
<1> QED
  BY <1>1, <1>3, <1>6, Zenon DEF TraceInvariant

LEMMA TickTraces ==
  ASSUME TraceInvariant, Tick
  PROVE  TraceInvariant'
<1>1. now' = now + 1 /\ UNCHANGED <<deployment, call, aggregator, traced, ids>>
  BY Zenon DEF Tick
<1>2. /\ ids \in Nat /\ now \in Nat /\ traced \in Seq(RequestTrace)
      /\ \A a, b \in aggregator : a = b
  BY Zenon DEF TraceInvariant
<1>3. now' \in Nat /\ now <= now' /\ ids' \in Nat /\ ids <= ids'
  BY <1>1, <1>2
<1>4. \A c \in call : CallTraced(c)'
  BY <1>1, <1>2, <1>3, CallOn, Zenon DEF TraceInvariant
<1>5. ASSUME NEW a \in aggregator PROVE AggregatorSound(a)'
  <2>1. StartedSound(Batches(a)) /\ KnownSound(a.sampler)
    BY Zenon DEF TraceInvariant, AggregatorSound
  <2>2. StartedSound(Batches(a))'
    BY <1>1, <2>1, Zenon DEF StartedSound
  <2>3. \A t \in Known' : t \in Known
    BY <1>1, KnownIs, KnownIsNext, Zenon
  <2>4. KnownSound(a.sampler)'
    BY <1>2, <1>3, <2>1, <2>3, KnownStay, Zenon
  <2> QED
    BY <1>1, <1>3, <2>2, <2>4, AggregatorOn, Zenon
<1> QED
  BY <1>1, <1>2, <1>3, <1>4, <1>5, Zenon DEF TraceInvariant

(* The header for the backend names the trace and the span of the call.      *)
LEMMA HeaderIs ==
  ASSUME NEW t \in RequestTrace, t.trace.spans # <<>>, t.options # <<>>,
         t.header_type = "GRPC_TRACE_CONTEXT" => t.options = kDefaultTraceOptions,
         NEW id \in Nat, NEW u, u = CreateSpan(t, id)
  PROVE  HandedOn(ToTraceContextHeader(t, id), u)
<1>1. /\ u.header_type = t.header_type /\ u.trace.trace_id = t.trace.trace_id /\ IdOf(u.trace) = IdOf(t.trace)
      /\ \E i \in DOMAIN u.trace.spans :
           u.trace.spans[i].span_id = id /\ u.trace.spans[i].parent = {IdOf(t.trace)}
  <2>1. WithSpan(t, id, u)
    BY CreateSpanIs
  <2> QED
    BY <2>1, Zenon DEF WithSpan
<1>2. t.header_type = "GRPC_TRACE_CONTEXT" \/ t.header_type = "CLOUD_TRACE_CONTEXT"
  BY DEF RequestTrace
<1> DEFINE options == IF t.header_type = "CLOUD_TRACE_CONTEXT" \/ t.options = kDefaultTraceOptions
                      THEN t.options ELSE <<>>
           h == [header_type |-> t.header_type, trace_id |-> t.trace.trace_id, span_id |-> id,
                 options |-> options]
<1>3. options = t.options
  BY <1>2, Zenon
<1>4. ToTraceContextHeader(t, id) = h
  BY Zenon DEF ToTraceContextHeader
<1> HIDE DEF options
<1>5. h.header_type = t.header_type /\ h.trace_id = t.trace.trace_id /\ h.span_id = id /\ h.options = options
  OBVIOUS
<1> HIDE DEF h
<1>6. HandedOn(h, u)
  BY <1>1, <1>3, <1>5, Zenon DEF HandedOn
<1> QED
  BY <1>4, <1>6, Zenon

(* CheckPassed                                                               *)
LEMMA PassTraces ==
  ASSUME TraceInvariant, NEW c \in call, CheckPassed(c)
  PROVE  TraceInvariant'
<1>0. UNCHANGED <<deployment, aggregator, traced, now>> /\ ids' = ids + Cardinality(c.cloud_trace)
  BY Zenon DEF CheckPassed
<1>1. CallTraced(c)
  BY Zenon DEF TraceInvariant
<1> DEFINE spans == {CreateSpan(t, ids + 1) : t \in c.cloud_trace}
           headers == {ToTraceContextHeader(t, ids + 1) : t \in c.cloud_trace}
           passed == "passed"
           Context(x) == RequestContext(c.slot, c.req, c.by, c.found, x, passed, spans, headers)
<1>2. \E d : GoesOn(c, d) /\ d.by = c.by /\ d.cloud_trace = spans /\ d.trace_header = headers
  <2>1. \E x : GoesOn(c, Context(x))
    BY Zenon DEF CheckPassed
  <2> HIDE DEF spans, headers, passed
  <2>2. PICK x : GoesOn(c, Context(x))
    BY <2>1
  <2>3. Context(x).by = c.by /\ Context(x).cloud_trace = spans /\ Context(x).trace_header = headers
    BY DEF RequestContext
  <2> HIDE DEF Context
  <2> QED
    BY <2>2, <2>3, Zenon
<1>3. PICK d : GoesOn(c, d) /\ d.by = c.by /\ d.cloud_trace = spans /\ d.trace_header = headers
  BY <1>2
<1>4. ids \in Nat /\ now \in Nat /\ now <= now /\ c.by \in DOMAIN List /\ List' = List
  <2>1. ids \in Nat /\ now \in Nat /\ c.by \in DOMAIN List
    BY <1>1, Zenon DEF TraceInvariant, CallTraced
  <2>2. now <= now
    BY <2>1
  <2> QED
    BY <1>0, <2>1, <2>2, Zenon DEF List
<1>5. CASE c.cloud_trace = {}
  <2>1. spans = {} /\ headers = {}
    BY <1>5
  <2>2. ids' = ids + 0
    BY <1>0, <1>5, FS_EmptySet
  <2>3. ids' \in Nat /\ ids <= ids'
    BY <1>4, <2>2
  <2>4. CallTraced(d)'
    BY <1>3, <1>4, <2>1, Zenon DEF CallTraced
  <2>5. \A t \in d.cloud_trace : \E u \in c.cloud_trace : SameStart(t, u)
    BY <1>3, <2>1, Zenon
  <2> QED
    BY <1>0, <1>3, <2>3, <2>4, <2>5, GoesOnTraces, Zenon
<1>6. ASSUME NEW t \in c.cloud_trace PROVE TraceInvariant'
  <2>1. c.cloud_trace = {t}
    <3>1. \A u \in c.cloud_trace : u = t
      BY <1>1, Zenon DEF CallTraced
    <3> QED
      BY <3>1
  <2>2. ids' = ids + 1
    BY <1>0, <2>1, FS_Singleton
  <2>3. ids' \in Nat /\ ids <= ids' /\ ids + 1 \in Nat
    BY <1>4, <2>2
  <2>4. PICK u : u = CreateSpan(t, ids + 1)
    OBVIOUS
  <2>5. PICK h : h = ToTraceContextHeader(t, ids + 1)
    OBVIOUS
  <2>6. spans = {u} /\ headers = {h}
    BY <2>1, <2>4, <2>5
  <2> HIDE DEF spans, headers
  <2>7. /\ Started(t) /\ t.trace.project_id = "" /\ t.options # <<>>
        /\ t.header_type = "GRPC_TRACE_CONTEXT" => t.options = kDefaultTraceOptions
    BY <1>1, Zenon DEF CallTraced
  <2>8. t \in RequestTrace /\ t.trace.spans # <<>>
    BY <2>7, Zenon DEF Started, Spanned
  <2>9. /\ u \in RequestTrace /\ u.options = t.options /\ u.header_type = t.header_type
        /\ u.trace.trace_id = t.trace.trace_id /\ u.trace.project_id = t.trace.project_id
        /\ u.trace.start = t.trace.start /\ u.trace.spans # <<>> /\ IdOf(u.trace) = IdOf(t.trace)
    <3>1. WithSpan(t, ids + 1, u)
      BY <2>3, <2>4, <2>8, CreateSpanIs
    <3> QED
      BY <3>1, Zenon DEF WithSpan
  <2>10. HandedOn(h, u)
    BY <2>3, <2>4, <2>5, <2>7, <2>8, HeaderIs, Zenon
  <2>11. Started(u)'
    <3>1. Started(t)'
      BY <1>0, <1>4, <2>3, <2>7, StartedOn, Zenon
    <3>2. u.trace \in Trace
      BY <2>9, StartIsNatural
    <3> QED
      BY <2>9, <3>1, <3>2, Zenon DEF Started, Spanned
  <2>12. (\A v \in d.cloud_trace : v = u) /\ (\A g \in d.trace_header : g = h)
    BY <1>3, <2>6
  <2>13. CallTraced(d)'
    <3>1. u.trace.project_id = "" /\ u.options # <<>>
          /\ (u.header_type = "GRPC_TRACE_CONTEXT" => u.options = kDefaultTraceOptions)
      BY <2>7, <2>9, Zenon
    <3>2. d.by \in DOMAIN List
      BY <1>3, <1>4, Zenon
    <3> QED
      BY <1>4, <2>10, <2>11, <2>12, <3>1, <3>2, Zenon DEF CallTraced
  <2>14. \A v \in d.cloud_trace : \E w \in c.cloud_trace : SameStart(v, w)
    BY <2>9, <2>12, Zenon DEF SameStart
  <2> QED
    BY <1>0, <1>3, <2>3, <2>13, <2>14, GoesOnTraces, Zenon
<1> QED
  BY <1>5, <1>6

(* Ids and spans come with the traces.                                       *)
AllSpanned(batches) == \A i \in DOMAIN batches : \A k \in DOMAIN batches[i] : Spanned(batches[i][k])
Apart(batches, id) == \A i \in DOMAIN batches : \A k \in DOMAIN batches[i] : IdOf(batches[i][k]) # id

LEMMA AlikeSpanned == ASSUME NEW x, NEW y, Alike(x, y), Spanned(y) PROVE Spanned(x)
  BY AlikeIds, Zenon DEF Alike, Spanned

LEMMA SpannedThrough ==
  ASSUME NEW old, NEW new, ComeFrom(new, old, {}), AllSpanned(old)
  PROVE  AllSpanned(new)
  BY AlikeSpanned, Zenon DEF ComeFrom, AllSpanned

LEMMA OneMoreSpanned ==
  ASSUME NEW old, NEW new, NEW x, ComeFrom(new, old, {x}), AllSpanned(old), Spanned(x)
  PROVE  AllSpanned(new)
<1>1. \A i \in DOMAIN new : \A k \in DOMAIN new[i] :
        \/ i \in DOMAIN old /\ k \in DOMAIN old[i] /\ Alike(new[i][k], old[i][k])
        \/ Alike(new[i][k], x)
  BY Zenon DEF ComeFrom
<1> QED
  BY <1>1, AlikeSpanned, Zenon DEF AllSpanned

LEMMA ApartThrough ==
  ASSUME NEW old, NEW new, ComeFrom(new, old, {}), NEW id, Apart(old, id)
  PROVE  Apart(new, id)
<1>1. \A i \in DOMAIN new : \A k \in DOMAIN new[i] :
        /\ i \in DOMAIN old /\ k \in DOMAIN old[i]
        /\ IdOf(new[i][k]) = IdOf(old[i][k])
  BY AlikeIds, Zenon DEF ComeFrom
<1> QED
  BY <1>1, Zenon DEF Apart

LEMMA ApartFromOneMore ==
  ASSUME NEW old, NEW new, NEW x, ComeFrom(new, old, {x}), NEW id, Apart(old, id), id # IdOf(x)
  PROVE  Apart(new, id)
<1>1. \A i \in DOMAIN new : \A k \in DOMAIN new[i] :
        \/ i \in DOMAIN old /\ k \in DOMAIN old[i] /\ IdOf(new[i][k]) = IdOf(old[i][k])
        \/ IdOf(new[i][k]) = IdOf(x)
  BY AlikeIds, Zenon DEF ComeFrom
<1> QED
  BY <1>1, Zenon DEF Apart

(* The traces that ended stay where they are while a project is known.       *)
LEMMA KeptThrough ==
  ASSUME NEW a, NEW b, EndedSound(Batches(a)), project_id(1) # "" => Keep(Batches(b), Batches(a))
  PROVE  EndedSound(Batches(b))
<1>1. ASSUME NEW n \in DOMAIN traced, traced[n].trace.project_id # "" PROVE Kept(Batches(b), traced[n])
  <2>1. traced[n].trace.project_id \in {"", project_id(1)} /\ Kept(Batches(a), traced[n])
    BY <1>1, Zenon DEF EndedSound
  <2>2. project_id(1) # ""
    BY <1>1, <2>1
  <2> QED
    BY <2>1, <2>2, KeptOn, Zenon
<1> QED
  BY <1>1, Zenon DEF EndedSound

(* AggregatorTimer and Close                                                 *)
LEMMA SendSound ==
  ASSUME NEW a, AggregatorSound(a), NEW b, b = SendAndClearTraces(a)
  PROVE  AggregatorSound(b)
<1>1. /\ a \in AggregatorState /\ SamplerSound(a.sampler) /\ BatchesSound(a)
      /\ EndedSound(Batches(a)) /\ StartedSound(Batches(a)) /\ KnownSound(a.sampler)
  BY Zenon DEF AggregatorSound
<1>2. Sends(a, b)
  BY <1>1, SendIs
<1>3. /\ b \in AggregatorState /\ b.traces = <<>> /\ b.sampler = a.sampler
      /\ ComeFrom(Batches(b), Batches(a), {})
      /\ a.traces = <<>> \/ a.project_id # "" => Keep(Batches(b), Batches(a))
  BY <1>2, Zenon DEF Sends
<1>4. /\ SentOnce(Batches(a)) /\ Fits(a) /\ (a.traces # <<>> => a.project_id = project_id(1))
      /\ AllSpanned(Batches(a))
  BY <1>1, Zenon DEF BatchesSound, AllSpanned
<1>5. Fits(b)
  <2>1. a.cache_max_size \in Nat /\ a.traces \in Seq(Trace)
    BY <1>1 DEF AggregatorState
  <2>2. Len(a.traces) \in Nat
    BY <2>1
  <2>3. Len(a.traces) <= a.cache_max_size /\ SentFits(a)
    BY <1>4, Zenon DEF Fits
  <2>4. Len(a.traces) <= a.cache_max_size + 1
    BY <2>1, <2>2, <2>3
  <2> QED
    BY <1>1, <2>3, <2>4, SendFits, Zenon
<1>6. SentOnce(Batches(b))
  BY <1>3, <1>4, StillOnce, Zenon
<1>7. AllSpanned(Batches(b))
  BY <1>3, <1>4, SpannedThrough, Zenon
<1>8. BatchesSound(b)
  BY <1>3, <1>5, <1>6, <1>7, Zenon DEF BatchesSound, AllSpanned
<1>9. EndedSound(Batches(b))
  <2>1. project_id(1) # "" => Keep(Batches(b), Batches(a))
    BY <1>3, <1>4, Zenon
  <2> QED
    BY <1>1, <2>1, KeptThrough, Zenon
<1>10. StartedSound(Batches(b))
  <2> SUFFICES ASSUME NEW c \in call, NEW t \in c.cloud_trace PROVE Apart(Batches(b), IdOf(t.trace))
    BY <1>1, Zenon DEF StartedSound, Apart
  <2>1. Apart(Batches(a), IdOf(t.trace))
    BY <1>1, Zenon DEF StartedSound, Apart
  <2> QED
    BY <1>3, <2>1, ApartThrough, Zenon
<1> QED
  BY <1>1, <1>3, <1>8, <1>9, <1>10, Zenon DEF AggregatorSound

LEMMA StepSame ==
  ASSUME TraceInvariant, UNCHANGED <<deployment, call, traced, ids, now>>,
         \A b \in aggregator' : AggregatorSound(b), \A b, d \in aggregator' : b = d
  PROVE  TraceInvariant'
<1>1. List' = List /\ project_id(1)' = project_id(1)
  BY DEF List, project_id
<1>2. ASSUME NEW b, AggregatorSound(b) PROVE AggregatorSound(b)'
  <2>1. KnownSound(b.sampler)'
    <3>1. \A t : t \in Known' <=> t \in Known
      BY KnownIs, KnownIsNext, Zenon
    <3>2. KnownSound(b.sampler)
      BY <1>2, Zenon DEF AggregatorSound
    <3> QED
      BY <3>1, <3>2, Zenon DEF KnownSound, InOrder, Started, Spanned
  <2> QED
    BY <1>1, <1>2, <2>1, Zenon DEF AggregatorSound, SamplerSound, BatchesSound, EndedSound, StartedSound, Spanned
<1>3. ASSUME NEW c, CallTraced(c) PROVE CallTraced(c)'
  BY <1>1, <1>3, Zenon DEF CallTraced, Started, Spanned
<1> QED
  BY <1>2, <1>3, Zenon DEF TraceInvariant

LEMMA SendTraces ==
  ASSUME TraceInvariant, AggregatorTimer \/ Close
  PROVE  TraceInvariant'
<1>1. UNCHANGED <<deployment, call, traced, ids, now>>
  BY Zenon DEF AggregatorTimer, Close
<1>2. \A b \in aggregator' : \E a \in aggregator : b = SendAndClearTraces(a)
  <2>1. CASE AggregatorTimer
    BY <2>1 DEF AggregatorTimer
  <2>2. CASE Close
    BY <2>2, Zenon DEF Close
  <2> QED
    BY <2>1, <2>2
<1>3. \A b \in aggregator' : AggregatorSound(b)
  BY <1>2, SendSound, Zenon DEF TraceInvariant
<1>4. \A b, d \in aggregator' : b = d
  BY <1>2, Zenon DEF TraceInvariant
<1> QED
  BY <1>1, <1>3, <1>4, StepSame, Zenon

(* One more trace has ended.                                                 *)
Longer(q, u, r) ==
  /\ r[Len(q) + 1] = u
  /\ \A n \in DOMAIN q : r[n] = q[n]
  /\ \A n \in DOMAIN r : n \in DOMAIN q \/ n = Len(q) + 1
  /\ \A m, n \in DOMAIN r : m < n => m \in DOMAIN q

LEMMA AppendLonger ==
  ASSUME NEW R, NEW q \in Seq(R), NEW u \in R
  PROVE  Append(q, u) \in Seq(R) /\ Longer(q, u, Append(q, u))
<1> DEFINE r == Append(q, u)
           l == Len(q)
<1>1. /\ r \in Seq(R) /\ l \in Nat /\ DOMAIN q = 1..l /\ DOMAIN r = 1..(l + 1) /\ r[l + 1] = u
      /\ \A n \in 1..l : r[n] = q[n]
  OBVIOUS
<1> HIDE DEF r, l
<1>2. /\ \A n \in 1..(l + 1) : n \in 1..l \/ n = l + 1
      /\ \A m, n \in 1..(l + 1) : m < n => m \in 1..l
  BY <1>1
<1>3. Longer(q, u, r)
  BY <1>1, <1>2, Zenon DEF Longer, l
<1> QED
  BY <1>1, <1>3, Zenon DEF r

LEMMA EndedMore ==
  ASSUME NEW batches, EndedSound(batches), UNCHANGED deployment,
         NEW u, Longer(traced, u, traced'), u.trace.project_id \in {"", project_id(1)},
         u.trace.project_id # "" => Kept(batches, u)
  PROVE  EndedSound(batches)'
<1>1. project_id(1)' = project_id(1)
  BY DEF project_id, List
<1>2. /\ traced'[Len(traced) + 1] = u
      /\ \A n \in DOMAIN traced : traced'[n] = traced[n]
      /\ \A n \in DOMAIN traced' : n \in DOMAIN traced \/ n = Len(traced) + 1
  BY Zenon DEF Longer
<1> QED
  BY <1>1, <1>2, Zenon DEF EndedSound

(* The trace of the request that ended joins those that wait, under the      *)
(* project of all.                                                           *)
HandedOver(a, b, u) ==
  /\ b \in AggregatorState /\ b.sampler = a.sampler /\ BatchesSound(b)
  /\ EndedSound(Batches(b)) /\ (u.trace.project_id # "" => Kept(Batches(b), u))
  /\ \A id : Apart(Batches(a), id) /\ id # IdOf(u.trace) => Apart(Batches(b), id)

LEMMA HandOver ==
  ASSUME WeightInvariant, TraceInvariant, NEW c \in call, NEW t \in c.cloud_trace, NEW a \in aggregator,
         NEW p, p = project_id(c.by), NEW b, b = AppendTrace([a EXCEPT !.project_id = p], EndSpans(t).trace),
         NEW u, u = EndedFor(t, p)
  PROVE  HandedOver(a, b, u)
<1>1. /\ a \in AggregatorState /\ BatchesSound(a) /\ EndedSound(Batches(a))
      /\ StartedSound(Batches(a)) /\ CallTraced(c)
  BY Zenon DEF TraceInvariant, AggregatorSound
<1>2. t \in RequestTrace /\ t.trace.spans # <<>> /\ IdOf(t.trace) <= ids /\ c.by \in DOMAIN List
  BY <1>1, Zenon DEF CallTraced, Started, Spanned
<1>3. p = project_id(1) /\ p \in ProjectIds
  BY <1>2, ProjectsAgree, Zenon
<1>4. PICK d : d = [a EXCEPT !.project_id = p]
  OBVIOUS
<1>5. PICK x : x = EndSpans(t).trace
  OBVIOUS
<1>6. /\ d \in AggregatorState /\ d.project_id = p /\ d.sampler = a.sampler
      /\ d.traces = a.traces /\ d.sent = a.sent /\ d.cache_max_size = a.cache_max_size
  BY <1>1, <1>3, <1>4, TracesOf, Zenon
<1>7. Batches(d) = Batches(a) /\ Fits(d)
  BY <1>1, <1>6, SameBatches, Zenon DEF BatchesSound
<1>8. /\ x \in Trace /\ x.spans # <<>> /\ IdOf(x) = IdOf(t.trace) /\ x.trace_id = t.trace.trace_id
  BY <1>2, <1>5, EndSpansIs, Zenon
<1>9. Appends(d, x, b)
  <2>1. b = AppendTrace(d, x)
    BY <1>4, <1>5, Zenon
  <2> QED
    BY <1>6, <1>7, <1>8, <2>1, AppendIs
<1>10. /\ b \in AggregatorState /\ Fits(b) /\ b.project_id = p /\ b.sampler = a.sampler
       /\ ComeFrom(Batches(b), Batches(a), {x})
       /\ p # "" => /\ Keep(Batches(b), Batches(a))
                    /\ \E i \in DOMAIN Batches(b) : \E k \in DOMAIN Batches(b)[i] : Alike(Batches(b)[i][k], x)
  BY <1>6, <1>7, <1>9, Zenon DEF Appends
<1>11. SentOnce(Batches(b))
  <2>1. \A i \in DOMAIN Batches(a) : \A k \in DOMAIN Batches(a)[i] : IdOf(Batches(a)[i][k]) # IdOf(x)
    BY <1>1, <1>8, Zenon DEF StartedSound
  <2>2. SentOnce(Batches(a))
    BY <1>1, Zenon DEF BatchesSound
  <2> QED
    BY <1>10, <2>1, <2>2, OnceMore, Zenon
<1>12. AllSpanned(Batches(b))
  <2>1. Spanned(x)
    BY <1>2, <1>8, Zenon DEF Spanned
  <2>2. AllSpanned(Batches(a))
    BY <1>1, Zenon DEF BatchesSound, AllSpanned
  <2> QED
    BY <1>10, <2>1, <2>2, OneMoreSpanned, Zenon
<1>13. BatchesSound(b)
  BY <1>3, <1>10, <1>11, <1>12, Zenon DEF BatchesSound, AllSpanned
<1>14. EndedSound(Batches(b))
  <2>1. project_id(1) # "" => Keep(Batches(b), Batches(a))
    BY <1>3, <1>10, Zenon
  <2> QED
    BY <1>1, <2>1, KeptThrough, Zenon
<1>15. /\ u.trace.project_id = p /\ u.trace.trace_id = t.trace.trace_id
       /\ EndSpans(u).trace.spans = EndSpans(t).trace.spans /\ u.trace.spans = t.trace.spans
  <2>1. Labelled(t, p, u)
    BY <1>2, <1>3, TracedOfProject
  <2> QED
    BY <2>1, Zenon DEF Labelled
<1>16. u.trace.project_id # "" => Kept(Batches(b), u)
  <2>1. \A y : Alike(y, x) => SameTrace(y, u)
    BY <1>5, <1>8, <1>15, Zenon DEF Alike, SameTrace
  <2> QED
    BY <1>10, <1>15, <2>1, Zenon DEF Kept
<1>17. \A id : Apart(Batches(a), id) /\ id # IdOf(u.trace) => Apart(Batches(b), id)
  <2>1. IdOf(u.trace) = IdOf(x)
    BY <1>8, <1>15, Zenon DEF IdOf
  <2> QED
    BY <1>10, <2>1, ApartFromOneMore, Zenon
<1> QED
  BY <1>10, <1>13, <1>14, <1>16, <1>17, Zenon DEF HandedOver

(* What makes the aggregator sound after the request has ended, and others   *)
(* have not.                                                                 *)
LEMMA EndSound ==
  ASSUME TraceInvariant, NEW c \in call, NEW t \in c.cloud_trace, NEW a \in aggregator,
         NEW p \in {"", project_id(1)}, p \in ProjectIds, NEW u, u = EndedFor(t, p),
         Longer(traced, u, traced'), NEW b, HandedOver(a, b, u),
         UNCHANGED <<deployment, ids, now>>, call' = call \ {c}
  PROVE  AggregatorSound(b)'
<1>1. /\ SamplerSound(a.sampler) /\ CallTraced(c) /\ StartedSound(Batches(a)) /\ KnownSound(a.sampler)
      /\ ids \in Nat /\ now \in Nat
  BY Zenon DEF TraceInvariant, AggregatorSound
<1>2. /\ b \in AggregatorState /\ b.sampler = a.sampler /\ BatchesSound(b)
      /\ EndedSound(Batches(b)) /\ (u.trace.project_id # "" => Kept(Batches(b), u))
      /\ \A id : Apart(Batches(a), id) /\ id # IdOf(u.trace) => Apart(Batches(b), id)
  BY Zenon DEF HandedOver
<1>3. t \in RequestTrace /\ Started(t)
  BY <1>1, Zenon DEF CallTraced, Started
<1>4. /\ u \in RequestTrace /\ u.trace.project_id = p /\ u.trace.trace_id = t.trace.trace_id
      /\ u.trace.spans = t.trace.spans /\ u.trace.start = t.trace.start
  <2>1. Labelled(t, p, u)
    BY <1>3, TracedOfProject
  <2> QED
    BY <2>1, Zenon DEF Labelled
<1>5. SameStart(u, t) /\ IdOf(u.trace) = IdOf(t.trace)
  BY <1>4, Zenon DEF SameStart, IdOf
<1>6. EndedSound(Batches(b))'
  BY <1>4, <1>2, EndedMore, Zenon
<1>7. SamplerSound(a.sampler)'
  BY <1>1, Zenon DEF SamplerSound
<1>8. project_id(1)' = project_id(1)
  BY DEF project_id, List
<1>9. BatchesSound(b)'
  BY <1>8, <1>2, Zenon DEF BatchesSound, Spanned
<1>10. \A e \in call' : e \in call /\ e # c
  OBVIOUS
<1>11. StartedSound(Batches(b))'
  <2>1. ASSUME NEW e \in call', NEW v \in e.cloud_trace PROVE Apart(Batches(b), IdOf(v.trace))
    <3>1. Apart(Batches(a), IdOf(v.trace))
      BY <1>1, <1>10, Zenon DEF StartedSound, Apart
    <3>2. IdOf(v.trace) # IdOf(t.trace)
      BY <1>1, <1>10, Zenon DEF StartedSound
    <3> QED
      BY <1>2, <1>5, <3>1, <3>2, Zenon
  <2> QED
    BY <1>1, <1>10, <2>1, Zenon DEF StartedSound, Apart
<1>12. KnownSound(a.sampler)'
  <2>1. \A n \in DOMAIN traced' : (n \in DOMAIN traced /\ traced'[n] = traced[n]) \/ traced'[n] = u
    BY Zenon DEF Longer
  <2>2. \A v \in Known' : v \in Known \/ v \in {u}
    BY <1>10, <2>1, KnownIs, KnownIsNext, Zenon
  <2>3. u.trace \in Trace
    BY <1>4, StartIsNatural
  <2>4. Started(u)'
    BY <1>3, <1>4, <1>5, <2>3, Zenon DEF Started, Spanned
  <2>5. t \in Known
    BY KnownIs, Zenon
  <2>6. \A v \in {u} : Started(v)' /\ \E w \in Known : SameStart(v, w)
    BY <1>5, <2>4, <2>5
  <2>7. ids' \in Nat /\ ids <= ids' /\ now' \in Nat /\ now <= now'
    <3>1. ids \in Nat /\ now \in Nat
      BY <1>1, Zenon
    <3> QED
      BY <3>1, NatLeq, Zenon
  <2> DEFINE new == {u}
  <2>8. /\ \A v \in Known' : v \in Known \/ v \in new
        /\ \A v \in new : Started(v)' /\ \E w \in Known : SameStart(v, w)
    BY <2>2, <2>6, Zenon
  <2> HIDE DEF new
  <2>9. KnownSound(a.sampler) /\ ids \in Nat /\ now \in Nat
    BY <1>1, Zenon
  <2> QED
    BY <2>7, <2>8, <2>9, KnownStep, Zenon
<1> QED
  BY <1>2, <1>6, <1>7, <1>9, <1>11, <1>12, Zenon DEF AggregatorSound

(* Report                                                                    *)
LEMMA ReportTraces ==
  ASSUME WeightInvariant, TraceInvariant, NEW c \in call, Report(c)
  PROVE  TraceInvariant'
<1>0. call' = call \ {c} /\ UNCHANGED <<deployment, ids, now>>
  BY Zenon DEF Report
<1>1. CallTraced(c)
  BY Zenon DEF TraceInvariant
<1> DEFINE skip == \E f \in c.found : f.method.skip_service_control
<1>3. PICK t : t = CHOOSE x \in c.cloud_trace : TRUE
  OBVIOUS
<1>4. PICK q : q = IF skip THEN "" ELSE project_id(c.by)
  OBVIOUS
<1>5. /\ aggregator' = IF skip \/ c.cloud_trace = {} THEN aggregator
                       ELSE {AppendTrace([a EXCEPT !.project_id = project_id(c.by)], EndSpans(t).trace) :
                               a \in aggregator}
      /\ traced' = IF c.cloud_trace = {} THEN traced ELSE Append(traced, EndedFor(t, q))
  <2>1. aggregator' = IF skip \/ c.cloud_trace = {} THEN aggregator
                      ELSE {AppendTrace([a EXCEPT !.project_id = project_id(c.by)], EndSpans(t).trace) :
                              a \in aggregator}
    BY <1>3, Zenon DEF Report
  <2>2. traced' = IF c.cloud_trace = {} THEN traced ELSE Append(traced, EndedFor(t, q))
    <3> DEFINE label == IF skip THEN "" ELSE project_id(c.by)
               last == CHOOSE x \in c.cloud_trace : TRUE
    <3>1. traced' = IF c.cloud_trace = {} THEN traced ELSE Append(traced, EndedFor(last, label))
      BY Zenon DEF Report
    <3>2. label = q
      BY <1>4, Zenon
    <3>3. last = t
      BY <1>3, Zenon
    <3> HIDE DEF label, last
    <3> QED
      BY <3>1, <3>2, <3>3, Zenon
  <2> QED
    BY <2>1, <2>2, Zenon
<1>6. /\ ids \in Nat /\ now \in Nat /\ traced \in Seq(RequestTrace) /\ c.by \in DOMAIN List
      /\ \A a, b \in aggregator : a = b
  BY <1>1, Zenon DEF TraceInvariant, CallTraced
<1>7. \A e \in call' : e \in call /\ e # c
  BY <1>0
<1> HIDE DEF skip
<1>8. ASSUME traced' \in Seq(RequestTrace), \A a, b \in aggregator' : a = b,
             \A b \in aggregator' : AggregatorSound(b)'
      PROVE  TraceInvariant'
  <2>1. ids <= ids /\ now <= now
    BY <1>6
  <2>2. \A e \in call' : CallTraced(e)'
    BY <1>0, <1>6, <1>7, <2>1, CallOn, Zenon DEF TraceInvariant
  <2> QED
    BY <1>0, <1>6, <1>8, <2>2, Zenon DEF TraceInvariant
<1>9. CASE c.cloud_trace = {}
  <2>1. UNCHANGED <<aggregator, traced>>
    BY <1>5, <1>9
  <2>2. ids <= ids /\ now <= now
    BY <1>6
  <2>3. ASSUME NEW a \in aggregator PROVE AggregatorSound(a)'
    <3>1. StartedSound(Batches(a)) /\ KnownSound(a.sampler)
      BY Zenon DEF TraceInvariant, AggregatorSound
    <3>2. StartedSound(Batches(a))'
      BY <1>7, <3>1, Zenon DEF StartedSound
    <3>3. \A v \in Known' : v \in Known
      BY <1>7, <2>1, KnownIs, KnownIsNext, Zenon
    <3>4. KnownSound(a.sampler)'
      BY <1>0, <1>6, <2>2, <3>1, <3>3, KnownStay, Zenon
    <3> QED
      BY <1>0, <1>6, <2>1, <2>2, <3>2, <3>4, AggregatorOn, Zenon
  <2> QED
    BY <1>6, <1>8, <2>1, <2>3, Zenon
<1>10. ASSUME c.cloud_trace # {} PROVE TraceInvariant'
  <2>1. t \in c.cloud_trace
    BY <1>3, <1>10, Zenon
  <2>2. project_id(c.by) = project_id(1) /\ project_id(1) \in ProjectIds
    BY <1>6, ProjectsAgree, Zenon
  <2>3. q \in {"", project_id(1)} /\ q \in ProjectIds
    <3>1. "" \in ProjectIds
      BY Zenon DEF ProjectIds
    <3> QED
      BY <1>4, <2>2, <3>1
  <2>4. PICK u : u = EndedFor(t, q)
    OBVIOUS
  <2>5. t \in RequestTrace
    BY <1>1, <2>1, Zenon DEF CallTraced, Started
  <2>6. u \in RequestTrace /\ u.trace.project_id = q
    <3>1. Labelled(t, q, u)
      BY <2>3, <2>4, <2>5, TracedOfProject
    <3> QED
      BY <3>1, Zenon DEF Labelled
  <2>7. traced' = Append(traced, u)
    BY <1>5, <1>10, <2>4, Zenon
  <2>8. traced' \in Seq(RequestTrace) /\ Longer(traced, u, traced')
    BY <1>6, <2>6, <2>7, AppendLonger, Zenon
  <2>9. CASE skip
    <3>1. q = "" /\ aggregator' = aggregator
      BY <1>5, <1>4, <2>9
    <3>2. ASSUME NEW a \in aggregator PROVE AggregatorSound(a)'
      <4>1. a \in AggregatorState /\ BatchesSound(a) /\ EndedSound(Batches(a))
        BY Zenon DEF TraceInvariant, AggregatorSound
      <4>2. HandedOver(a, a, u)
        BY <2>6, <3>1, <4>1, Zenon DEF HandedOver
      <4> QED
        BY <1>0, <2>1, <2>3, <2>4, <2>8, <4>2, EndSound, Zenon
    <3> QED
      BY <1>6, <1>8, <2>8, <3>1, <3>2, Zenon
  <2>10. CASE ~skip
    <3>1. q = project_id(c.by)
      BY <1>4, <2>10
    <3>2. aggregator' = {AppendTrace([a EXCEPT !.project_id = q], EndSpans(t).trace) : a \in aggregator}
      BY <1>5, <1>10, <2>10, <3>1, Zenon
    <3>3. \A b \in aggregator' : \E a \in aggregator :
            b = AppendTrace([a EXCEPT !.project_id = q], EndSpans(t).trace)
      BY <3>2, Zenon
    <3>4. \A b, d \in aggregator' : b = d
      BY <1>6, <3>3, Zenon
    <3>5. ASSUME NEW b \in aggregator' PROVE AggregatorSound(b)'
      <4>1. PICK d : d = b
        OBVIOUS
      <4>2. PICK a \in aggregator : d = AppendTrace([a EXCEPT !.project_id = q], EndSpans(t).trace)
        BY <3>3, <4>1, Zenon
      <4>3. HandedOver(a, d, u)
        BY <2>1, <2>4, <3>1, <4>2, HandOver
      <4>4. AggregatorSound(d)'
        BY <1>0, <2>1, <2>3, <2>4, <2>8, <4>3, EndSound, Zenon
      <4> QED
        BY <4>1, <4>4, Zenon
    <3> QED
      BY <1>8, <2>8, <3>4, <3>5, Zenon
  <2> QED
    BY <2>9, <2>10
<1> QED
  BY <1>9, <1>10, Zenon

LEMMA NextTraces == WeightInvariant /\ TraceInvariant /\ [Next]_vars => TraceInvariant'
<1> SUFFICES ASSUME WeightInvariant, TraceInvariant, [Next]_vars PROVE TraceInvariant'
  OBVIOUS
<1>1. CASE UNCHANGED <<deployment, call, aggregator, traced, ids, now>>
  BY <1>1, StepSame, Zenon DEF TraceInvariant
<1>2. CASE AddAndDeployConfigs \/ UNCHANGED vars
  <2>1. CASE AddAndDeployConfigs
    BY <1>1, <2>1, Zenon DEF AddAndDeployConfigs, traceVars
  <2>2. CASE UNCHANGED vars
    BY <1>1, <2>2, Zenon DEF vars
  <2> QED
    BY <1>2, <2>1, <2>2
<1>3. ASSUME NEW uri, RewriteUri(uri) PROVE TraceInvariant'
  BY <1>1, <1>3, Zenon DEF RewriteUri, traceVars
<1>4. ASSUME NEW req \in Requests(deployment), CreateRequestHandler(req) PROVE TraceInvariant'
  BY <1>4, CreateTraces
<1>5. ASSUME NEW c \in call, CheckPassed(c) \/ Report(c) PROVE TraceInvariant'
  BY <1>5, PassTraces, ReportTraces
<1>6. CASE AggregatorTimer \/ Close
  BY <1>6, SendTraces
<1>7. CASE Tick
  BY <1>7, TickTraces
<1> QED
  BY <1>2, <1>3, <1>4, <1>5, <1>6, <1>7, Zenon DEF Next

(* The handler of grpc_pass passes the API key on and leaves the trace.      *)
LEMMA HandlerTraces ==
  ASSUME TraceInvariant, NEW c \in call, GrpcBackendHandler(c)
  PROVE  TraceInvariant'
<1>1. UNCHANGED <<deployment, aggregator, traced, ids, now>>
  BY Zenon DEF GrpcBackendHandler, traceVars
<1> DEFINE content == "content"
           Context(x) == RequestContext(c.slot, c.req, c.by, c.found, x, content, c.cloud_trace, c.trace_header)
<1>2. \E x : GoesOn(c, Context(x))
  BY Zenon DEF GrpcBackendHandler
<1> HIDE DEF content
<1>3. PICK x : GoesOn(c, Context(x))
  BY <1>2
<1>4. PICK d : d = Context(x)
  OBVIOUS
<1>5. d.by = c.by /\ d.cloud_trace = c.cloud_trace /\ d.trace_header = c.trace_header
  BY <1>4 DEF RequestContext
<1> HIDE DEF Context
<1>6. ids \in Nat /\ ids <= ids /\ List' = List /\ CallTraced(c)
  BY <1>1 DEF TraceInvariant, List
<1>7. CallTraced(d)'
  BY <1>1, <1>5, <1>6, Zenon DEF CallTraced, Started, Spanned
<1>8. \A t \in d.cloud_trace : \E u \in c.cloud_trace : SameStart(t, u)
  BY <1>5, Zenon DEF SameStart
<1> QED
  BY <1>1, <1>3, <1>4, <1>6, <1>7, <1>8, GoesOnTraces, Zenon

(* However requests, the sampler, the cache limit and the timer interleave,  *)
(* the ids of the traces stay apart and the sampler remembers the last one.  *)
THEOREM TraceInvariantHolds == BackendSpec => []TraceInvariant
<1>1. BackendInit => TraceInvariant
  BY InitTraces DEF BackendInit
<1>2. WeightInvariant /\ TraceInvariant /\ [BackendNext]_backendVars => TraceInvariant'
  BY NextTraces, HandlerTraces, BackendSteps
<1> QED
  BY <1>1, <1>2, WeightInvariantHolds, PTL DEF BackendSpec

(* Aggregator: the trace of a request that ended, for which a project is     *)
(* known, is sent or waits to be, exactly once and in batches of at most one *)
(* more than the cache holds, and the sampler keeps to its period, for any   *)
(* number of requests, however they overlap, and any limits.                 *)
THEOREM TracesAreSentOnce == BackendSpec => []TracesSentOnce
<1>1. TraceInvariant => TracesSentOnce
  <2> SUFFICES ASSUME TraceInvariant, NEW a \in aggregator
               PROVE  /\ SentOnce(Batches(a)) /\ Fits(a)
                      /\ \A n \in DOMAIN traced : traced[n].trace.project_id # "" => Kept(Batches(a), traced[n])
                      /\ InOrder(a.sampler)
                      /\ \A c \in call : \A t \in c.cloud_trace, h \in c.trace_header : HandedOn(h, t)
    BY Zenon DEF TracesSentOnce
  <2>1. AggregatorSound(a) /\ \A c \in call : CallTraced(c)
    BY Zenon DEF TraceInvariant
  <2>2. SentOnce(Batches(a)) /\ Fits(a)
    BY <2>1, Zenon DEF AggregatorSound, BatchesSound
  <2>3. /\ \A n \in DOMAIN traced : traced[n].trace.project_id # "" => Kept(Batches(a), traced[n])
        /\ InOrder(a.sampler)
    BY <2>1, Zenon DEF AggregatorSound, EndedSound, KnownSound
  <2>4. \A c \in call : \A t \in c.cloud_trace, h \in c.trace_header : HandedOn(h, t)
    BY <2>1, Zenon DEF CallTraced
  <2> QED
    BY <2>2, <2>3, <2>4
<1> QED
  BY <1>1, TraceInvariantHolds, PTL
=============================================================================
