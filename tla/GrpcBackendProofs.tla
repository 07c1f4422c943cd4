-------------------------- MODULE GrpcBackendProofs --------------------------
(* Proofs about GrpcBackend and MessageFraming: however bytes are cut into   *)
(* slices, messages are put together and taken apart whole and in order.     *)
EXTENDS RoutingProofs

-----------------------------------------------------------------------------
(* Runs of bytes.                                                            *)
LEMMA ConcatEmpty ==
  ASSUME NEW T, NEW s \in Seq(T) PROVE <<>> \o s = s /\ s \o <<>> = s
OBVIOUS

LEMMA ConcatAssociates ==
  ASSUME NEW T, NEW s \in Seq(T), NEW t \in Seq(T), NEW u \in Seq(T)
  PROVE  (s \o t) \o u = s \o (t \o u)
OBVIOUS

LEMMA ConcatIs ==
  ASSUME NEW T, NEW s \in Seq(T), NEW t \in Seq(T)
  PROVE  s \o t \in Seq(T) /\ Len(s \o t) = Len(s) + Len(t)
OBVIOUS

LEMMA SeqEqual ==
  ASSUME NEW T, NEW s \in Seq(T), NEW t \in Seq(T), Len(s) = Len(t), \A i \in 1..Len(s) : s[i] = t[i]
  PROVE  s = t
OBVIOUS

LEMMA AppendToOne ==
  ASSUME NEW T, NEW a \in T, NEW b \in T PROVE Append(<<a>>, b) = <<a, b>>
<1> DEFINE s == Append(<<a>>, b)
           t == <<a, b>>
<1>1. s \in Seq(T) /\ Len(s) = 2 /\ s[1] = a /\ s[2] = b
  OBVIOUS
<1>2. t \in Seq(T) /\ Len(t) = 2 /\ t[1] = a /\ t[2] = b
  OBVIOUS
<1> HIDE DEF s, t
<1>3. s = t
  BY <1>1, <1>2, SeqEqual
<1> QED
  BY <1>3 DEF s, t

(* FlattenSeq puts the runs one behind the other.                            *)
LEMMA FlattenIsLoop ==
  ASSUME NEW T, NEW m \in Seq(Seq(T))
  PROVE  \E f \in [0..Len(m) -> Seq(T)] :
           f[0] = <<>> /\ (\A i \in 1..Len(m) : f[i] = f[i - 1] \o m[i]) /\ FlattenSeq(m) = f[Len(m)]
<1> DEFINE n == Len(m)
<1>0. n \in Nat /\ \A i \in 1..n : m[i] \in Seq(T)
  OBVIOUS
<1>1. CASE n = 0
  <2> DEFINE f == [i \in 0..0 |-> <<>>]
  <2>1. m = <<>> /\ FlattenSeq(m) = m
    BY <1>1 DEF FlattenSeq
  <2>2. f \in [0..0 -> Seq(T)] /\ f[0] = <<>>
    OBVIOUS
  <2>3. \A i \in 1..0 : f[i] = f[i - 1] \o m[i]
    OBVIOUS
  <2> HIDE DEF f
  <2> QED
    BY <1>1, <2>1, <2>2, <2>3, Zenon
<1>2. CASE n # 0
  <2> DEFINE step == [i \in 1..n |-> [x \in Seq(T) |-> x \o m[i]]]
             Flat(s) == s = [i \in 1..n |-> IF i = 1 THEN m[i] ELSE s[i - 1] \o m[i]]
  <2>1. \A i \in (1 + 1)..n : step[i] \in [Seq(T) -> Seq(T)]
    BY <1>0
  <2>2. PICK f \in [1..n -> Seq(T)] : Loop(step, 1, n, m[1], f)
    <3>1. 1 \in Nat /\ 1 <= n /\ n \in Nat /\ m[1] \in Seq(T)
      BY <1>0, <1>2
    <3> HIDE DEF step, n
    <3> QED
      BY <2>1, <3>1, LoopExists, Zenon
  <2>3. Flat(f)
    <3>1. \A i \in 1..n : f[i] = IF i = 1 THEN m[1] ELSE step[i][f[i - 1]]
      BY <2>2 DEF Loop
    <3>2. \A i \in 2..n : i - 1 \in 1..n /\ i \in 1..n
      BY <1>0
    <3>5. \A i \in 1..n : \A x \in Seq(T) : step[i][x] = x \o m[i]
      OBVIOUS
    <3>3. \A i \in 2..n : step[i][f[i - 1]] = f[i - 1] \o m[i]
      <4> HIDE DEF step, n
      <4> QED
        BY <2>2, <3>2, <3>5
    <3> HIDE DEF step
    <3>4. \A i \in 1..n : f[i] = IF i = 1 THEN m[i] ELSE f[i - 1] \o m[i]
      <4> SUFFICES ASSUME NEW i \in 1..n PROVE f[i] = IF i = 1 THEN m[i] ELSE f[i - 1] \o m[i]
        OBVIOUS
      <4>1. i = 1 \/ i \in 2..n
        BY <1>0
      <4> HIDE DEF n
      <4> QED
        BY <3>1, <3>3, <4>1, Zenon
    <3> QED
      BY <2>2, <3>4, Zenon
  <2> DEFINE s == CHOOSE s : Flat(s)
  <2>4. Flat(s)
    BY <2>3, Zenon
  <2>5. FlattenSeq(m) = s[n]
    BY <1>2 DEF FlattenSeq
  <2> HIDE DEF s
  <2> DEFINE t == [i \in 0..n |-> IF i = 0 THEN <<>> ELSE s[i]]
  <2>6. \A k \in Nat : k <= n => t[k] \in Seq(T)
    <3> DEFINE K == {k \in Nat : k <= n => t[k] \in Seq(T)}
    <3>1. 0 \in K
      BY <1>0
    <3>2. ASSUME NEW k \in Nat, k \in K PROVE k + 1 \in K
      <4> SUFFICES ASSUME k + 1 <= n PROVE t[k + 1] \in Seq(T)
        OBVIOUS
      <4>1. k + 1 \in 1..n /\ m[k + 1] \in Seq(T) /\ (k + 1) - 1 = k
        BY <1>0
      <4>2. s[k + 1] = IF k + 1 = 1 THEN m[k + 1] ELSE s[k] \o m[k + 1]
        BY <2>4, <4>1
      <4>3. t[k + 1] = s[k + 1]
        BY <4>1, <1>0
      <4>4. CASE k = 0
        <5>1. k + 1 = 1
          BY <4>4
        <5> HIDE DEF t
        <5> QED
          BY <4>1, <4>2, <4>3, <5>1, Zenon
      <4>5. CASE k # 0
        <5>1. s[k] \in Seq(T)
          BY <3>2, <4>5, <1>0
        <5>2. k + 1 # 1
          BY <4>5
        <5> HIDE DEF t
        <5>3. t[k + 1] = s[k] \o m[k + 1]
          BY <4>2, <4>3, <5>2, Zenon
        <5> QED
          BY <4>1, <5>1, <5>3, ConcatIs
      <4> QED
        BY <4>4, <4>5
    <3> HIDE DEF K
    <3>3. Nat \subseteq K
      BY <3>1, <3>2, NatSetInduction
    <3> QED
      BY <3>3 DEF K
  <2>7. t \in [0..n -> Seq(T)]
    <3> SUFFICES ASSUME NEW i \in 0..n PROVE t[i] \in Seq(T)
      OBVIOUS
    <3> QED
      BY <1>0, <2>6
  <2>8. ASSUME NEW i \in 1..n PROVE t[i] = t[i - 1] \o m[i]
    <3>1. s[i] = IF i = 1 THEN m[i] ELSE s[i - 1] \o m[i]
      BY <2>4
    <3>2. t[i] = s[i] /\ m[i] \in Seq(T)
      BY <1>0
    <3>3. CASE i = 1
      <4>1. t[i - 1] = <<>>
        BY <1>0, <3>3
      <4> QED
        BY <3>1, <3>2, <3>3, <4>1, ConcatEmpty
    <3>4. CASE i # 1
      <4>1. t[i - 1] = s[i - 1]
        BY <1>0, <3>4
      <4> QED
        BY <3>1, <3>2, <3>4, <4>1
    <3> QED
      BY <3>3, <3>4
  <2>9. t[0] = <<>> /\ FlattenSeq(m) = t[n]
    BY <1>0, <1>2, <2>5
  <2> QED
    BY <2>7, <2>8, <2>9
<1> QED
  BY <1>1, <1>2

LEMMA FlattenIs ==
  ASSUME NEW T, NEW m \in Seq(Seq(T)), NEW e \in Seq(T)
  PROVE  /\ FlattenSeq(m) \in Seq(T)
         /\ FlattenSeq(<<>>) = <<>>
         /\ FlattenSeq(Append(m, e)) = FlattenSeq(m) \o e
<1> DEFINE n == Len(m)
           w == Append(m, e)
<1>0. n \in Nat /\ w \in Seq(Seq(T)) /\ Len(w) = n + 1 /\ w[n + 1] = e /\ \A i \in 1..n : w[i] = m[i]
  OBVIOUS
<1>1. PICK f \in [0..n -> Seq(T)] :
        f[0] = <<>> /\ (\A i \in 1..n : f[i] = f[i - 1] \o m[i]) /\ FlattenSeq(m) = f[n]
  BY FlattenIsLoop
<1>2. PICK g \in [0..(n + 1) -> Seq(T)] :
        g[0] = <<>> /\ (\A i \in 1..(n + 1) : g[i] = g[i - 1] \o w[i]) /\ FlattenSeq(w) = g[n + 1]
  <2> HIDE DEF w, n
  <2>1. \E g \in [0..Len(w) -> Seq(T)] :
          g[0] = <<>> /\ (\A i \in 1..Len(w) : g[i] = g[i - 1] \o w[i]) /\ FlattenSeq(w) = g[Len(w)]
    BY <1>0, FlattenIsLoop
  <2> QED
    BY <1>0, <2>1
<1> DEFINE K == {k \in Nat : k <= n => f[k] = g[k]}
<1>3. 0 \in K
  BY <1>1, <1>2
<1>4. ASSUME NEW k \in Nat, k \in K PROVE k + 1 \in K
  <2> SUFFICES ASSUME k + 1 <= n PROVE f[k + 1] = g[k + 1]
    OBVIOUS
  <2> HIDE DEF w, n
  <2>1. k + 1 \in 1..n /\ k + 1 \in 1..(n + 1) /\ (k + 1) - 1 = k /\ k <= n
    BY <1>0
  <2>2. f[k] = g[k]
    BY <1>4, <2>1
  <2>3. f[k + 1] = f[k] \o m[k + 1] /\ g[k + 1] = g[k] \o w[k + 1] /\ w[k + 1] = m[k + 1]
    BY <1>0, <1>1, <1>2, <2>1
  <2> QED
    BY <2>2, <2>3
<1> HIDE DEF K
<1>5. n \in K
  BY <1>0, <1>3, <1>4, NatSetInduction
<1>6. f[n] = g[n]
  BY <1>0, <1>5 DEF K
<1>7. g[n + 1] = g[n] \o e
  <2>1. n + 1 \in 1..(n + 1) /\ (n + 1) - 1 = n
    BY <1>0
  <2> HIDE DEF n, w
  <2> QED
    BY <1>0, <1>2, <2>1
<1>8. FlattenSeq(<<>>) = <<>>
  BY DEF FlattenSeq
<1>9. f[n] \in Seq(T)
  BY <1>0
<1> HIDE DEF n, w
<1>10. FlattenSeq(w) = FlattenSeq(m) \o e
  BY <1>1, <1>2, <1>6, <1>7
<1> QED
  BY <1>1, <1>8, <1>9, <1>10 DEF w

LEMMA FlattenFew ==
  ASSUME NEW T, NEW a \in Seq(T), NEW b \in Seq(T)
  PROVE  FlattenSeq(<<a>>) = a /\ FlattenSeq(<<a, b>>) = a \o b
<1>1. /\ <<>> \in Seq(Seq(T)) /\ Append(<<>>, a) = <<a>>
      /\ <<a>> \in Seq(Seq(T)) /\ Append(<<a>>, b) = <<a, b>>
  BY AppendToOne
<1>2. FlattenSeq(Append(<<>>, a)) = FlattenSeq(<<>>) \o a /\ FlattenSeq(<<>>) = <<>>
  BY <1>1, FlattenIs
<1>3. FlattenSeq(Append(<<a>>, b)) = FlattenSeq(<<a>>) \o b
  BY <1>1, FlattenIs
<1> QED
  BY <1>1, <1>2, <1>3, ConcatEmpty

(* The bytes of the first i runs.                                            *)
Flat(m, i) == FlattenSeq(SubSeq(m, 1, i))

LEMMA FlatIs ==
  ASSUME NEW T, NEW m \in Seq(Seq(T))
  PROVE  /\ Flat(m, 0) = <<>> /\ Flat(m, Len(m)) = FlattenSeq(m)
         /\ \A i \in 0..Len(m) : Flat(m, i) \in Seq(T) /\ Upto(m, i) = Len(Flat(m, i)) /\ Upto(m, i) \in Nat
         /\ \A i \in 0..(Len(m) - 1) :
              /\ m[i + 1] \in Seq(T)
              /\ Flat(m, i + 1) = Flat(m, i) \o m[i + 1]
              /\ Upto(m, i + 1) = Upto(m, i) + Len(m[i + 1])
<1>1. SubSeq(m, 1, 0) = <<>> /\ SubSeq(m, 1, Len(m)) = m
  OBVIOUS
<1>2. \A i \in 0..Len(m) : SubSeq(m, 1, i) \in Seq(Seq(T))
  OBVIOUS
<1>3. \A i \in 0..Len(m) : Flat(m, i) \in Seq(T) /\ Upto(m, i) = Len(Flat(m, i)) /\ Upto(m, i) \in Nat
  <2> SUFFICES ASSUME NEW i \in 0..Len(m) PROVE Flat(m, i) \in Seq(T) /\ Upto(m, i) = Len(Flat(m, i)) /\ Upto(m, i) \in Nat
    OBVIOUS
  <2>1. SubSeq(m, 1, i) \in Seq(Seq(T)) /\ <<>> \in Seq(T)
    BY <1>2
  <2>2. Flat(m, i) \in Seq(T)
    BY <2>1, FlattenIs DEF Flat
  <2> QED
    BY <2>2 DEF Flat, Upto
<1>4. ASSUME NEW i \in 0..(Len(m) - 1)
      PROVE  /\ m[i + 1] \in Seq(T)
             /\ Flat(m, i + 1) = Flat(m, i) \o m[i + 1]
             /\ Upto(m, i + 1) = Upto(m, i) + Len(m[i + 1])
  <2>1. i \in 0..Len(m) /\ i + 1 \in 0..Len(m) /\ m[i + 1] \in Seq(T)
    OBVIOUS
  <2>2. SubSeq(m, 1, i + 1) = Append(SubSeq(m, 1, i), m[i + 1])
    OBVIOUS
  <2>3. Flat(m, i + 1) = Flat(m, i) \o m[i + 1]
    <3>1. SubSeq(m, 1, i) \in Seq(Seq(T))
      BY <1>2, <2>1
    <3> QED
      BY <2>1, <2>2, <3>1, FlattenIs DEF Flat
  <2>4. Flat(m, i) \in Seq(T) /\ Upto(m, i) = Len(Flat(m, i)) /\ Upto(m, i + 1) = Len(Flat(m, i + 1))
    BY <1>3, <2>1
  <2> QED
    BY <2>1, <2>3, <2>4, ConcatIs
<1>5. FlattenSeq(<<>>) = <<>>
  BY DEF FlattenSeq
<1> QED
  BY <1>1, <1>3, <1>4, <1>5 DEF Flat

(* Further runs only add bytes; none, if they are empty.                     *)
LEMMA FlatGrows ==
  ASSUME NEW T, NEW m \in Seq(Seq(T)), NEW i \in 0..Len(m), NEW j \in i..Len(m)
  PROVE  /\ Upto(m, i) <= Upto(m, j)
         /\ (\A k \in (i + 1)..j : m[k] = <<>>) => Flat(m, j) = Flat(m, i)
         /\ Upto(m, i) = Upto(m, j) => \A k \in (i + 1)..j : m[k] = <<>>
<1> DEFINE Empty(d) == \A k \in (i + 1)..(i + d) : m[k] = <<>>
           Grown(d) == /\ Upto(m, i) <= Upto(m, i + d)
                       /\ Empty(d) => Flat(m, i + d) = Flat(m, i)
                       /\ Upto(m, i) = Upto(m, i + d) => Empty(d)
           K == {d \in Nat : i + d <= Len(m) => Grown(d)}
<1>0. Len(m) \in Nat /\ i \in Nat /\ j \in Nat
  OBVIOUS
<1>1. 0 \in K
  <2>1. Upto(m, i) \in Nat
    BY FlatIs
  <2>2. i + 0 = i /\ (i + 1)..(i + 0) = {}
    BY <1>0
  <2> QED
    BY <2>1, <2>2
<1>2. ASSUME NEW d \in Nat, d \in K PROVE d + 1 \in K
  <2> SUFFICES ASSUME i + (d + 1) <= Len(m) PROVE Grown(d + 1)
    OBVIOUS
  <2>0. Grown(d)
    BY <1>0, <1>2
  <2> DEFINE e == i + d
  <2>1. e \in 0..(Len(m) - 1) /\ i + (d + 1) = e + 1 /\ (i + 1)..(i + (d + 1)) = ((i + 1)..e) \union {e + 1}
        /\ e \in 0..Len(m)
    BY <1>0
  <2>2. /\ m[e + 1] \in Seq(T)
        /\ Flat(m, e + 1) = Flat(m, e) \o m[e + 1]
        /\ Upto(m, e + 1) = Upto(m, e) + Len(m[e + 1])
        /\ Flat(m, e) \in Seq(T) /\ Upto(m, e) \in Nat /\ Upto(m, i) \in Nat
    BY <2>1, FlatIs
  <2>3. Empty(d + 1) <=> Empty(d) /\ m[e + 1] = <<>>
    BY <2>1
  <2> HIDE DEF Empty, e
  <2>4. Len(m[e + 1]) \in Nat /\ (Len(m[e + 1]) = 0 => m[e + 1] = <<>>)
    BY <2>2
  <2>5. Upto(m, i) <= Upto(m, e) /\ (Empty(d) => Flat(m, e) = Flat(m, i)) /\ (Upto(m, i) = Upto(m, e) => Empty(d))
    BY <2>0 DEF e
  <2>6. m[e + 1] = <<>> => Flat(m, e + 1) = Flat(m, e)
    BY <2>2, ConcatEmpty
  <2>7. Upto(m, i) <= Upto(m, e + 1) /\ (Upto(m, i) = Upto(m, e + 1) => Upto(m, i) = Upto(m, e) /\ Len(m[e + 1]) = 0)
    BY <2>2, <2>4, <2>5
  <2> QED
    BY <2>1, <2>3, <2>4, <2>5, <2>6, <2>7, Zenon
<1> HIDE DEF K
<1>3. j - i \in Nat /\ i + (j - i) = j
  BY <1>0
<1>4. j - i \in K
  BY <1>1, <1>2, <1>3, NatSetInduction
<1> QED
  BY <1>3, <1>4 DEF K

-----------------------------------------------------------------------------
(* A delimiter holds its length, if that fits four bytes.                    *)
LEMMA DivIs ==
  ASSUME NEW n \in Nat, NEW b \in Nat \ {0}
  PROVE  n \div b \in Nat /\ n % b \in 0..(b - 1) /\ n = (n \div b) * b + (n % b)
OBVIOUS

LEMMA DivBelow ==
  ASSUME NEW n \in Nat, NEW b \in Nat \ {0}, NEW c \in Nat, n < c * b
  PROVE  n \div b < c
<1>1. n \div b \in Nat /\ (n \div b) * b <= n
  <2>1. n \div b \in Nat /\ n % b \in 0..(b - 1) /\ n = (n \div b) * b + (n % b)
    BY DivIs
  <2> DEFINE q == n \div b
             p == q * b
             r == n % b
  <2>2. p \in Nat /\ r \in Nat /\ n = p + r
    BY <2>1
  <2> HIDE DEF q, p, r
  <2>3. p <= n
    BY <2>2
  <2> QED
    BY <2>1, <2>3 DEF p, q
<1> DEFINE q == n \div b
<1> HIDE DEF q
<1> SUFFICES ASSUME q >= c PROVE FALSE
  BY <1>1 DEF q
<1>2. q \in Nat /\ q * b <= n
  BY <1>1 DEF q
<1>3. c * b <= q * b
  BY <1>2
<1>4. c * b \in Nat /\ q * b \in Nat
  BY <1>2
<1> QED
  BY <1>2, <1>3, <1>4

Fits32(n) == n < ByteValues * ByteValues * ByteValues * ByteValues

LEMMA DelimiterIs ==
  ASSUME NEW flag \in Byte, NEW n \in Nat, Fits32(n)
  PROVE  /\ NewFrame(flag, n) \in Seq(Byte) /\ Len(NewFrame(flag, n)) = DelimiterSize
         /\ NewFrame(flag, n)[1] = flag
         /\ LengthIn(NewFrame(flag, n)) = n
<1> DEFINE B == ByteValues
           n8 == n \div B
           n16 == n8 \div B
           n24 == n16 \div B
<1>0. B \in Nat \ {0} /\ B >= 2
  BY ByteAssumption
<1>1. n8 \in Nat /\ n % B \in 0..(B - 1) /\ n = n8 * B + (n % B)
  BY <1>0, DivIs
<1>2. n16 \in Nat /\ n8 % B \in 0..(B - 1) /\ n8 = n16 * B + (n8 % B)
  <2> HIDE DEF n8, B
  <2> QED
    BY <1>0, <1>1, DivIs
<1>3. n24 \in Nat /\ n16 % B \in 0..(B - 1) /\ n16 = n24 * B + (n16 % B)
  <2> HIDE DEF n16, B
  <2> QED
    BY <1>0, <1>2, DivIs
<1>4. n24 < B
  <2> HIDE DEF n8, n16, n24, B
  <2>1. B * B * B \in Nat /\ B * B \in Nat /\ n < (B * B * B) * B
    BY <1>0 DEF Fits32, B
  <2>2. n8 < (B * B) * B
    BY <1>0, <2>1, DivBelow DEF n8
  <2>3. n16 < B * B
    BY <1>0, <1>1, <2>1, <2>2, DivBelow DEF n16
  <2> QED
    BY <1>0, <1>2, <2>3, DivBelow DEF n24
<1>5. n24 % B = n24
  <2> HIDE DEF n24
  <2> QED
    BY <1>0, <1>3, <1>4
<1> DEFINE d == NewFrame(flag, n)
<1>6. d = <<flag, n24 % B, n16 % B, n8 % B, n % B>>
  BY Zenon DEF NewFrame
<1> HIDE DEF d, n8, n16, n24
<1>7. n24 \in Byte /\ n16 % B \in Byte /\ n8 % B \in Byte /\ n % B \in Byte
  BY <1>0, <1>1, <1>2, <1>3, <1>4 DEF Byte
<1>8. d \in Seq(Byte) /\ Len(d) = 5 /\ d[1] = flag
      /\ d[2] = n24 /\ d[3] = n16 % B /\ d[4] = n8 % B /\ d[5] = n % B
  BY <1>5, <1>6, <1>7
<1>9. LengthIn(d) = n
  <2>1. LengthIn(d) = ((n24 * B + (n16 % B)) * B + (n8 % B)) * B + (n % B)
    BY <1>8, Zenon DEF LengthIn, LengthOf
  <2> QED
    BY <1>1, <1>2, <1>3, <2>1, Zenon
<1> QED
  BY <1>8, <1>9 DEF d, DelimiterSize

-----------------------------------------------------------------------------
(* The serializer.                                                           *)
Given(data, z) == [ok |-> TRUE, data |-> data, z |-> z]
Delimiter(m) == NewFrame(0, Upto(m, Len(m)))
Slices == Seq(Seq(Byte))

LEMMA SliceIsNext ==
  ASSUME NEW messages \in Seq(Slices), NEW i \in Nat, NEW b \in Int,
         messages # <<>>, i < Len(messages[1])
  PROVE  NextInternal(SerializerState(messages, TRUE, i, b))
           = Given(messages[1][i + 1], SerializerState(messages, TRUE, i + 1, b - Len(messages[1][i + 1])))
<1> DEFINE z == SerializerState(messages, TRUE, i, b)
<1>1. Head(messages) = messages[1] /\ Len(messages[1]) \in Nat
  BY DEF Slices
<1>2. z.messages = messages /\ z.delimiter_consumed = TRUE /\ z.current_slice_no = i /\ z.byte_count = b
  BY DEF SerializerState
<1> HIDE DEF z
<1>3. ~Exhausted(z)
  BY <1>1, <1>2 DEF Exhausted
<1>4. NextInternal(z) = NextBufferOf(z)
  BY <1>3, Zenon DEF NextInternal
<1>5. NextBufferOf(z)
        = Given(messages[1][i + 1], SerializerState(messages, TRUE, i + 1, b - Len(messages[1][i + 1])))
  BY <1>1, <1>2, Zenon DEF NextBufferOf, Given
<1> QED
  BY <1>4, <1>5 DEF z

LEMMA DelimiterIsNext ==
  ASSUME NEW m \in Slices, NEW b \in Int
  PROVE  /\ NextInternal(SerializerState(<<m>>, FALSE, 0, b))
              = Given(Delimiter(m), SerializerState(<<m>>, TRUE, 0, b - DelimiterSize))
         /\ \A l \in Slices :
              NextInternal(SerializerState(<<l, m>>, TRUE, Len(l), b))
                = Given(Delimiter(m), SerializerState(<<m>>, TRUE, 0, b - DelimiterSize))
<1> DEFINE z == SerializerState(<<m>>, FALSE, 0, b)
<1>0. z.messages = <<m>> /\ z.delimiter_consumed = FALSE /\ z.current_slice_no = 0 /\ z.byte_count = b
  BY DEF SerializerState
<1> HIDE DEF z
<1>1. NextBufferOf(z) = Given(Delimiter(m), SerializerState(<<m>>, TRUE, 0, b - DelimiterSize))
  <2>1. Head(<<m>>) = m /\ <<m>> # <<>>
    OBVIOUS
  <2> QED
    BY <1>0, <2>1, Zenon DEF NextBufferOf, Given, Delimiter
<1>2. NextInternal(z) = NextBufferOf(z)
  BY <1>0, Zenon DEF NextInternal, Exhausted
<1>3. ASSUME NEW l \in Slices
      PROVE  NextInternal(SerializerState(<<l, m>>, TRUE, Len(l), b)) = NextBufferOf(z)
  <2> DEFINE y == SerializerState(<<l, m>>, TRUE, Len(l), b)
  <2>0. y.messages = <<l, m>> /\ y.delimiter_consumed = TRUE /\ y.current_slice_no = Len(l) /\ y.byte_count = b
    BY DEF SerializerState
  <2>1. Head(<<l, m>>) = l /\ Tail(<<l, m>>) = <<m>> /\ <<l, m>> # <<>> /\ Len(l) \in Nat
    BY DEF Slices
  <2> HIDE DEF y
  <2>2. Exhausted(y)
    BY <2>0, <2>1 DEF Exhausted
  <2>3. SerializerState(Tail(y.messages), FALSE, 0, y.byte_count) = z
    BY <2>0, <2>1, Zenon DEF z
  <2>4. NextInternal(y) = NextBufferOf(z)
    BY <2>2, <2>3, Zenon DEF NextInternal
  <2> QED
    BY <2>4 DEF y
<1> QED
  BY <1>1, <1>2, <1>3, Zenon DEF z

(* SerializerNext goes on until a buffer is not empty.                       *)
LEMMA SkipsAre ==
  ASSUME NEW z, NEW n \in Nat, n = Len(FlattenSeq(z.messages)),
         NEW f, f = [k \in 0..n |-> IF k = 0 THEN NextInternal(z) ELSE SkipEmpty(f[k - 1])]
  PROVE  SerializerNext(z) = f[n]
<1> DEFINE Skips(s) == s = [k \in 0..n |-> IF k = 0 THEN NextInternal(z) ELSE SkipEmpty(s[k - 1])]
           s == CHOOSE s : Skips(s)
<1>2. Skips(s)
  BY Zenon
<1>3. SerializerNext(z) = s[n]
  BY DEF SerializerNext
<1> HIDE DEF s
<1> DEFINE K == {k \in Nat : k <= n => s[k] = f[k]}
<1>4. 0 \in K
  BY <1>2
<1>5. ASSUME NEW k \in Nat, k \in K PROVE k + 1 \in K
  <2> SUFFICES ASSUME k + 1 <= n PROVE s[k + 1] = f[k + 1]
    OBVIOUS
  <2>1. s[k] = f[k] /\ k + 1 \in 0..n /\ (k + 1) - 1 = k /\ k + 1 # 0
    BY <1>5
  <2>2. s[k + 1] = SkipEmpty(s[k])
    BY <1>2, <2>1
  <2>3. f[k + 1] = SkipEmpty(f[k])
    BY <2>1
  <2> QED
    BY <2>1, <2>2, <2>3, Zenon
<1> HIDE DEF K
<1>6. n \in K
  BY <1>4, <1>5, NatSetInduction
<1> QED
  BY <1>3, <1>6 DEF K

LEMMA GivenIs ==
  ASSUME NEW data, NEW z
  PROVE  /\ data # <<>> => SkipEmpty(Given(data, z)) = Given(data, z)
         /\ data = <<>> => SkipEmpty(Given(data, z)) = NextInternal(z)
<1>1. Given(data, z).ok /\ Given(data, z).data = data /\ Given(data, z).z = z
  BY DEF Given
<1> QED
  BY <1>1, Zenon DEF SkipEmpty

LEMMA SliceFound ==
  ASSUME NEW m \in Slices, NEW b \in Int, NEW j \in Nat, NEW i \in (j + 1)..Len(m),
         m[i] # <<>>, \A k \in (j + 1)..(i - 1) : m[k] = <<>>
  PROVE  SerializerNext(SerializerState(<<m>>, TRUE, j, b))
           = Given(m[i], SerializerState(<<m>>, TRUE, i, b - Len(m[i])))
<1> DEFINE z == SerializerState(<<m>>, TRUE, j, b)
           n == Len(m)
           At(p) == Given(m[p], SerializerState(<<m>>, TRUE, p, b - Len(m[p])))
           P(k) == IF j + 1 + k < i THEN j + 1 + k ELSE i
           f == [k \in 0..n |-> At(P(k))]
<1>0. n \in Nat /\ i \in Nat /\ i <= n /\ j < i /\ <<m>> \in Seq(Slices) /\ <<m>>[1] = m /\ <<m>> # <<>>
  BY DEF Slices
<1>1. z.messages = <<m>> /\ n = Len(FlattenSeq(z.messages))
  <2>1. z.messages = <<m>>
    BY DEF SerializerState
  <2>2. FlattenSeq(<<m>>) = m
    BY FlattenFew DEF Slices
  <2> QED
    BY <2>1, <2>2
<1>2. ASSUME NEW p \in Nat, p < i PROVE NextInternal(SerializerState(<<m>>, TRUE, p, b)) = At(p + 1)
  <2>1. p < Len(<<m>>[1])
    BY <1>0, <1>2
  <2> QED
    BY <1>0, <1>2, <2>1, SliceIsNext
<1>3. NextInternal(z) = At(j + 1)
  BY <1>0, <1>2
<1>4. ASSUME NEW p \in (j + 1)..(i - 1) PROVE SkipEmpty(At(p)) = At(p + 1)
  <2>1. p \in Nat /\ p < i /\ m[p] = <<>> /\ b - Len(m[p]) = b
    BY <1>0
  <2>2. SkipEmpty(At(p)) = NextInternal(SerializerState(<<m>>, TRUE, p, b))
    BY <2>1, GivenIs
  <2> QED
    BY <1>2, <2>1, <2>2
<1>5. SkipEmpty(At(i)) = At(i)
  BY GivenIs
<1>6. ASSUME NEW k \in 0..n PROVE f[k] = IF k = 0 THEN NextInternal(z) ELSE SkipEmpty(f[k - 1])
  <2> HIDE DEF At, z, n
  <2>1. CASE k = 0
    <3>1. P(k) = j + 1
      BY <1>0, <2>1
    <3> QED
      BY <1>3, <2>1, <3>1
  <2>2. CASE k # 0
    <3>1. k - 1 \in 0..n /\ f[k] = At(P(k)) /\ f[k - 1] = At(P(k - 1))
      BY <1>0, <2>2
    <3>2. CASE j + k < i
      <4>1. P(k - 1) = j + k /\ j + k \in (j + 1)..(i - 1) /\ P(k) = j + k + 1
        BY <1>0, <2>2, <3>2
      <4> HIDE DEF P, f
      <4>2. SkipEmpty(At(j + k)) = At(j + k + 1)
        BY <1>4, <4>1
      <4> QED
        BY <2>2, <3>1, <4>1, <4>2
    <3>3. CASE ~(j + k < i)
      <4>1. P(k - 1) = i /\ P(k) = i
        BY <1>0, <2>2, <3>3
      <4> HIDE DEF P, f
      <4> QED
        BY <1>5, <2>2, <3>1, <4>1
    <3> QED
      BY <3>2, <3>3
  <2> QED
    BY <2>1, <2>2
<1>7. f = [k \in 0..n |-> IF k = 0 THEN NextInternal(z) ELSE SkipEmpty(f[k - 1])]
  <2> HIDE DEF At, P, z, n
  <2> QED
    BY <1>6
<1>8. f[n] = At(i)
  <2>1. P(n) = i /\ n \in 0..n
    BY <1>0
  <2> HIDE DEF At, P, n
  <2> QED
    BY <2>1
<1> HIDE DEF f, n, z
<1>9. SerializerNext(z) = f[n]
  <2>1. n \in Nat
    BY <1>0
  <2>2. n = Len(FlattenSeq(z.messages))
    BY <1>1
  <2> HIDE DEF At, P
  <2> QED
    BY <1>7, <2>1, <2>2, SkipsAre
<1> QED
  BY <1>8, <1>9 DEF z

LEMMA DelimiterThere == ASSUME NEW m PROVE Delimiter(m) # <<>>
BY DEF Delimiter, NewFrame

LEMMA FirstMessageFound ==
  ASSUME NEW m \in Slices, NEW b \in Int
  PROVE  SerializerNext(SerializerState(<<m>>, FALSE, 0, b))
           = Given(Delimiter(m), SerializerState(<<m>>, TRUE, 0, b - DelimiterSize))
<1> DEFINE z == SerializerState(<<m>>, FALSE, 0, b)
           n == Len(FlattenSeq(z.messages))
           new == Given(Delimiter(m), SerializerState(<<m>>, TRUE, 0, b - DelimiterSize))
           f == [k \in 0..n |-> new]
<1>1. n \in Nat
  <2>1. z.messages = <<m>>
    BY DEF SerializerState
  <2>2. FlattenSeq(z.messages) = m /\ m \in Seq(Seq(Byte))
    BY <2>1, FlattenFew DEF Slices
  <2> HIDE DEF z
  <2> QED
    BY <2>2
<1>2. NextInternal(z) = new
  BY DelimiterIsNext
<1>3. SkipEmpty(new) = new
  BY DelimiterThere, GivenIs
<1> HIDE DEF new, z, n
<1>4. f = [k \in 0..n |-> IF k = 0 THEN NextInternal(z) ELSE SkipEmpty(f[k - 1])]
  BY <1>1, <1>2, <1>3
<1>5. f[n] = new
  BY <1>1
<1> HIDE DEF f
<1>6. n = Len(FlattenSeq(z.messages))
  BY DEF n
<1>7. SerializerNext(z) = f[n]
  BY <1>1, <1>4, <1>6, SkipsAre, Zenon
<1> QED
  BY <1>5, <1>7 DEF z, new

LEMMA NextMessageFound ==
  ASSUME NEW l \in Slices, NEW m \in Slices, NEW b \in Int, NEW j \in 0..Len(l),
         \A k \in (j + 1)..Len(l) : l[k] = <<>>
  PROVE  SerializerNext(SerializerState(<<l, m>>, TRUE, j, b))
           = Given(Delimiter(m), SerializerState(<<m>>, TRUE, 0, b - DelimiterSize))
<1> DEFINE z == SerializerState(<<l, m>>, TRUE, j, b)
           n == Len(l) + Len(m)
           new == Given(Delimiter(m), SerializerState(<<m>>, TRUE, 0, b - DelimiterSize))
           At(p) == Given(<<>>, SerializerState(<<l, m>>, TRUE, p, b))
           E(k) == IF j + 1 + k <= Len(l) THEN At(j + 1 + k) ELSE new
           f == [k \in 0..n |-> E(k)]
<1>0. /\ n \in Nat /\ Len(l) \in Nat /\ Len(m) \in Nat /\ j \in Nat /\ j <= Len(l)
      /\ <<l, m>> \in Seq(Slices) /\ <<l, m>>[1] = l /\ <<l, m>> # <<>>
  BY DEF Slices
<1>1. n = Len(FlattenSeq(z.messages))
  <2>1. z.messages = <<l, m>>
    BY DEF SerializerState
  <2>2. FlattenSeq(<<l, m>>) = l \o m
    BY FlattenFew DEF Slices
  <2>3. Len(l \o m) = Len(l) + Len(m)
    BY DEF Slices
  <2> QED
    BY <2>1, <2>2, <2>3
<1>2. ASSUME NEW p \in Nat, j <= p, p < Len(l) PROVE NextInternal(SerializerState(<<l, m>>, TRUE, p, b)) = At(p + 1)
  <2>1. p < Len(<<l, m>>[1]) /\ p + 1 \in (j + 1)..Len(l)
    BY <1>0, <1>2
  <2>2. l[p + 1] = <<>> /\ b - Len(l[p + 1]) = b
    BY <2>1
  <2> QED
    BY <1>0, <1>2, <2>1, <2>2, SliceIsNext
<1>3. NextInternal(SerializerState(<<l, m>>, TRUE, Len(l), b)) = new
  BY DelimiterIsNext
<1>4. ASSUME NEW p \in Nat, j <= p, p <= Len(l)
      PROVE  NextInternal(SerializerState(<<l, m>>, TRUE, p, b)) = E(p - j)
  <2>1. CASE p < Len(l)
    <3>1. E(p - j) = At(p + 1)
      <4>1. j + 1 + (p - j) <= Len(l) /\ j + 1 + (p - j) = p + 1
        BY <1>0, <1>4, <2>1
      <4> QED
        BY <4>1
    <3> QED
      BY <1>2, <1>4, <2>1, <3>1
  <2>2. CASE p = Len(l)
    <3>1. E(p - j) = new
      <4>1. ~(j + 1 + (p - j) <= Len(l))
        BY <1>0, <1>4, <2>2
      <4> HIDE DEF new, At
      <4> QED
        BY <4>1
    <3> HIDE DEF new, E
    <3> QED
      BY <1>3, <2>2, <3>1
  <2>3. p < Len(l) \/ p = Len(l)
    BY <1>0, <1>4
  <2> HIDE DEF E
  <2> QED
    BY <2>1, <2>2, <2>3, Zenon
<1>5. \A p \in Nat : SkipEmpty(At(p)) = NextInternal(SerializerState(<<l, m>>, TRUE, p, b))
  BY GivenIs
<1>6. SkipEmpty(new) = new
  BY DelimiterThere, GivenIs
<1>7. ASSUME NEW k \in 0..n PROVE f[k] = IF k = 0 THEN NextInternal(z) ELSE SkipEmpty(f[k - 1])
  <2>0. f[k] = E(k)
    BY <1>0
  <2> HIDE DEF At, new
  <2>1. CASE k = 0
    <3> HIDE DEF E
    <3>1. NextInternal(z) = E(j - j)
      <4>1. j \in Nat /\ j <= j /\ j <= Len(l)
        BY <1>0
      <4> QED
        BY <1>4, <4>1, Zenon
    <3>2. j - j = 0
      BY <1>0
    <3> HIDE DEF z
    <3> QED
      BY <2>0, <2>1, <3>1, <3>2
  <2>2. CASE k # 0
    <3>1. k - 1 \in 0..n /\ f[k - 1] = E(k - 1)
      BY <1>0, <2>2
    <3> HIDE DEF f
    <3>2. CASE j + k <= Len(l)
      <4>1. j + k \in Nat /\ j <= j + k /\ j + 1 + (k - 1) = j + k /\ (j + k) - j = k
        BY <1>0, <2>2
      <4>2. E(k - 1) = At(j + k)
        BY <3>2, <4>1
      <4>3. SkipEmpty(At(j + k)) = E(k)
        <5>1. NextInternal(SerializerState(<<l, m>>, TRUE, j + k, b)) = E((j + k) - j)
          BY <1>4, <3>2, <4>1
        <5> QED
          BY <1>5, <4>1, <5>1
      <4> HIDE DEF E
      <4> QED
        BY <2>0, <2>2, <3>1, <4>2, <4>3
    <3>3. CASE ~(j + k <= Len(l))
      <4>1. E(k - 1) = new /\ E(k) = new
        BY <1>0, <2>2, <3>3
      <4> HIDE DEF E
      <4> QED
        BY <1>6, <2>0, <2>2, <3>1, <4>1
    <3> QED
      BY <3>2, <3>3
  <2> QED
    BY <2>1, <2>2
<1>8. f = [k \in 0..n |-> IF k = 0 THEN NextInternal(z) ELSE SkipEmpty(f[k - 1])]
  <2> HIDE DEF E, z, n
  <2> QED
    BY <1>7
<1>9. f[n] = new
  <2> HIDE DEF new, At
  <2>1. n \in 0..n /\ ~(j + 1 + n <= Len(l))
    BY <1>0
  <2>2. f[n] = E(n)
    BY <2>1
  <2> HIDE DEF f
  <2> QED
    BY <2>1, <2>2
<1> HIDE DEF f, n, z
<1>10. SerializerNext(z) = f[n]
  <2>1. n \in Nat
    BY <1>0
  <2> QED
    BY <1>1, <1>8, <2>1, SkipsAre, Zenon
<1> QED
  BY <1>9, <1>10 DEF z

-----------------------------------------------------------------------------
(* The stream, and the transcoder's MessageReader.                           *)
Got(data, g) == [data |-> data, stream |-> g]

LEMMA GrpcNextIs ==
  ASSUME NEW z, NEW buffer \in Seq(Byte), NEW read \in Nat, NEW finished,
         NEW data \in Seq(Byte), NEW y, SerializerNext(z) = Given(data, y)
  PROVE  GrpcNext(StreamState(z, buffer, Len(buffer), read, finished))
           = Got(data, StreamState(y, data, Len(data), read + Len(data), finished))
<1> DEFINE g == StreamState(z, buffer, Len(buffer), read, finished)
           h == StreamState(y, data, 0, read, finished)
<1>1. /\ g.serializer = z /\ g.current_buffer = buffer /\ g.position = Len(buffer)
      /\ g.bytes_read = read /\ g.finished = finished
  BY DEF StreamState
<1>2. /\ h.serializer = y /\ h.current_buffer = data /\ h.position = 0
      /\ h.bytes_read = read /\ h.finished = finished
  BY DEF StreamState
<1> HIDE DEF g
<1>3. Refilled(g, SerializerNext(z)) = h
  <2>1. Given(data, y).ok /\ Given(data, y).data = data /\ Given(data, y).z = y
    BY DEF Given
  <2> QED
    BY <1>1, <2>1, Zenon DEF Refilled
<1> HIDE DEF h
<1>4. GrpcNext(g) = RestOfBuffer(h)
  <2>1. ~(g.position < Len(g.current_buffer))
    BY <1>1
  <2> QED
    BY <1>1, <1>3, <2>1, Zenon DEF GrpcNext
<1>5. /\ SubSeq(data, 0 + 1, Len(data)) = data
      /\ read + Len(data) - 0 = read + Len(data)
  OBVIOUS
<1>6. RestOfBuffer(h) = Got(data, StreamState(y, data, Len(data), read + Len(data), finished))
  BY <1>2, <1>5, Zenon DEF RestOfBuffer, Got
<1> QED
  BY <1>4, <1>6 DEF g

LEMMA ReadsAre ==
  ASSUME NEW g, NEW n \in Nat,
         NEW f, f = [k \in 0..n |-> IF k = 0 THEN Got(<<>>, g) ELSE ReadMore(f[k - 1], n)]
  PROVE  ReadStream(g, n) = GivenBack(f[n], n)
<1> DEFINE Reads(s) == s = [k \in 0..n |-> IF k = 0 THEN Got(<<>>, g) ELSE ReadMore(s[k - 1], n)]
           s == CHOOSE s : Reads(s)
<1>2. Reads(s)
  BY Zenon
<1>3. ReadStream(g, n) = GivenBack(s[n], n)
  BY DEF ReadStream, Got
<1> HIDE DEF s
<1> DEFINE K == {k \in Nat : k <= n => s[k] = f[k]}
<1>4. 0 \in K
  BY <1>2
<1>5. ASSUME NEW k \in Nat, k \in K PROVE k + 1 \in K
  <2> SUFFICES ASSUME k + 1 <= n PROVE s[k + 1] = f[k + 1]
    OBVIOUS
  <2>1. s[k] = f[k] /\ k + 1 \in 0..n /\ (k + 1) - 1 = k /\ k + 1 # 0
    BY <1>5
  <2>2. s[k + 1] = ReadMore(s[k], n)
    BY <1>2, <2>1
  <2>3. f[k + 1] = ReadMore(f[k], n)
    BY <2>1
  <2> QED
    BY <2>1, <2>2, <2>3, Zenon
<1> HIDE DEF K
<1>6. n \in K
  BY <1>4, <1>5, NatSetInduction
<1>7. s[n] = f[n]
  BY <1>6 DEF K
<1> QED
  BY <1>3, <1>7, Zenon

LEMMA NoneGivenBack ==
  ASSUME NEW data \in Seq(Byte), NEW g PROVE GivenBack(Got(data, g), Len(data)) = Got(data, g)
<1>1. Got(data, g).data = data /\ Got(data, g).stream = g
  BY DEF Got
<1>2. SubSeq(data, 1, Len(data)) = data /\ ~(0 < Len(data) - Len(data))
  OBVIOUS
<1>3. BackUp(g, Len(data) - Len(data)) = g
  BY <1>2, Zenon DEF BackUp
<1> QED
  BY <1>1, <1>2, <1>3, Zenon DEF GivenBack, Got

LEMMA DelimiterRead ==
  ASSUME NEW z, NEW buffer \in Seq(Byte), NEW read \in Nat, NEW finished,
         NEW d \in Seq(Byte), Len(d) = DelimiterSize, NEW y, SerializerNext(z) = Given(d, y)
  PROVE  ReadStream(StreamState(z, buffer, Len(buffer), read, finished), DelimiterSize)
           = Got(d, StreamState(y, d, Len(d), read + Len(d), finished))
<1> DEFINE g == StreamState(z, buffer, Len(buffer), read, finished)
           n == DelimiterSize
           h == StreamState(y, d, Len(d), read + Len(d), finished)
           f == [k \in 0..n |-> IF k = 0 THEN Got(<<>>, g) ELSE Got(d, h)]
<1>0. n \in Nat /\ n = 5
  BY DEF DelimiterSize
<1>1. GrpcNext(g) = Got(d, h)
  BY GrpcNextIs
<1> HIDE DEF g, h
<1>2. ReadMore(Got(<<>>, g), n) = Got(d, h)
  <2>1. Got(<<>>, g).data = <<>> /\ Got(<<>>, g).stream = g /\ Got(d, h).data = d /\ Got(d, h).stream = h
    BY DEF Got
  <2>2. Len(<<>>) < n /\ <<>> \o d = d
    BY <1>0, ConcatEmpty
  <2>3. Joined(Got(<<>>, g), Got(d, h)) = Got(d, h)
    BY <2>1, <2>2, Zenon DEF Joined, Got
  <2> HIDE DEF n
  <2> QED
    BY <1>1, <2>1, <2>2, <2>3, Zenon DEF ReadMore
<1>3. ReadMore(Got(d, h), n) = Got(d, h)
  <2>1. Got(d, h).data = d /\ ~(Len(d) < n)
    BY <1>0 DEF Got
  <2> HIDE DEF n
  <2> QED
    BY <2>1, Zenon DEF ReadMore
<1> HIDE DEF n
<1>4. f = [k \in 0..n |-> IF k = 0 THEN Got(<<>>, g) ELSE ReadMore(f[k - 1], n)]
  <2> SUFFICES ASSUME NEW k \in 0..n, k # 0 PROVE f[k] = ReadMore(f[k - 1], n)
    BY <1>0
  <2>1. k - 1 \in 0..n /\ f[k] = Got(d, h) /\ f[k - 1] = IF k - 1 = 0 THEN Got(<<>>, g) ELSE Got(d, h)
    BY <1>0
  <2> HIDE DEF f
  <2> QED
    BY <1>2, <1>3, <2>1, Zenon
<1>5. f[n] = Got(d, h)
  BY <1>0
<1> HIDE DEF f
<1>6. ReadStream(g, n) = GivenBack(f[n], n)
  <2>1. n \in Nat
    BY <1>0
  <2> QED
    BY <1>4, <2>1, ReadsAre, Zenon
<1>7. GivenBack(Got(d, h), n) = Got(d, h)
  BY NoneGivenBack DEF n
<1> QED
  BY <1>5, <1>6, <1>7 DEF g, h, n

(* Reading m when the first i slices of it have been read.                   *)
Reading(m, i, buffer, read, finished) ==
  Got(Flat(m, i),
      StreamState(SerializerState(<<m>>, TRUE, i, Upto(m, Len(m)) - Upto(m, i)), buffer, Len(buffer),
                  read + Upto(m, i), finished))

LEMMA SliceRead ==
  ASSUME NEW m \in Slices, NEW i \in 0..Len(m), NEW buffer \in Seq(Byte), NEW read \in Nat, NEW finished
  PROVE  /\ ~(Upto(m, i) < Upto(m, Len(m))) =>
              ReadMore(Reading(m, i, buffer, read, finished), Upto(m, Len(m))) = Reading(m, i, buffer, read, finished)
         /\ Upto(m, i) < Upto(m, Len(m)) =>
              \E j \in (i + 1)..Len(m) :
                /\ Upto(m, i) < Upto(m, j) /\ m[j] \in Seq(Byte)
                /\ ReadMore(Reading(m, i, buffer, read, finished), Upto(m, Len(m)))
                     = Reading(m, j, m[j], read, finished)
<1> DEFINE n == Upto(m, Len(m))
           z == SerializerState(<<m>>, TRUE, i, n - Upto(m, i))
           g == StreamState(z, buffer, Len(buffer), read + Upto(m, i), finished)
           r == Reading(m, i, buffer, read, finished)
<1>0. m \in Seq(Seq(Byte)) /\ Len(m) \in Nat /\ i \in Nat /\ i <= Len(m) /\ Len(m) \in 0..Len(m)
  BY DEF Slices
<1>1. Flat(m, i) \in Seq(Byte) /\ Upto(m, i) = Len(Flat(m, i)) /\ Upto(m, i) \in Nat /\ n \in Nat
  BY <1>0, FlatIs
<1>2. r.data = Flat(m, i) /\ r.stream = g
  BY DEF Reading, Got
<1>3. CASE ~(Upto(m, i) < n)
  <2> HIDE DEF n, r, g
  <2>1. ReadMore(r, n) = r
    BY <1>1, <1>2, <1>3, Zenon DEF ReadMore
  <2> QED
    BY <1>3, <2>1 DEF n, r
<1>4. CASE Upto(m, i) < n
  <2> DEFINE Full == {k \in (i + 1)..Len(m) : m[k] # <<>>}
  <2>1. Full # {}
    <3> SUFFICES ASSUME \A k \in (i + 1)..Len(m) : m[k] = <<>> PROVE FALSE
      OBVIOUS
    <3>1. Len(m) \in i..Len(m)
      BY <1>0
    <3>2. Flat(m, Len(m)) = Flat(m, i)
      BY <1>0, <3>1, FlatGrows
    <3>3. n = Len(Flat(m, Len(m)))
      BY <1>0, FlatIs
    <3> QED
      BY <1>1, <1>4, <3>2, <3>3
  <2>2. PICK j \in Full : \A k \in Full : j <= k
    <3>1. Full \subseteq Nat
      BY <1>0
    <3>2. PICK j \in Full : \A k \in Full : ~(<<k, j>> \in OpToRel(<, Nat))
      BY <2>1, <3>1, WFMin, NatLessThanWellFounded, Zenon
    <3>3. \A k \in Full : <<k, j>> \in Nat \X Nat
      BY <3>1
    <3>4. \A k \in Full : ~(<<k, j>>[1] < <<k, j>>[2])
      BY <3>2, <3>3, Zenon DEF OpToRel
    <3>5. \A k \in Full : j <= k
      BY <3>1, <3>4
    <3> QED
      BY <3>5
  <2>3. /\ j \in (i + 1)..Len(m) /\ m[j] # <<>> /\ m[j] \in Seq(Byte) /\ j - 1 \in i..Len(m)
        /\ j - 1 \in 0..(Len(m) - 1) /\ (j - 1) + 1 = j /\ j \in 0..Len(m)
    BY <1>0, <2>2
  <2>4. \A k \in (i + 1)..(j - 1) : m[k] = <<>>
    BY <1>0, <2>2
  <2>5. Flat(m, j - 1) = Flat(m, i) /\ Upto(m, j - 1) = Upto(m, i)
    <3>1. j - 1 \in 0..Len(m)
      BY <2>3, <1>0
    <3>2. Upto(m, j - 1) = Len(Flat(m, j - 1))
      BY <1>0, <3>1, FlatIs
    <3>3. Flat(m, j - 1) = Flat(m, i)
      BY <1>0, <2>3, <2>4, FlatGrows
    <3> QED
      BY <1>1, <3>2, <3>3
  <2>6. Flat(m, j) = Flat(m, i) \o m[j] /\ Upto(m, j) = Upto(m, i) + Len(m[j])
    <3>1. Flat(m, (j - 1) + 1) = Flat(m, j - 1) \o m[(j - 1) + 1] /\ Upto(m, (j - 1) + 1) = Upto(m, j - 1) + Len(m[(j - 1) + 1])
      BY <1>0, <2>3, FlatIs
    <3> QED
      BY <2>3, <2>5, <3>1
  <2>7. Len(m[j]) \in Nat \ {0}
    BY <2>3
  <2>8. Upto(m, i) < Upto(m, j) /\ (n - Upto(m, i)) - Len(m[j]) = n - Upto(m, j)
        /\ (read + Upto(m, i)) + Len(m[j]) = read + Upto(m, j) /\ n - Upto(m, i) \in Int /\ read + Upto(m, i) \in Nat
    <3> DEFINE u == Upto(m, i)
               v == Upto(m, j)
               l == Len(m[j])
    <3>1. u \in Nat /\ n \in Nat /\ v = u + l /\ l \in Nat \ {0}
      BY <1>1, <2>6, <2>7
    <3> HIDE DEF u, v, l, n
    <3>2. u < v /\ (n - u) - l = n - v /\ (read + u) + l = read + v /\ n - u \in Int /\ read + u \in Nat
      BY <3>1
    <3> QED
      BY <3>2 DEF u, v, l
  <2> DEFINE y == SerializerState(<<m>>, TRUE, j, n - Upto(m, j))
             h == StreamState(y, m[j], Len(m[j]), read + Upto(m, j), finished)
  <2>9. SerializerNext(z) = Given(m[j], y)
    <3> DEFINE b == n - Upto(m, i)
    <3>1. b \in Int /\ b - Len(m[j]) = n - Upto(m, j)
      BY <2>8
    <3> HIDE DEF b, n
    <3>2. SerializerNext(SerializerState(<<m>>, TRUE, i, b)) = Given(m[j], SerializerState(<<m>>, TRUE, j, b - Len(m[j])))
      BY <1>0, <2>3, <2>4, <3>1, SliceFound
    <3> QED
      BY <3>1, <3>2 DEF b
  <2>10. GrpcNext(g) = Got(m[j], h)
    <3> HIDE DEF z, y
    <3> DEFINE q == read + Upto(m, i)
    <3>1. q \in Nat /\ q + Len(m[j]) = read + Upto(m, j)
      BY <2>8
    <3> HIDE DEF q
    <3>2. GrpcNext(StreamState(z, buffer, Len(buffer), q, finished))
            = Got(m[j], StreamState(y, m[j], Len(m[j]), q + Len(m[j]), finished))
      <4> DEFINE d == m[j]
      <4>1. d \in Seq(Byte) /\ SerializerNext(z) = Given(d, y)
        BY <2>3, <2>9
      <4> HIDE DEF d
      <4>2. GrpcNext(StreamState(z, buffer, Len(buffer), q, finished))
              = Got(d, StreamState(y, d, Len(d), q + Len(d), finished))
        BY <3>1, <4>1, GrpcNextIs
      <4> QED
        BY <4>2 DEF d
    <3> QED
      BY <3>1, <3>2 DEF q
  <2>11. ReadMore(r, n) = Reading(m, j, m[j], read, finished)
    <3>1. Got(m[j], h).data = m[j] /\ Got(m[j], h).stream = h
      BY DEF Got
    <3>2. Len(r.data) < n
      BY <1>1, <1>2, <1>4
    <3>3. Reading(m, j, m[j], read, finished) = Got(Flat(m, j), h)
      BY DEF Reading
    <3> HIDE DEF r, g, h, n
    <3>4. ReadMore(r, n) = Joined(r, Got(m[j], h))
      BY <1>2, <2>10, <3>2, Zenon DEF ReadMore
    <3>5. Joined(r, Got(m[j], h)) = Got(Flat(m, j), h)
      BY <1>2, <2>6, <3>1, Zenon DEF Joined, Got
    <3> QED
      BY <3>3, <3>4, <3>5
  <2> HIDE DEF r
  <2> QED
    BY <1>4, <2>3, <2>8, <2>11 DEF r
<1> QED
  BY <1>3, <1>4

LEMMA MessageRead ==
  ASSUME NEW m \in Slices, NEW buffer \in Seq(Byte), NEW read \in Nat, NEW finished
  PROVE  \E i \in 0..Len(m), b \in Seq(Byte) :
           /\ \A j \in (i + 1)..Len(m) : m[j] = <<>>
           /\ ReadStream(StreamState(SerializerState(<<m>>, TRUE, 0, Upto(m, Len(m))), buffer, Len(buffer), read, finished),
                         Upto(m, Len(m)))
                = Got(FlattenSeq(m),
                      StreamState(SerializerState(<<m>>, TRUE, i, 0), b, Len(b), read + Upto(m, Len(m)), finished))
<1> DEFINE n == Upto(m, Len(m))
           At(i, b) == Reading(m, i, b, read, finished)
           X == {At(p[1], p[2]) : p \in (0..Len(m)) \X Seq(Byte)}
           step == [k \in 1..n |-> [x \in X |-> ReadMore(x, n)]]
           g == StreamState(SerializerState(<<m>>, TRUE, 0, n), buffer, Len(buffer), read, finished)
<1>0. m \in Seq(Seq(Byte)) /\ Len(m) \in Nat /\ Len(m) \in 0..Len(m) /\ 0 \in 0..Len(m)
  BY DEF Slices
<1>1. n \in Nat /\ Flat(m, Len(m)) = FlattenSeq(m) /\ Flat(m, 0) = <<>> /\ Upto(m, 0) = 0
  <2>1. Upto(m, 0) = Len(Flat(m, 0)) /\ Flat(m, 0) = <<>> /\ Flat(m, Len(m)) = FlattenSeq(m)
    BY <1>0, FlatIs
  <2>2. n \in Nat
    BY <1>0, FlatIs
  <2> QED
    BY <2>1, <2>2
<1>2. \A i \in 0..Len(m) : Upto(m, i) \in Nat /\ Upto(m, i) <= n /\ Upto(m, i) = Len(Flat(m, i))
  <2> SUFFICES ASSUME NEW i \in 0..Len(m) PROVE Upto(m, i) \in Nat /\ Upto(m, i) <= n /\ Upto(m, i) = Len(Flat(m, i))
    OBVIOUS
  <2>1. Len(m) \in i..Len(m)
    BY <1>0
  <2>2. Upto(m, i) <= Upto(m, Len(m))
    BY <1>0, <2>1, FlatGrows
  <2> QED
    BY <1>0, <2>2, FlatIs
<1> DEFINE Full(x, k) == \E i \in 0..Len(m), b \in Seq(Byte) : x = At(i, b) /\ Upto(m, i) >= k
<1>3. ASSUME NEW x \in X, NEW k \in 0..n, Full(x, k)
      PROVE  ReadMore(x, n) \in X /\ (k < n => Full(ReadMore(x, n), k + 1))
  <2>1. PICK i \in 0..Len(m), b \in Seq(Byte) : x = At(i, b) /\ Upto(m, i) >= k
    BY <1>3
  <2>2. CASE ~(Upto(m, i) < n)
    <3>1. ReadMore(x, n) = x
      BY <2>1, <2>2, SliceRead
    <3>2. k < n => Upto(m, i) >= k + 1
      BY <1>1, <1>2, <2>1, <2>2
    <3> HIDE DEF At, n, X
    <3> QED
      BY <2>1, <3>1, <3>2
  <2>3. CASE Upto(m, i) < n
    <3>1. PICK j \in (i + 1)..Len(m) : /\ Upto(m, i) < Upto(m, j) /\ m[j] \in Seq(Byte)
                                      /\ ReadMore(x, n) = At(j, m[j])
      BY <2>1, <2>3, SliceRead
    <3>2. j \in 0..Len(m)
      BY <1>0
    <3>3. Upto(m, j) >= k + 1
      BY <1>2, <2>1, <3>1, <3>2
    <3>4. <<j, m[j]>> \in (0..Len(m)) \X Seq(Byte)
      BY <3>1, <3>2
    <3> HIDE DEF At
    <3>5. ReadMore(x, n) \in X
      BY <3>1, <3>4
    <3> QED
      BY <3>1, <3>2, <3>3, <3>5
  <2> QED
    BY <2>2, <2>3
<1>4. ASSUME NEW x \in X PROVE Full(x, 0)
  <2>1. PICK p \in (0..Len(m)) \X Seq(Byte) : x = At(p[1], p[2])
    OBVIOUS
  <2>2. p[1] \in 0..Len(m) /\ p[2] \in Seq(Byte) /\ Upto(m, p[1]) >= 0
    BY <1>2
  <2> HIDE DEF At
  <2> QED
    BY <2>1, <2>2
<1>5. Got(<<>>, g) \in X /\ Got(<<>>, g) = At(0, buffer)
  <2>1. n - 0 = n /\ read + 0 = read
    BY <1>1
  <2>2. At(0, buffer) = Got(<<>>, g)
    BY <1>1, <2>1, Zenon DEF Reading
  <2>3. <<0, buffer>> \in (0..Len(m)) \X Seq(Byte)
    BY <1>0
  <2> HIDE DEF At, g
  <2> QED
    BY <2>2, <2>3
<1> HIDE DEF X, At, g, n
<1>6. \A k \in (0 + 1)..n : step[k] \in [X -> X]
  <2> SUFFICES ASSUME NEW k \in 1..n, NEW x \in X PROVE ReadMore(x, n) \in X
    BY <1>1
  <2>1. 0 \in 0..n
    BY <1>1
  <2> HIDE DEF Full
  <2> QED
    BY <1>3, <1>4, <2>1
<1>7. PICK f \in [0..n -> X] : Loop(step, 0, n, Got(<<>>, g), f)
  <2> HIDE DEF step
  <2>1. 0 \in Nat /\ 0 <= n
    BY <1>1
  <2> QED
    BY <1>1, <1>5, <1>6, <2>1, LoopExists, Zenon
<1>8. f = [k \in 0..n |-> IF k = 0 THEN Got(<<>>, g) ELSE ReadMore(f[k - 1], n)]
  <2>1. \A k \in 0..n : f[k] = IF k = 0 THEN Got(<<>>, g) ELSE step[k][f[k - 1]]
    BY <1>7 DEF Loop
  <2>2. \A k \in 0..n : k # 0 => k \in 1..n /\ f[k - 1] \in X
    BY <1>1, <1>7
  <2>3. \A k \in 1..n : \A x \in X : step[k][x] = ReadMore(x, n)
    OBVIOUS
  <2> HIDE DEF step
  <2>4. \A k \in 0..n : f[k] = IF k = 0 THEN Got(<<>>, g) ELSE ReadMore(f[k - 1], n)
    BY <2>1, <2>2, <2>3, Zenon
  <2> QED
    BY <1>7, <2>4, Zenon
<1>9. ReadStream(g, n) = GivenBack(f[n], n)
  BY <1>1, <1>8, ReadsAre, Zenon
<1>10. Full(f[n], n)
  <2> DEFINE K == {k \in Nat : k <= n => Full(f[k], k)}
  <2> HIDE DEF Full
  <2>1. 0 \in K
    BY <1>1, <1>4, <1>7
  <2>2. ASSUME NEW k \in Nat, k \in K PROVE k + 1 \in K
    <3> SUFFICES ASSUME k + 1 <= n PROVE Full(f[k + 1], k + 1)
      OBVIOUS
    <3>1. k \in 0..n /\ k < n /\ k + 1 \in 0..n /\ (k + 1) - 1 = k /\ k + 1 # 0 /\ Full(f[k], k)
      BY <1>1, <2>2
    <3>2. f[k] \in X /\ f[k + 1] = ReadMore(f[k], n)
      BY <1>7, <1>8, <3>1
    <3>3. Full(ReadMore(f[k], n), k + 1)
      BY <1>3, <3>1, <3>2
    <3> QED
      BY <3>2, <3>3, Zenon
  <2> HIDE DEF K
  <2>3. n \in K
    BY <1>1, <2>1, <2>2, NatSetInduction
  <2> QED
    BY <1>1, <2>3 DEF K
<1>11. PICK i \in 0..Len(m), b \in Seq(Byte) : f[n] = At(i, b) /\ Upto(m, i) >= n
  BY <1>10
<1>12. Upto(m, i) = n
  BY <1>1, <1>2, <1>11
<1>13. (\A j \in (i + 1)..Len(m) : m[j] = <<>>) /\ Flat(m, i) = FlattenSeq(m)
  <2>1. Len(m) \in i..Len(m)
    BY <1>0
  <2>2. \A j \in (i + 1)..Len(m) : m[j] = <<>>
    BY <1>0, <1>12, <2>1, FlatGrows DEF n
  <2>3. Flat(m, Len(m)) = Flat(m, i)
    BY <1>0, <2>1, <2>2, FlatGrows
  <2> QED
    BY <1>1, <2>2, <2>3
<1> DEFINE h == StreamState(SerializerState(<<m>>, TRUE, i, 0), b, Len(b), read + n, finished)
<1>14. f[n] = Got(FlattenSeq(m), h)
  <2>1. n - n = 0
    BY <1>1
  <2>2. At(i, b) = Got(Flat(m, i), StreamState(SerializerState(<<m>>, TRUE, i, n - Upto(m, i)), b, Len(b), read + Upto(m, i), finished))
    BY DEF At, Reading, n
  <2> QED
    BY <1>11, <1>12, <1>13, <2>1, <2>2, Zenon
<1>15. GivenBack(Got(FlattenSeq(m), h), n) = Got(FlattenSeq(m), h)
  <2> DEFINE d == FlattenSeq(m)
  <2>1. d \in Seq(Byte) /\ Len(d) = n
    <3>1. Flat(m, Len(m)) \in Seq(Byte) /\ Upto(m, Len(m)) = Len(Flat(m, Len(m)))
      BY <1>0, FlatIs
    <3> QED
      BY <1>1, <3>1 DEF n
  <2> HIDE DEF d, h
  <2>2. GivenBack(Got(d, h), Len(d)) = Got(d, h)
    BY <2>1, NoneGivenBack
  <2> QED
    BY <2>1, <2>2 DEF d
<1>16. ReadStream(g, n) = Got(FlattenSeq(m), h)
  <2> HIDE DEF h
  <2> QED
    BY <1>9, <1>14, <1>15, Zenon
<1> QED
  BY <1>13, <1>16 DEF g, n

LEMMA StreamIs ==
  ASSUME NEW z, NEW buffer \in Seq(Byte), NEW read, NEW finished, NEW bytes \in Int, z.byte_count = bytes
  PROVE  BytesAvailable(StreamState(z, buffer, Len(buffer), read, finished)) = bytes
<1> DEFINE g == StreamState(z, buffer, Len(buffer), read, finished)
<1>1. g.serializer = z /\ g.current_buffer = buffer /\ g.position = Len(buffer)
  BY DEF StreamState
<1> HIDE DEF g
<1>2. BytesAvailable(g) = Len(buffer) - Len(buffer) + bytes
  BY <1>1, Zenon DEF BytesAvailable
<1>3. Len(buffer) - Len(buffer) + bytes = bytes
  OBVIOUS
<1> QED
  BY <1>2, <1>3 DEF g

(* The message reader takes the message that was added, and all of it.       *)
LEMMA DelimiterFirst ==
  ASSUME NEW z, UsedUp(z), NEW m \in Slices
  PROVE  LET n == Upto(m, Len(m))
         IN  /\ AddMessage(z, m).byte_count = n + DelimiterSize
             /\ SerializerNext(AddMessage(z, m)) = Given(Delimiter(m), SerializerState(<<m>>, TRUE, 0, n))
<1> DEFINE n == Upto(m, Len(m))
           b == n + DelimiterSize
           given == Given(Delimiter(m), SerializerState(<<m>>, TRUE, 0, n))
<1>0. n \in Nat /\ b \in Int /\ 0 + b = b /\ b - DelimiterSize = n
  <2>1. m \in Seq(Seq(Byte)) /\ Len(m) \in 0..Len(m)
    BY DEF Slices
  <2>2. n \in Nat
    BY <2>1, FlatIs
  <2> HIDE DEF n
  <2> QED
    BY <2>2 DEF DelimiterSize
<1>1. \A c, i : \A l \in Seq(Slices) :
        z = SerializerState(l, c, i, 0) => AddMessage(z, m) = SerializerState(Append(l, m), c, i, b)
  <2> SUFFICES ASSUME NEW l \in Seq(Slices), NEW c, NEW i, z = SerializerState(l, c, i, 0)
               PROVE  AddMessage(z, m) = SerializerState(Append(l, m), c, i, b)
    OBVIOUS
  <2>1. z.messages = l /\ z.delimiter_consumed = c /\ z.current_slice_no = i /\ z.byte_count = 0
    BY DEF SerializerState
  <2> HIDE DEF b
  <2>2. AddMessage(z, m) = SerializerState(Append(l, m), c, i, 0 + b)
    BY <2>1, Zenon DEF AddMessage, WithMessage, b
  <2> QED
    BY <1>0, <2>2
<1>2. ASSUME z = Serializer
      PROVE  AddMessage(z, m).byte_count = b /\ SerializerNext(AddMessage(z, m)) = given
  <2>1. AddMessage(z, m) = SerializerState(<<m>>, FALSE, 0, b)
    <3>1. <<>> \in Seq(Slices) /\ Append(<<>>, m) = <<m>>
      OBVIOUS
    <3>2. z = SerializerState(<<>>, FALSE, 0, 0)
      BY <1>2 DEF Serializer
    <3> HIDE DEF b
    <3> QED
      BY <1>1, <3>1, <3>2
  <2>2. SerializerNext(SerializerState(<<m>>, FALSE, 0, b)) = given
    <3> HIDE DEF b, n
    <3> QED
      BY <1>0, FirstMessageFound
  <2>3. SerializerState(<<m>>, FALSE, 0, b).byte_count = b
    BY DEF SerializerState
  <2> QED
    BY <2>1, <2>2, <2>3
<1>3. ASSUME NEW l \in Replies, NEW i \in 0..Len(l), z = SerializerState(<<l>>, TRUE, i, 0),
             \A j \in (i + 1)..Len(l) : l[j] = <<>>
      PROVE  AddMessage(z, m).byte_count = b /\ SerializerNext(AddMessage(z, m)) = given
  <2>0. l \in Slices
    BY MessageAssumption DEF Slices
  <2>1. AddMessage(z, m) = SerializerState(<<l, m>>, TRUE, i, b)
    <3>1. <<l>> \in Seq(Slices) /\ Append(<<l>>, m) = <<l, m>>
      BY <2>0, AppendToOne
    <3> HIDE DEF b
    <3> QED
      BY <1>1, <1>3, <3>1
  <2>2. SerializerNext(SerializerState(<<l, m>>, TRUE, i, b)) = given
    <3> HIDE DEF b, n
    <3> QED
      BY <1>0, <1>3, <2>0, NextMessageFound
  <2>3. SerializerState(<<l, m>>, TRUE, i, b).byte_count = b
    BY DEF SerializerState
  <2> QED
    BY <2>1, <2>2, <2>3
<1> HIDE DEF given, b
<1>4. AddMessage(z, m).byte_count = b /\ SerializerNext(AddMessage(z, m)) = given
  <2>1. CASE z = Serializer
    BY <1>2, <2>1
  <2>2. CASE z # Serializer
    <3>1. PICK l \in Replies : \E i \in 0..Len(l) :
            z = SerializerState(<<l>>, TRUE, i, 0) /\ \A j \in (i + 1)..Len(l) : l[j] = <<>>
      BY <2>2, Zenon DEF UsedUp
    <3>2. PICK i \in 0..Len(l) :
            z = SerializerState(<<l>>, TRUE, i, 0) /\ \A j \in (i + 1)..Len(l) : l[j] = <<>>
      BY <3>1, Zenon
    <3> QED
      BY <1>3, <3>2, Zenon
  <2> QED
    BY <2>1, <2>2
<1> QED
  BY <1>4 DEF given, b

LEMMA MessageFound ==
  ASSUME NEW g, Drained(g), NEW m \in Replies
  PROVE  \E h : /\ NextMessage([g EXCEPT !.serializer = AddMessage(g.serializer, m)]) = {Got(FlattenSeq(m), h)}
               /\ Drained(h)
<1> DEFINE n == Upto(m, Len(m))
           z == AddMessage(g.serializer, m)
           y == SerializerState(<<m>>, TRUE, 0, n)
           buffer == g.current_buffer
           read == g.bytes_read
           finished == g.finished
           d == Delimiter(m)
           added == StreamState(z, buffer, Len(buffer), read, finished)
           head == StreamState(y, d, Len(d), read + Len(d), finished)
<1>0. m \in Slices /\ buffer \in Seq(Byte) /\ read \in Nat /\ UsedUp(g.serializer)
      /\ n \in Nat /\ Fits32(n) /\ 0 \in Byte
  <2>1. m \in Seq(Seq(Byte)) /\ Len(m) \in 0..Len(m) /\ Len(FlattenSeq(m)) < ByteValues * ByteValues * ByteValues * ByteValues
    BY MessageAssumption DEF Sized
  <2>2. n \in Nat /\ n = Len(FlattenSeq(m))
    BY <2>1, FlatIs
  <2>3. 0 \in Byte
    BY ByteAssumption DEF Byte
  <2> HIDE DEF n
  <2> QED
    BY <2>1, <2>2, <2>3 DEF Drained, Slices, Fits32
<1>1. [g EXCEPT !.serializer = z] = added
  <2>1. g = StreamState(g.serializer, buffer, Len(buffer), read, finished)
    BY DEF Drained
  <2> DEFINE a == g.serializer
             p == Len(buffer)
  <2> HIDE DEF a, z, buffer, read, finished, p
  <2>2. [StreamState(a, buffer, p, read, finished) EXCEPT !.serializer = z] = StreamState(z, buffer, p, read, finished)
    BY DEF StreamState
  <2> QED
    BY <2>1, <2>2 DEF a, p
<1>2. z.byte_count = n + DelimiterSize /\ SerializerNext(z) = Given(d, y)
  BY <1>0, DelimiterFirst
<1>3. d \in Seq(Byte) /\ Len(d) = DelimiterSize /\ LengthIn(d) = n
  BY <1>0, DelimiterIs DEF Delimiter
<1>4. y.byte_count = n
  BY DEF SerializerState
<1> HIDE DEF z, y, n, d, buffer, read, finished
<1>5. BytesAvailable(added) = n + DelimiterSize
  <2>1. n + DelimiterSize \in Int
    BY <1>0 DEF DelimiterSize
  <2> QED
    BY <1>0, <1>2, <2>1, StreamIs
<1>6. ReadStream(added, DelimiterSize) = Got(d, head)
  <2>1. d \in Seq(Byte) /\ Len(d) = DelimiterSize
    BY <1>3
  <2>2. buffer \in Seq(Byte) /\ read \in Nat
    BY <1>0
  <2>3. SerializerNext(z) = Given(d, y)
    BY <1>2
  <2> HIDE DEF added, head
  <2>4. ReadStream(StreamState(z, buffer, Len(buffer), read, finished), DelimiterSize)
           = Got(d, StreamState(y, d, Len(d), read + Len(d), finished))
    BY <2>1, <2>2, <2>3, DelimiterRead, SMTT(30)
  <2> QED
    BY <2>4 DEF added, head
<1>7. BytesAvailable(head) = n
  BY <1>0, <1>3, <1>4, StreamIs
<1>8. NextMessage(added) = MessageAfter(Got(d, head))
  <2>1. ~(n + DelimiterSize < DelimiterSize)
    BY <1>0 DEF DelimiterSize
  <2> HIDE DEF added, head
  <2> QED
    BY <1>5, <1>6, <2>1, Zenon DEF NextMessage
<1>9. MessageAfter(Got(d, head)) = {ReadStream(head, n)}
  <2> HIDE DEF head
  <2>1. Got(d, head).stream = head /\ Got(d, head).data = d
    BY DEF Got
  <2>2. ~(n < n)
    BY <1>0
  <2> QED
    BY <1>3, <1>7, <2>1, <2>2, Zenon DEF MessageAfter
<1>10. PICK i \in 0..Len(m), b \in Seq(Byte) :
         /\ \A j \in (i + 1)..Len(m) : m[j] = <<>>
         /\ ReadStream(head, n)
              = Got(FlattenSeq(m),
                    StreamState(SerializerState(<<m>>, TRUE, i, 0), b, Len(b), (read + Len(d)) + n, finished))
  <2> DEFINE q == read + Len(d)
  <2>1. q \in Nat
    BY <1>0, <1>3
  <2> HIDE DEF q
  <2>2. \E i \in 0..Len(m), b \in Seq(Byte) :
         /\ \A j \in (i + 1)..Len(m) : m[j] = <<>>
         /\ ReadStream(StreamState(y, d, Len(d), q, finished), n)
              = Got(FlattenSeq(m),
                    StreamState(SerializerState(<<m>>, TRUE, i, 0), b, Len(b), q + n, finished))
    BY <1>0, <1>3, <2>1, MessageRead DEF y, n
  <2> QED
    BY <2>2 DEF q
<1> DEFINE h == StreamState(SerializerState(<<m>>, TRUE, i, 0), b, Len(b), (read + Len(d)) + n, finished)
<1>11. Drained(h)
  <2>1. /\ h.serializer = SerializerState(<<m>>, TRUE, i, 0) /\ h.current_buffer = b
        /\ h.bytes_read = (read + Len(d)) + n /\ h.finished = finished
    BY DEF StreamState
  <2>2. h = StreamState(h.serializer, h.current_buffer, Len(h.current_buffer), h.bytes_read, h.finished)
    BY <2>1, Zenon
  <2>3. (read + Len(d)) + n \in Nat
    BY <1>0, <1>3
  <2> HIDE DEF h
  <2>4. UsedUp(h.serializer)
    BY <1>10, <2>1 DEF UsedUp
  <2> QED
    BY <2>1, <2>2, <2>3, <2>4 DEF Drained
<1> HIDE DEF h, added, head
<1>12. NextMessage(added) = {Got(FlattenSeq(m), h)}
  BY <1>8, <1>9, <1>10, Zenon DEF h
<1> QED
  BY <1>1, <1>11, <1>12 DEF z

-----------------------------------------------------------------------------
(* The length of a trailer frame is that of the lines in it.                 *)
LEMMA TotalOfOneMore ==
  ASSUME NEW n \in Nat, NEW v \in [1..n -> Int], NEW a \in Int, NEW w \in [1..(n + 1) -> Int],
         w[1] = a, \A i \in 1..n : w[i + 1] = v[i]
  PROVE  Total(v) \in Int /\ Total(w) = a + Total(v)
<1>0. n + 1 \in Nat
  OBVIOUS
<1>1. PICK s \in [0..n -> Int] : /\ s[0] = 0
                                 /\ \A i \in 1..n : s[i] = s[i - 1] + v[i]
                                 /\ Total(v) = s[n]
  BY TotalIsSum
<1>2. PICK t \in [0..(n + 1) -> Int] : /\ t[0] = 0
                                       /\ \A i \in 1..(n + 1) : t[i] = t[i - 1] + w[i]
                                       /\ Total(w) = t[n + 1]
  BY <1>0, TotalIsSum
<1> DEFINE T == {k \in Nat : k <= n => t[k + 1] = a + s[k]}
<1>3. 0 \in T
  <2>1. 1 \in 1..(n + 1) /\ 1 - 1 = 0
    OBVIOUS
  <2>2. t[1] = t[0] + w[1]
    BY <1>2, <2>1
  <2> QED
    BY <1>1, <1>2, <2>2
<1>4. ASSUME NEW k \in Nat, k \in T PROVE k + 1 \in T
  <2> SUFFICES ASSUME k + 1 <= n PROVE t[(k + 1) + 1] = a + s[k + 1]
    OBVIOUS
  <2>0. /\ k + 1 \in 1..n /\ (k + 1) - 1 = k /\ k <= n /\ (k + 1) + 1 \in 1..(n + 1)
        /\ ((k + 1) + 1) - 1 = k + 1
    OBVIOUS
  <2>1. s[k + 1] = s[k] + v[k + 1] /\ t[(k + 1) + 1] = t[k + 1] + w[(k + 1) + 1]
    BY <1>1, <1>2, <2>0
  <2>2. w[(k + 1) + 1] = v[k + 1] /\ v[k + 1] \in Int /\ s[k] \in Int
    BY <2>0
  <2>3. t[k + 1] = a + s[k]
    BY <1>4, <2>0
  <2>4. (a + s[k]) + v[k + 1] = a + (s[k] + v[k + 1])
    <3>1. \A x, y \in Int : (a + x) + y = a + (x + y)
      OBVIOUS
    <3> QED
      BY <2>2, <3>1, Zenon
  <2> QED
    BY <2>1, <2>2, <2>3, <2>4, Zenon
<1> HIDE DEF T
<1>5. n \in T
  BY <1>3, <1>4, NatSetInduction
<1> QED
  BY <1>1, <1>2, <1>5 DEF T

SizeOf(lines) == Total([i \in DOMAIN lines |-> lines[i].size])

LEMMA LineAdded ==
  ASSUME NEW T, \A x \in T : x.size \in Nat, NEW a \in T, NEW c \in Seq(T)
  PROVE  SizeOf(c) \in Int /\ SizeOf(<<a>> \o c) = a.size + SizeOf(c)
<1> DEFINE n == Len(c)
           d == <<a>> \o c
           v == [i \in DOMAIN c |-> c[i].size]
           w == [i \in DOMAIN d |-> d[i].size]
<1>1. n \in Nat /\ DOMAIN c = 1..n /\ \A i \in 1..n : c[i] \in T
  OBVIOUS
<1>2. DOMAIN d = 1..(n + 1) /\ d[1] = a /\ \A i \in 1..n : d[i + 1] = c[i]
  OBVIOUS
<1>3. \A i \in 1..(n + 1) : d[i] \in T
  OBVIOUS
<1>4. v \in [1..n -> Int] /\ w \in [1..(n + 1) -> Int]
  <2> HIDE DEF d
  <2> QED
    BY <1>1, <1>2, <1>3
<1>5. w[1] = a.size /\ \A i \in 1..n : w[i + 1] = v[i]
  <2> HIDE DEF d
  <2> QED
    BY <1>1, <1>2
<1>6. a.size \in Int
  OBVIOUS
<1> HIDE DEF v, w, d, n
<1>7. Total(v) \in Int /\ Total(w) = a.size + Total(v)
  BY <1>1, <1>4, <1>5, <1>6, TotalOfOneMore
<1> QED
  BY <1>7 DEF v, w, d, SizeOf

LEMMA LinesAdded ==
  ASSUME NEW T, \A x \in T : x.size \in Nat, NEW a \in T, NEW b \in T, NEW c \in Seq(T), NEW both
  PROVE  SizeOf(<<a>> \o (IF both THEN <<b>> ELSE <<>>) \o c)
           = a.size + (IF both THEN b.size ELSE 0) + SizeOf(c)
<1>0. a.size \in Int /\ b.size \in Int
  OBVIOUS
<1>3. SizeOf(c) \in Int
  BY LineAdded
<1>1. CASE both
  <2> DEFINE d == <<b>> \o c
  <2>1. d \in Seq(T) /\ (<<a>> \o <<b>>) \o c = <<a>> \o d
    <3>1. <<a>> \in Seq(T) /\ <<b>> \in Seq(T)
      OBVIOUS
    <3> QED
      BY <3>1, ConcatIs, ConcatAssociates
  <2>2. SizeOf(d) = b.size + SizeOf(c)
    BY LineAdded
  <2> HIDE DEF d
  <2>3. SizeOf(<<a>> \o d) = a.size + SizeOf(d)
    BY <2>1, LineAdded
  <2>4. a.size + (b.size + SizeOf(c)) = (a.size + b.size) + SizeOf(c)
    BY <1>0, <1>3
  <2> QED
    BY <1>1, <2>1, <2>2, <2>3, <2>4, Zenon
<1>2. CASE ~both
  <2>1. (<<a>> \o <<>>) \o c = <<a>> \o c
    <3>1. <<a>> \in Seq(T)
      OBVIOUS
    <3> QED
      BY <3>1, ConcatEmpty
  <2>2. SizeOf(<<a>> \o c) = a.size + SizeOf(c)
    BY LineAdded
  <2> QED
    BY <1>0, <1>2, <1>3, <2>1, <2>2
<1> QED
  BY <1>1, <1>2

-----------------------------------------------------------------------------
(* What a read leaves alone.                                                 *)
Unread == {"kind", "replied", "out", "response", "trailers", "status", "header", "finished"}
OnlyRead(s, t) == DOMAIN t = DOMAIN s /\ \A f \in Unread : t[f] = s[f]

LEMMA FieldsAre ==
  Fields = {"kind", "address", "messages", "wire", "reading_body", "arrived", "request", "slices",
            "translated", "partial", "garbled", "pending", "reading", "try", "read", "end", "replied", "response",
            "header", "out", "trailers", "status", "backend_status", "finished"}
BY DEF Fields, NewServerCall

LEMMA UnreadAre ==
  ASSUME NEW s, NEW t, OnlyRead(s, t)
  PROVE  /\ t.kind = s.kind /\ t.replied = s.replied /\ t.out = s.out /\ t.response = s.response
         /\ t.trailers = s.trailers /\ t.status = s.status /\ t.header = s.header /\ t.finished = s.finished
         /\ DOMAIN t = DOMAIN s
BY DEF OnlyRead, Unread

LEMMA OnlyReadOn ==
  ASSUME NEW s, NEW t, NEW u, OnlyRead(s, t), OnlyRead(t, u) PROVE OnlyRead(s, u)
BY Zenon DEF OnlyRead

LEMMA OnlyReadItself == ASSUME NEW s PROVE OnlyRead(s, s)
BY Zenon DEF OnlyRead

LEMMA OneFieldRead ==
  ASSUME NEW s, NEW f, NEW x, f \notin Unread, DOMAIN s = Fields
  PROVE  OnlyRead(s, [s EXCEPT ![f] = x])
<1> DEFINE t == [s EXCEPT ![f] = x]
<1>1. DOMAIN t = DOMAIN s /\ \A g \in DOMAIN s : g # f => t[g] = s[g]
  OBVIOUS
<1>2. Unread \subseteq DOMAIN s
  BY FieldsAre DEF Unread
<1> QED
  BY <1>1, <1>2, Zenon DEF OnlyRead

LEMMA ArriveReads ==
  ASSUME NEW s, DOMAIN s = Fields, NEW k, NEW bufs, NEW more
  PROVE  OnlyRead(s, Arrive(s, k, bufs, more))
<1> DEFINE a == Chained(s.request, bufs)
           b == s.arrived \o SubSeq(s.wire, 1, k)
           c == IF more THEN SubSeq(s.wire, k + 1, Len(s.wire)) ELSE <<>>
           t == [s EXCEPT !.request = a, !.arrived = b, !.wire = c, !.reading_body = more]
<1>1. Arrive(s, k, bufs, more) = t
  BY DEF Arrive
<1> HIDE DEF a, b, c
<1>2. OnlyRead(s, t)
  BY FieldsAre DEF OnlyRead, Unread
<1> QED
  BY <1>1, <1>2

LEMMA TranslateReads ==
  ASSUME NEW s, DOMAIN s = Fields, NEW n
  PROVE  OnlyRead(s, Translate(s, n))
<1> DEFINE frames == [i \in 1..Documents(n.data) |-> Frame(0, s.messages[s.translated + i].payload)]
           a == s.translated + Documents(n.data)
           b == s.slices \o frames
           c == IF n.data = <<>> THEN s.partial ELSE Last(n.data) # 0
           t == [s EXCEPT !.request = n.stream, !.translated = a, !.slices = b, !.partial = c]
<1>1. Translate(s, n) = t
  BY DEF Translate
<1> HIDE DEF a, b, c
<1>2. OnlyRead(s, t)
  BY FieldsAre DEF OnlyRead, Unread
<1> QED
  BY <1>1, <1>2

LEMMA SlicesRead ==
  ASSUME NEW s, DOMAIN s = Fields, NEW t \in BuffersToSlices(s)
  PROVE  OnlyRead(s, t)
<1> DEFINE bufs == s.request.bufs
           Taken(x) == s.slices \o [i \in DOMAIN bufs |-> x[i].data]
           Garbled(x) == s.garbled \/ \E i \in DOMAIN bufs : x[i].garbled
           b == NgxStream(<<>>)
<1>1. \E x : t = [s EXCEPT !.slices = Taken(x), !.garbled = Garbled(x), !.request = b]
  BY Zenon DEF BuffersToSlices
<1> HIDE DEF Taken, Garbled, b
<1>2. PICK x : t = [s EXCEPT !.slices = Taken(x), !.garbled = Garbled(x), !.request = b]
  BY <1>1
<1>3. PICK a, g : a = Taken(x) /\ g = Garbled(x)
  OBVIOUS
<1>4. OnlyRead(s, [s EXCEPT !.slices = a, !.garbled = g, !.request = b])
  BY FieldsAre DEF OnlyRead, Unread
<1> QED
  BY <1>2, <1>3, <1>4, Zenon

LEMMA CompletesRead ==
  ASSUME NEW s, DOMAIN s = Fields, NEW end
  PROVE  OnlyRead(s, CompletePendingRead(s, end))
<1> DEFINE a == IF end = "open" /\ ~s.reading_body /\ s.slices = <<>> THEN "done" ELSE end
<1>0. PICK no : no = FALSE
  OBVIOUS
<1> HIDE DEF a
<1>1. OnlyRead(s, [s EXCEPT !.pending = no, !.reading = no, !.end = a])
  BY FieldsAre DEF OnlyRead, Unread
<1>2. CompletePendingRead(s, end) = [s EXCEPT !.pending = no, !.reading = no, !.end = a]
  BY <1>0, Zenon DEF CompletePendingRead, a
<1> QED
  BY <1>1, <1>2, Zenon

(* A call that fails.                                                        *)
Failed(s, code, t) ==
  /\ DOMAIN t = Fields /\ t.kind = s.kind /\ t.replied = s.replied /\ t.out = s.out
  /\ t.response = s.response /\ t.trailers = s.trailers /\ t.status = code
  /\ t.finished /\ ~t.reading
  /\ t.header = IF s.header = {} THEN {HttpCode(code)} ELSE s.header

LEMMA HandleErrorIs ==
  ASSUME NEW s, DOMAIN s = Fields, NEW code, NEW t, t = HandleError(s, code)
  PROVE  Failed(s, code, t)
<1>1. PICK yes, no : yes = TRUE /\ no = FALSE
  OBVIOUS
<1> DEFINE e == IF s.end = "open" THEN "error" ELSE s.end
           h == IF s.header = {} THEN {HttpCode(code)} ELSE s.header
<1>2. t = [s EXCEPT !.status = code, !.finished = yes, !.pending = no, !.reading = no, !.end = e, !.header = h]
  BY <1>1, Zenon DEF HandleError
<1> HIDE DEF e, h
<1>3. /\ DOMAIN t = Fields /\ t.kind = s.kind /\ t.replied = s.replied /\ t.out = s.out
      /\ t.response = s.response /\ t.trailers = s.trailers /\ t.status = code
      /\ t.finished = yes /\ t.reading = no /\ t.header = h
  BY <1>2, FieldsAre
<1> QED
  BY <1>1, <1>3, Zenon DEF h, Failed

-----------------------------------------------------------------------------
Sound(s) == Responding(s) /\ Answered(s)
AnsweredWith(kind, replied, out, response, trailers, status, header, finished) ==
  LET frames == [i \in DOMAIN replied |-> Frame(0, replied[i])]
      failed == finished /\ ~IsOk(status)
  IN  /\ kind = "grpc" => out = frames
      /\ kind = "grpc-web" =>
           IF ~finished THEN out = frames
           ELSE out = Append(frames, NewFrame(ByteValues \div 2,
                          Total([i \in DOMAIN trailers |-> trailers[i].size])))
      /\ kind = "transcoded" =>
           /\ ~failed => out = replied /\ BytesAvailable(response) = 0
           /\ failed => IsPrefix(out, replied)
           /\ failed /\ replied = <<>> => header = {HttpCode(status)}

LEMMA AnsweredIs ==
  ASSUME NEW s
  PROVE  Answered(s) <=> AnsweredWith(s.kind, s.replied, s.out, s.response, s.trailers, s.status, s.header, s.finished)
BY Zenon DEF Answered, AnsweredWith

LEMMA ReadSound ==
  ASSUME NEW s, Sound(s), ~s.finished, NEW t, OnlyRead(s, t)
  PROVE  Sound(t) /\ ~t.finished
<1>1. /\ t.kind = s.kind /\ t.replied = s.replied /\ t.out = s.out /\ t.response = s.response
      /\ t.trailers = s.trailers /\ t.status = s.status /\ t.header = s.header /\ t.finished = s.finished
      /\ DOMAIN t = DOMAIN s
  BY UnreadAre, Zenon
<1>2. Answered(t)
  BY <1>1, AnsweredIs, Zenon DEF Sound
<1>3. Responding(t)
  BY <1>1, Zenon DEF Sound, Responding
<1> QED
  BY <1>1, <1>2, <1>3 DEF Sound

LEMMA PrefixIs ==
  ASSUME NEW T, NEW s \in Seq(T) PROVE IsPrefix(s, s) /\ \A x \in T : IsPrefix(s, Append(s, x))
BY DEF IsPrefix

(* A transcoded call that fails.                                             *)
LEMMA FailSound ==
  ASSUME NEW s, DOMAIN s = Fields, s.kind \notin {"grpc", "grpc-web"}, s.replied \in Seq(Seq(Byte)),
         s.kind = "transcoded" => IsPrefix(s.out, s.replied) /\ (s.replied = <<>> => s.header = {}),
         NEW code, ~IsOk(code)
  PROVE  Sound(HandleError(s, code)) /\ HandleError(s, code).finished
<1>1. PICK t : t = HandleError(s, code)
  OBVIOUS
<1>2. /\ DOMAIN t = Fields /\ t.kind = s.kind /\ t.replied = s.replied /\ t.out = s.out
      /\ t.response = s.response /\ t.trailers = s.trailers /\ t.status = code
      /\ t.finished /\ ~t.reading
      /\ t.header = IF s.header = {} THEN {HttpCode(code)} ELSE s.header
  <2>1. Failed(s, code, t)
    BY <1>1, HandleErrorIs, Zenon
  <2> QED
    BY <2>1, Zenon DEF Failed
<1>3. t.kind # "grpc" /\ t.kind # "grpc-web"
  BY <1>2
<1>4. Answered(t)
  BY <1>2, <1>3, Zenon DEF Answered
<1>5. Responding(t)
  BY <1>2, <1>3, Zenon DEF Responding
<1> QED
  BY <1>1, <1>2, <1>4, <1>5, Zenon DEF Sound

LEMMA ErrorCodes == ~IsOk(INVALID_ARGUMENT) /\ ~IsOk(500) /\ ~IsOk(INTERNAL) /\ IsOk(OK)
BY DEF IsOk, StatusOf, INVALID_ARGUMENT, INTERNAL, OK

LEMMA ConvertSound ==
  ASSUME NEW s, Sound(s), ~s.finished, NEW t \in ConvertRequestBody(s)
  PROVE  Sound(t)
<1>0. DOMAIN s = Fields
  BY Zenon DEF Sound, Responding
<1>1. CASE s.kind = "transcoded"
  <2>1. PICK n : t = Verify(Translate(s, n))
    BY <1>1, Zenon DEF ConvertRequestBody
  <2>2. PICK u : u = Translate(s, n)
    OBVIOUS
  <2>3. OnlyRead(s, u)
    BY <1>0, <2>2, TranslateReads, Zenon
  <2>4. Sound(u) /\ ~u.finished /\ u.kind = "transcoded"
    BY <1>1, <2>3, ReadSound, UnreadAre, Zenon
  <2>5. /\ DOMAIN u = Fields /\ u.replied \in Seq(Seq(Byte)) /\ u.out = u.replied
        /\ (u.replied = <<>> => u.header = {})
    BY <2>4, Zenon DEF Sound, Responding
  <2>6. IsPrefix(u.out, u.replied)
    BY <2>5, PrefixIs, Zenon
  <2>7. u.kind \notin {"grpc", "grpc-web"}
    BY <2>4
  <2>8. Sound(HandleError(u, INVALID_ARGUMENT)) /\ Sound(HandleError(u, 500))
    BY <2>5, <2>6, <2>7, FailSound, ErrorCodes, Zenon
  <2> QED
    BY <2>1, <2>2, <2>4, <2>8, Zenon DEF Verify
<1>2. CASE s.kind # "transcoded"
  <2>1. t \in BuffersToSlices(s)
    BY <1>2, Zenon DEF ConvertRequestBody
  <2> QED
    BY <1>0, <2>1, SlicesRead, ReadSound, Zenon
<1> QED
  BY <1>1, <1>2

-----------------------------------------------------------------------------
(* The call that the handler makes.                                          *)
LEMMA GrpcStreamDrained == Drained(GrpcStream)
<1> DEFINE g == GrpcStream
<1>1. /\ g.serializer = Serializer /\ g.current_buffer = <<>> /\ g.position = 0 /\ g.bytes_read = 0
      /\ g.finished = FALSE
  BY DEF GrpcStream, StreamState
<1>2. <<>> \in Seq(Byte) /\ Len(<<>>) = 0 /\ 0 \in Nat
  OBVIOUS
<1> HIDE DEF g
<1>3. g = StreamState(g.serializer, g.current_buffer, Len(g.current_buffer), g.bytes_read, g.finished)
  BY <1>1, <1>2, Zenon DEF g, GrpcStream
<1> QED
  BY <1>1, <1>2, <1>3, Zenon DEF g, Drained, UsedUp

LEMMA DrainedIsEmpty ==
  ASSUME NEW g, Drained(g), NEW over
  PROVE  BytesAvailable(g) = 0 /\ BytesAvailable([g EXCEPT !.finished = over]) = 0
<1> DEFINE z == g.serializer
           buffer == g.current_buffer
           read == g.bytes_read
           finished == g.finished
           p == Len(buffer)
<1>1. g = StreamState(z, buffer, Len(buffer), read, finished) /\ buffer \in Seq(Byte) /\ UsedUp(z)
  BY DEF Drained
<1>2. z.byte_count = 0
  <2>1. \A l, c, i : SerializerState(l, c, i, 0).byte_count = 0
    BY DEF SerializerState
  <2> HIDE DEF z
  <2> QED
    BY <1>1, <2>1, Zenon DEF UsedUp, Serializer
<1> HIDE DEF z, buffer, read, finished, p
<1>3. [StreamState(z, buffer, p, read, finished) EXCEPT !.finished = over] = StreamState(z, buffer, p, read, over)
  BY DEF StreamState
<1>4. /\ BytesAvailable(StreamState(z, buffer, Len(buffer), read, finished)) = 0
      /\ BytesAvailable(StreamState(z, buffer, Len(buffer), read, over)) = 0
  <2>1. 0 \in Int
    OBVIOUS
  <2> QED
    BY <1>1, <1>2, <2>1, StreamIs
<1> QED
  BY <1>1, <1>3, <1>4, Zenon DEF p

LEMMA NewCallIs ==
  ASSUME NEW kind, NEW address, NEW messages, NEW s, s = NewServerCall(kind, address, messages)
  PROVE  /\ DOMAIN s = Fields /\ s.kind = kind /\ s.replied = <<>> /\ s.out = <<>> /\ s.response = GrpcStream
         /\ s.trailers = <<>> /\ s.status = OK /\ s.header = {} /\ ~s.finished /\ ~s.reading
<1> DEFINE w == IF kind = "transcoded" THEN JsonBody(messages) ELSE GrpcBody(messages)
<1> HIDE DEF w
<1>1. s = [kind |-> kind, address |-> address, messages |-> messages, wire |-> w,
   reading_body |-> TRUE, arrived |-> <<>>, request |-> NgxStream(<<>>), slices |-> <<>>,
   translated |-> 0, partial |-> FALSE, garbled |-> FALSE,
   pending |-> FALSE, reading |-> FALSE, try |-> FALSE, read |-> <<>>, end |-> "open",
   replied |-> <<>>, response |-> GrpcStream, header |-> {}, out |-> <<>>, trailers |-> <<>>,
   status |-> OK, backend_status |-> OK, finished |-> FALSE]
  BY Zenon DEF NewServerCall, w
<1> QED
  BY <1>1, FieldsAre

LEMMA NoFrames == [i \in DOMAIN <<>> |-> Frame(0, <<>>[i])] = <<>>
OBVIOUS

LEMMA NewCallSound ==
  ASSUME NEW kind, NEW address, NEW messages
  PROVE  Sound(NewServerCall(kind, address, messages)) /\ ~NewServerCall(kind, address, messages).finished
<1>1. PICK s : s = NewServerCall(kind, address, messages)
  OBVIOUS
<1>2. /\ DOMAIN s = Fields /\ s.kind = kind /\ s.replied = <<>> /\ s.out = <<>> /\ s.response = GrpcStream
      /\ s.trailers = <<>> /\ s.status = OK /\ s.header = {} /\ ~s.finished /\ ~s.reading
  BY <1>1, NewCallIs
<1>3. <<>> \in Seq(Seq(Byte))
  OBVIOUS
<1>4. Responding(s)
  BY <1>2, <1>3, GrpcStreamDrained, Zenon DEF Responding
<1>5. BytesAvailable(GrpcStream) = 0
  BY GrpcStreamDrained, DrainedIsEmpty
<1>6. Answered(s)
  <2>1. AnsweredWith(kind, <<>>, <<>>, GrpcStream, <<>>, OK, {}, s.finished)
    BY <1>2, <1>5, NoFrames, Zenon DEF AnsweredWith
  <2> QED
    BY <1>2, <2>1, AnsweredIs, Zenon
<1> QED
  BY <1>1, <1>2, <1>4, <1>6, Zenon DEF Sound

LEMMA GrpcFinishIs ==
  ASSUME NEW s, DOMAIN s = Fields, NEW e, NEW t, t = GrpcFinish(s, e)
  PROVE  /\ DOMAIN t = Fields /\ t.kind = s.kind /\ t.replied = s.replied /\ t.out = s.out
         /\ t.finished = s.finished /\ t.reading = s.reading
<1> DEFINE l == <<[name |-> "grpc-status", value |-> CanonicalCode(e.code)]>>
              \o (IF IsOk(e.code) THEN <<>> ELSE <<[name |-> "grpc-message", value |-> e.message]>>)
              \o e.trailers
<1>1. t = [s EXCEPT !.status = e.code, !.trailers = l]
  BY DEF GrpcFinish
<1> HIDE DEF l
<1> QED
  BY <1>1, FieldsAre

LEMMA ReturnErrorSound == ASSUME NEW kind, NEW code PROVE Sound(ReturnError(kind, code))
<1>1. PICK n : n = NewServerCall(IF kind = "grpc" THEN kind ELSE "none", <<>>, <<>>)
  OBVIOUS
<1>2. /\ DOMAIN n = Fields /\ n.kind = (IF kind = "grpc" THEN kind ELSE "none") /\ n.replied = <<>> /\ n.out = <<>>
  BY <1>1, NewCallIs
<1>3. PICK s : s = HandleError(n, code)
  OBVIOUS
<1>4. /\ DOMAIN s = Fields /\ s.kind = n.kind /\ s.replied = <<>> /\ s.out = <<>> /\ s.finished /\ ~s.reading
  <2>1. Failed(n, code, s)
    BY <1>2, <1>3, HandleErrorIs, Zenon
  <2> QED
    BY <1>2, <2>1, Zenon DEF Failed
<1>5. PICK e : e = [code |-> code, message |-> 0, trailers |-> <<>>]
  OBVIOUS
<1>6. PICK f : f = GrpcFinish(s, e)
  OBVIOUS
<1>7. /\ DOMAIN f = Fields /\ f.kind = s.kind /\ f.replied = <<>> /\ f.out = <<>> /\ f.finished /\ ~f.reading
  BY <1>4, <1>6, GrpcFinishIs
<1>8. ReturnError(kind, code) = IF kind = "grpc" THEN f ELSE s
  BY <1>1, <1>3, <1>5, <1>6, Zenon DEF ReturnError
<1> DEFINE Refused(t) == /\ t.kind \in {"grpc", "none"} /\ DOMAIN t = Fields /\ t.replied = <<>> /\ t.out = <<>>
                         /\ t.finished /\ ~t.reading
<1>9. ASSUME NEW t, Refused(t) PROVE Sound(t)
  <2>1. <<>> \in Seq(Seq(Byte)) /\ t.kind # "grpc-web" /\ t.kind # "transcoded"
    BY <1>9
  <2>2. Responding(t)
    BY <1>9, <2>1, Zenon DEF Responding
  <2>3. AnsweredWith(t.kind, <<>>, <<>>, t.response, t.trailers, t.status, t.header, t.finished)
    BY <2>1, NoFrames, Zenon DEF AnsweredWith
  <2> QED
    BY <1>9, <2>2, <2>3, AnsweredIs, Zenon DEF Sound
<1>10. n.kind \in {"grpc", "none"}
  BY <1>2
<1>11. Refused(f) /\ Refused(s)
  BY <1>4, <1>7, <1>10, Zenon
<1> HIDE DEF Refused
<1> QED
  BY <1>8, <1>9, <1>11, Zenon

-----------------------------------------------------------------------------
(* The steps of a call.                                                      *)
LEMMA TheServer ==
  ASSUME ResponseInvariant, server # {} PROVE Sound(S)
<1>1. S \in server
  BY Zenon DEF S
<1> QED
  BY <1>1, Zenon DEF ResponseInvariant, ResponseFramed, Sound

SoundAfter == \E t : server' = {t} /\ Sound(t)

LEMMA HandlerSound ==
  ASSUME NEW c, GrpcBackendHandler(c) PROVE SoundAfter
<1>1. \/ \E kind, code : server' = {ReturnError(kind, code)}
      \/ \E kind, a, m : \E s \in Preread(NewServerCall(kind, a, m)) : server' = {s}
  BY Zenon DEF GrpcBackendHandler
<1>2. CASE \E kind, code : server' = {ReturnError(kind, code)}
  BY <1>2, ReturnErrorSound, Zenon DEF SoundAfter
<1>3. CASE \E kind, a, m : \E s \in Preread(NewServerCall(kind, a, m)) : server' = {s}
  <2>1. PICK kind, a, m : \E s \in Preread(NewServerCall(kind, a, m)) : server' = {s}
    BY <1>3
  <2>2. PICK n : n = NewServerCall(kind, a, m)
    OBVIOUS
  <2>3. PICK s \in Preread(n) : server' = {s}
    BY <2>1, <2>2, Zenon
  <2>4. Sound(n) /\ ~n.finished /\ DOMAIN n = Fields
    BY <2>2, NewCallSound, Zenon DEF Sound, Responding
  <2>5. PICK t : s \in ConvertRequestBody(t) /\ (t = n \/ \E k, bufs, more : t = Arrive(n, k, bufs, more))
    BY <2>3, Zenon DEF Preread
  <2>6. OnlyRead(n, t)
    BY <2>4, <2>5, ArriveReads, OnlyReadItself, Zenon
  <2>7. Sound(t) /\ ~t.finished
    BY <2>4, <2>6, ReadSound, Zenon
  <2>8. Sound(s)
    BY <2>5, <2>7, ConvertSound, Zenon
  <2> QED
    BY <2>3, <2>8, Zenon DEF SoundAfter
<1> QED
  BY <1>1, <1>2, <1>3, Zenon

LEMMA ReadingSound ==
  ASSUME ResponseInvariant, Read \/ OnDownstreamReadable PROVE SoundAfter
<1>1. server # {} /\ ~S.finished
  BY Zenon DEF Read, OnDownstreamReadable, Live
<1>2. Sound(S) /\ DOMAIN S = Fields
  BY <1>1, TheServer, Zenon DEF Sound, Responding
<1>3. PICK yes : yes = TRUE
  OBVIOUS
<1>4. PICK s : s = S
  OBVIOUS
<1>5. OnlyRead(s, [s EXCEPT !.pending = yes, !.reading = yes, !.try = yes])
  BY <1>2, <1>4, FieldsAre DEF OnlyRead, Unread
<1>6. OnlyRead(s, [s EXCEPT !.reading = yes, !.try = yes])
  BY <1>2, <1>4, FieldsAre DEF OnlyRead, Unread
<1>7. \E t : server' = {t} /\ OnlyRead(s, t)
  BY <1>3, <1>4, <1>5, <1>6, Zenon DEF Read, OnDownstreamReadable, ServerStep
<1> QED
  BY <1>1, <1>2, <1>4, <1>7, ReadSound, Zenon DEF SoundAfter

LEMMA DeliverReads ==
  ASSUME NEW s, DOMAIN s = Fields, NEW x, NEW t \in Deliver(s, x)
  PROVE  OnlyRead(s, t)
<1>1. ASSUME NEW bytes PROVE OnlyRead(s, CompletePendingRead([s EXCEPT !.read = Append(@, bytes), !.slices = x.rest], "open"))
  <2> DEFINE a == Append(s.read, bytes)
             b == x.rest
             u == [s EXCEPT !.read = a, !.slices = b]
  <2>1. u = [s EXCEPT !.read = Append(@, bytes), !.slices = x.rest]
    OBVIOUS
  <2> HIDE DEF a, b
  <2>2. OnlyRead(s, u)
    BY FieldsAre DEF OnlyRead, Unread
  <2>3. DOMAIN u = Fields
    OBVIOUS
  <2> HIDE DEF u
  <2>4. OnlyRead(s, CompletePendingRead(u, "open"))
    BY <2>2, <2>3, CompletesRead, OnlyReadOn, Zenon
  <2> QED
    BY <2>1, <2>4, Zenon
<1>2. OnlyRead(s, CompletePendingRead(s, "error"))
  BY CompletesRead
<1> QED
  BY <1>1, <1>2, Zenon DEF Deliver

LEMMA UnbufferedReads ==
  ASSUME NEW s, DOMAIN s = Fields, NEW t \in ReadUnbuffered(s)
  PROVE  OnlyRead(s, t)
<1>1. \A u : OnlyRead(s, u) => \A try : OnlyRead(s, [u EXCEPT !.try = try])
  <2> SUFFICES ASSUME NEW u, OnlyRead(s, u), NEW try PROVE OnlyRead(s, [u EXCEPT !.try = try])
    OBVIOUS
  <2>1. DOMAIN u = Fields
    BY Zenon DEF OnlyRead
  <2>2. "try" \notin Unread
    BY DEF Unread
  <2>3. OnlyRead(u, [u EXCEPT !.try = try])
    BY <2>1, <2>2, OneFieldRead
  <2> QED
    BY <2>3, OnlyReadOn, Zenon
<1>2. \/ t = CompletePendingRead(s, "error")
      \/ \E try : t = [s EXCEPT !.try = try]
      \/ \E k, bufs, more, try : t = [Arrive(s, k, bufs, more) EXCEPT !.try = try]
  <2>1. \/ t = CompletePendingRead(s, "error")
        \/ t = [s EXCEPT !.try = FALSE]
        \/ \E k : t = [Arrive(s, k, <<Memory(s, k)>>, TRUE) EXCEPT !.try = TRUE]
        \/ \E k, l : t = [Arrive(s, k, <<Memory(s, k)>> \o l, FALSE) EXCEPT !.try = k > 0]
    <3> DEFINE A == {CompletePendingRead(s, "error"), [s EXCEPT !.try = FALSE]}
               Some(k) == [Arrive(s, k, <<Memory(s, k)>>, TRUE) EXCEPT !.try = TRUE]
               End(k, l) == [Arrive(s, k, <<Memory(s, k)>> \o l, FALSE) EXCEPT !.try = k > 0]
               B == {Some(k) : k \in Sizes(s) \ {0}}
               C == {End(k, last) : k \in Sizes(s) \union {0}, last \in {<<>>, <<[file |-> FALSE, data |-> <<>>]>>}}
    <3>1. ReadUnbuffered(s) = (A \union B) \union C
      BY DEF ReadUnbuffered
    <3>2. CASE t \in A
      BY <3>2
    <3> HIDE DEF Some, End
    <3>3. CASE t \in B
      <4>1. \E k : t = Some(k)
        BY <3>3
      <4> QED
        BY <4>1, Zenon DEF Some
    <3>4. CASE t \in C
      <4>1. \E k, l : t = End(k, l)
        BY <3>4
      <4> QED
        BY <4>1, Zenon DEF End
    <3> HIDE DEF A, B, C
    <3>5. t \in A \/ t \in B \/ t \in C
      BY <3>1
    <3> QED
      BY <3>2, <3>3, <3>4, <3>5
  <2>2. ASSUME t = [s EXCEPT !.try = FALSE] PROVE \E try : t = [s EXCEPT !.try = try]
    BY <2>2, Zenon
  <2>3. ASSUME NEW k, t = [Arrive(s, k, <<Memory(s, k)>>, TRUE) EXCEPT !.try = TRUE]
        PROVE  \E kk, bufs, more, try : t = [Arrive(s, kk, bufs, more) EXCEPT !.try = try]
    BY <2>3, Zenon
  <2>4. ASSUME NEW k, NEW l, t = [Arrive(s, k, <<Memory(s, k)>> \o l, FALSE) EXCEPT !.try = k > 0]
        PROVE  \E kk, bufs, more, try : t = [Arrive(s, kk, bufs, more) EXCEPT !.try = try]
    BY <2>4, Zenon
  <2> QED
    BY <2>1, <2>2, <2>3, <2>4, Zenon
<1>3. \A k, bufs, more : OnlyRead(s, Arrive(s, k, bufs, more))
  BY ArriveReads, Zenon
<1> QED
  BY <1>1, <1>2, <1>3, CompletesRead, OnlyReadItself, Zenon

LEMMA RunSound ==
  ASSUME ResponseInvariant, RunPendingRead PROVE SoundAfter
<1>1. server # {} /\ Sound(S) /\ ~S.finished
  BY TheServer, Zenon DEF RunPendingRead, Sound, Responding
<1>2. PICK s \in ConvertRequestBody(S) :
        \/ s.finished /\ ServerStep(s)
        \/ /\ ~s.finished
           /\ \E x \in TryReadMessage(s.slices) : \E t \in Deliver(s, x) : ServerStep(t)
        \/ /\ ~s.finished /\ TryReadMessage(s.slices) = {}
           /\ \/ ~s.reading_body /\ ServerStep(CompletePendingRead(s, "half"))
              \/ s.reading_body /\ ~s.try /\ ServerStep([s EXCEPT !.reading = FALSE])
              \/ s.reading_body /\ s.try /\ \E t \in ReadUnbuffered(s) : ServerStep(t)
  BY Zenon DEF RunPendingRead
<1>3. Sound(s) /\ DOMAIN s = Fields
  BY <1>1, ConvertSound, Zenon DEF Sound, Responding
<1>4. CASE s.finished
  BY <1>2, <1>3, <1>4, Zenon DEF ServerStep, SoundAfter
<1>5. CASE ~s.finished
  <2>1. \A no : OnlyRead(s, [s EXCEPT !.reading = no])
    BY <1>3, FieldsAre DEF OnlyRead, Unread
  <2>2. PICK t : ServerStep(t) /\ OnlyRead(s, t)
    <3>1. PICK no : no = FALSE
      OBVIOUS
    <3>2. OnlyRead(s, CompletePendingRead(s, "half"))
      BY <1>3, CompletesRead
    <3>3. OnlyRead(s, [s EXCEPT !.reading = FALSE])
      BY <2>1, <3>1, Zenon
    <3>4. \A x : \A t \in Deliver(s, x) : OnlyRead(s, t)
      BY <1>3, DeliverReads, Zenon
    <3>5. \A t \in ReadUnbuffered(s) : OnlyRead(s, t)
      BY <1>3, UnbufferedReads, Zenon
    <3> QED
      BY <1>2, <1>5, <3>2, <3>3, <3>4, <3>5, Zenon
  <2>3. Sound(t)
    BY <1>3, <1>5, <2>2, ReadSound, Zenon
  <2> QED
    BY <2>2, <2>3, Zenon DEF ServerStep, SoundAfter
<1> QED
  BY <1>4, <1>5

LEMMA WithHeaderIs ==
  ASSUME NEW s, DOMAIN s = Fields
  PROVE  WithHeader(s) = [s EXCEPT !.header = IF s.header = {} THEN {200} ELSE s.header]
BY DEF WithHeader

LEMMA HeaderSound ==
  ASSUME ResponseInvariant, SendInitialMetadata PROVE SoundAfter
<1>1. server # {} /\ ~S.finished /\ S.kind # "transcoded"
  BY Zenon DEF SendInitialMetadata, Live
<1>2. PICK s : s = S
  OBVIOUS
<1>3. Sound(s) /\ DOMAIN s = Fields
  BY <1>1, <1>2, TheServer, Zenon DEF Sound, Responding
<1>4. PICK h : h = IF s.header = {} THEN {200} ELSE s.header
  OBVIOUS
<1>5. PICK t : t = [s EXCEPT !.header = h]
  OBVIOUS
<1>6. /\ t.kind = s.kind /\ t.replied = s.replied /\ t.out = s.out /\ t.response = s.response
      /\ t.trailers = s.trailers /\ t.status = s.status /\ t.finished = s.finished
      /\ t.reading = s.reading /\ DOMAIN t = Fields
  BY <1>3, <1>5, FieldsAre
<1>7. server' = {t}
  BY <1>2, <1>3, <1>4, <1>5, WithHeaderIs, Zenon DEF SendInitialMetadata, ServerStep
<1>8. Responding(t)
  BY <1>1, <1>2, <1>3, <1>6, Zenon DEF Sound, Responding
<1>9. AnsweredWith(s.kind, s.replied, s.out, s.response, s.trailers, s.status, s.header, s.finished)
  BY <1>3, AnsweredIs, Zenon DEF Sound
<1>10. AnsweredWith(s.kind, s.replied, s.out, s.response, s.trailers, s.status, t.header, s.finished)
  BY <1>1, <1>2, <1>9, Zenon DEF AnsweredWith
<1>11. Answered(t)
  BY <1>6, <1>10, AnsweredIs, Zenon
<1> QED
  BY <1>7, <1>8, <1>11, Zenon DEF SoundAfter, Sound

(* A message more is a frame more.                                           *)
LEMMA FrameAdded ==
  ASSUME NEW r \in Seq(Seq(Byte)), NEW x \in Seq(Byte)
  PROVE  Append([i \in DOMAIN r |-> Frame(0, r[i])], Frame(0, x))
           = [i \in DOMAIN Append(r, x) |-> Frame(0, Append(r, x)[i])]
<1> DEFINE F == {Frame(0, b) : b \in Seq(Byte)}
           q == Append(r, x)
           f == [i \in DOMAIN r |-> Frame(0, r[i])]
           g == [i \in DOMAIN q |-> Frame(0, q[i])]
           n == Len(r)
<1>1. n \in Nat /\ DOMAIN r = 1..n /\ \A i \in 1..n : r[i] \in Seq(Byte)
  OBVIOUS
<1>2. /\ DOMAIN q = 1..(n + 1) /\ q[n + 1] = x /\ \A i \in 1..n : q[i] = r[i]
      /\ \A i \in 1..(n + 1) : q[i] \in Seq(Byte)
  OBVIOUS
<1> HIDE DEF q, n
<1>3. f \in Seq(F) /\ Len(f) = n /\ Frame(0, x) \in F
  <2>1. \A b \in Seq(Byte) : Frame(0, b) \in F
    OBVIOUS
  <2> HIDE DEF F
  <2>2. f \in Seq(F) /\ Len(f) = n
    BY <1>1, <2>1
  <2> QED
    BY <2>1, <2>2
<1>4. g \in Seq(F) /\ Len(g) = n + 1
  BY <1>1, <1>2
<1>5. \A i \in 1..n : f[i] = Frame(0, r[i]) /\ g[i] = Frame(0, r[i])
  BY <1>1, <1>2
<1>6. g[n + 1] = Frame(0, x)
  BY <1>1, <1>2
<1> DEFINE a == Append(f, Frame(0, x))
<1> HIDE DEF f, g, F
<1>7. a \in Seq(F) /\ Len(a) = n + 1 /\ a[n + 1] = Frame(0, x) /\ \A i \in 1..n : a[i] = f[i]
  BY <1>1, <1>3
<1> HIDE DEF a
<1>8. \A i \in 1..Len(a) : a[i] = g[i]
  BY <1>1, <1>5, <1>6, <1>7
<1>9. a = g
  BY <1>4, <1>7, <1>8, SeqEqual, Zenon
<1> QED
  BY <1>9 DEF a, f, g, q

LEMMA ReplyIs ==
  ASSUME NEW m \in Replies PROVE FlattenSeq(m) \in Seq(Byte)
BY MessageAssumption DEF Sized

(* Write of a pass-through call.                                             *)
LEMMA FrameSound ==
  ASSUME NEW s, Sound(s), ~s.finished, s.kind # "transcoded", NEW x \in Seq(Byte), NEW t, NEW h,
         t = [s EXCEPT !.header = h, !.replied = Append(s.replied, x), !.out = Append(s.out, Frame(0, x))]
  PROVE  Sound(t)
<1>0. DOMAIN s = Fields /\ s.replied \in Seq(Seq(Byte)) /\ (s.reading => ~s.finished)
  BY Zenon DEF Sound, Responding
<1>1. PICK r : r = Append(s.replied, x)
  OBVIOUS
<1>2. PICK o : o = Append(s.out, Frame(0, x))
  OBVIOUS
<1>3. t = [s EXCEPT !.header = h, !.replied = r, !.out = o]
  BY <1>1, <1>2
<1>4. /\ DOMAIN t = Fields /\ t.kind = s.kind /\ t.replied = r /\ t.out = o /\ t.finished = s.finished
      /\ t.reading = s.reading
  BY <1>0, <1>3, FieldsAre
<1>5. r \in Seq(Seq(Byte))
  BY <1>0, <1>1
<1>6. Responding(t)
  BY <1>0, <1>4, <1>5, Zenon DEF Responding
<1>7. s.kind \in {"grpc", "grpc-web"} => s.out = [i \in DOMAIN s.replied |-> Frame(0, s.replied[i])]
  BY DEF Sound, Answered
<1>8. s.kind \in {"grpc", "grpc-web"} => o = [i \in DOMAIN r |-> Frame(0, r[i])]
  BY <1>0, <1>1, <1>2, <1>7, FrameAdded, Zenon
<1>9. AnsweredWith(s.kind, r, o, t.response, t.trailers, t.status, t.header, s.finished)
  <2>1. s.kind = "grpc" \/ s.kind = "grpc-web" => o = [i \in DOMAIN r |-> Frame(0, r[i])]
    BY <1>8
  <2> QED
    BY <2>1, Zenon DEF AnsweredWith
<1>10. Answered(t)
  BY <1>4, <1>9, AnsweredIs, Zenon
<1> QED
  BY <1>6, <1>10 DEF Sound

(* Write of a transcoded call.                                               *)
LEMMA DocumentSound ==
  ASSUME NEW s, Sound(s), ~s.finished, s.kind = "transcoded", NEW m \in Replies, NEW h, NEW added,
         added = [s EXCEPT !.header = h, !.replied = Append(s.replied, FlattenSeq(m)),
                           !.response = [s.response EXCEPT !.serializer = AddMessage(s.response.serializer, m)]],
         NEW t \in ReadTranslatedResponse(added) \union {HandleError(added, INTERNAL)}
  PROVE  Sound(t)
<1>0. /\ DOMAIN s = Fields /\ s.replied \in Seq(Seq(Byte)) /\ (s.reading => ~s.finished)
      /\ s.status = OK /\ s.out = s.replied /\ Drained(s.response)
  BY Zenon DEF Sound, Responding
<1>1. PICK x : x = FlattenSeq(m)
  OBVIOUS
<1>2. x \in Seq(Byte)
  BY <1>1, ReplyIs
<1>3. PICK r : r = Append(s.replied, x)
  OBVIOUS
<1>4. PICK g : g = [s.response EXCEPT !.serializer = AddMessage(s.response.serializer, m)]
  OBVIOUS
<1>5. added = [s EXCEPT !.header = h, !.replied = r, !.response = g]
  BY <1>1, <1>3, <1>4, Zenon
<1>6. /\ DOMAIN added = Fields /\ added.kind = s.kind /\ added.replied = r /\ added.out = s.out
      /\ added.response = g /\ added.status = s.status /\ added.finished = s.finished
      /\ added.reading = s.reading
  BY <1>0, <1>5, FieldsAre
<1>7. r \in Seq(Seq(Byte)) /\ r # <<>>
  BY <1>0, <1>2, <1>3
<1>8. CASE t = HandleError(added, INTERNAL)
  <2>1. IsPrefix(added.out, added.replied)
    BY <1>0, <1>2, <1>3, <1>6, PrefixIs, Zenon
  <2>2. added.kind \notin {"grpc", "grpc-web"}
    BY <1>6
  <2> QED
    BY <1>6, <1>7, <1>8, <2>1, <2>2, FailSound, ErrorCodes, Zenon
<1>9. CASE t \in ReadTranslatedResponse(added)
  <2>1. PICK k : NextMessage(g) = {Got(x, k)} /\ Drained(k)
    BY <1>0, <1>1, <1>4, MessageFound, Zenon
  <2>2. Got(x, k).data = x /\ Got(x, k).stream = k
    BY DEF Got
  <2>3. t = [added EXCEPT !.response = k, !.out = Append(added.out, x)]
    <3>1. NextMessage(added.response) = {Got(x, k)}
      BY <1>6, <2>1
    <3>2. {Got(x, k)} # {}
      OBVIOUS
    <3>3. t = [added EXCEPT !.response = Got(x, k).stream, !.out = Append(added.out, Got(x, k).data)]
      BY <1>9, <3>1, <3>2, Zenon DEF ReadTranslatedResponse
    <3> QED
      BY <2>2, <3>3, Zenon
  <2>4. PICK o : o = Append(added.out, x)
    OBVIOUS
  <2>5. t = [added EXCEPT !.response = k, !.out = o]
    BY <2>3, <2>4, Zenon
  <2>6. /\ DOMAIN t = Fields /\ t.kind = s.kind /\ t.replied = r /\ t.out = o
        /\ t.response = k /\ t.status = s.status /\ t.finished = s.finished
        /\ t.reading = s.reading
    BY <1>6, <2>5, FieldsAre
  <2>7. o = r
    BY <1>0, <1>3, <1>6, <2>4, Zenon
  <2>8. BytesAvailable(k) = 0
    BY <2>1, DrainedIsEmpty
  <2>9. Responding(t)
    BY <1>0, <1>7, <2>1, <2>6, <2>7, Zenon DEF Responding
  <2>10. Answered(t)
    <3>1. t.kind # "grpc" /\ t.kind # "grpc-web"
      BY <2>6
    <3> QED
      BY <2>6, <2>7, <2>8, <3>1, Zenon DEF Answered
  <2> QED
    BY <2>9, <2>10 DEF Sound
<1> QED
  BY <1>8, <1>9

LEMMA WriteSound ==
  ASSUME ResponseInvariant, NEW m \in Replies, Write(m) PROVE SoundAfter
<1>1. server # {} /\ ~S.finished
  BY Zenon DEF Write, Live
<1>2. PICK s : s = S
  OBVIOUS
<1>3. Sound(s) /\ DOMAIN s = Fields /\ ~s.finished
  BY <1>1, <1>2, TheServer, Zenon DEF Sound, Responding
<1>4. PICK h : h = IF s.header = {} THEN {200} ELSE s.header
  OBVIOUS
<1>5. PICK x : x = FlattenSeq(m)
  OBVIOUS
<1>6. PICK w : w = [WithHeader(s) EXCEPT !.replied = Append(@, x)]
  OBVIOUS
<1>7. w = [s EXCEPT !.header = h, !.replied = Append(s.replied, x)]
  <2>1. WithHeader(s) = [s EXCEPT !.header = h]
    BY <1>3, <1>4, WithHeaderIs
  <2> QED
    BY <1>3, <1>6, <2>1, FieldsAre
<1>8. w.kind = s.kind /\ w.out = s.out /\ w.response = s.response
  BY <1>3, <1>7, FieldsAre
<1>9. CASE s.kind # "transcoded"
  <2>1. server' = {[w EXCEPT !.out = Append(@, Frame(0, x))]}
    BY <1>2, <1>5, <1>6, <1>8, <1>9, Zenon DEF Write, ServerStep
  <2>2. [w EXCEPT !.out = Append(@, Frame(0, x))]
          = [s EXCEPT !.header = h, !.replied = Append(s.replied, x), !.out = Append(s.out, Frame(0, x))]
    BY <1>7, <1>8
  <2>3. x \in Seq(Byte)
    BY <1>5, ReplyIs
  <2> QED
    BY <1>3, <1>9, <2>1, <2>2, <2>3, FrameSound, Zenon DEF SoundAfter
<1>10. CASE s.kind = "transcoded"
  <2>1. PICK added : added = [w EXCEPT !.response.serializer = AddMessage(@, m)]
    OBVIOUS
  <2>2. PICK t \in ReadTranslatedResponse(added) \union {HandleError(added, INTERNAL)} : server' = {t}
    BY <1>2, <1>5, <1>6, <1>8, <1>10, <2>1, Zenon DEF Write, ServerStep
  <2>3. added = [s EXCEPT !.header = h, !.replied = Append(s.replied, x),
                          !.response = [s.response EXCEPT !.serializer = AddMessage(s.response.serializer, m)]]
    BY <1>7, <1>8, <2>1
  <2>4. Sound(t)
    BY <1>3, <1>5, <1>10, <2>2, <2>3, DocumentSound, Zenon
  <2> QED
    BY <2>2, <2>4, Zenon DEF SoundAfter
<1> QED
  BY <1>9, <1>10

(* The length of the trailer frame is that of its lines.                     *)
LEMMA GrpcWebFinishIs ==
  ASSUME NEW s, DOMAIN s = Fields, NEW e \in Ends, NEW t, t = GrpcWebFinish(s, e)
  PROVE  /\ DOMAIN t = Fields /\ t.kind = s.kind /\ t.replied = s.replied
         /\ t.finished = s.finished /\ t.reading = s.reading
         /\ t.out = Append(s.out, NewFrame(ByteValues \div 2, SizeOf(t.trailers)))
<1> DEFINE status == [line |-> "grpc-status", size |-> LineSize(StatusSize, Digits10(CanonicalCode(e.code)))]
           message == [line |-> "grpc-message", size |-> LineSize(MessageSize, e.message)]
           custom == [i \in DOMAIN e.trailers |->
                        [line |-> e.trailers[i].name,
                         size |-> LineSize(e.trailers[i].name_size, e.trailers[i].value_size)]]
           both == e.message > 0
           length == status.size + (IF both THEN message.size ELSE 0) + SizeOf(custom)
           lines == <<status>> \o (IF both THEN <<message>> ELSE <<>>) \o custom
           out == Append(s.out, NewFrame(ByteValues \div 2, length))
<1>1. t = [s EXCEPT !.out = out, !.trailers = lines]
  BY DEF GrpcWebFinish, SizeOf
<1>2. length = SizeOf(lines)
  <2> DEFINE L == {status, message} \union {custom[i] : i \in DOMAIN e.trailers}
  <2>1. Len(e.trailers) \in Nat /\ DOMAIN e.trailers = 1..Len(e.trailers) /\ e.message \in Nat
    BY MessageAssumption
  <2>2. \A i \in DOMAIN e.trailers : e.trailers[i].name_size \in Nat /\ e.trailers[i].value_size \in Nat
    BY MessageAssumption
  <2>3. status.size \in Nat /\ message.size \in Nat
    <3>1. status.size = LineSize(StatusSize, Digits10(CanonicalCode(e.code))) /\ message.size = LineSize(MessageSize, e.message)
      OBVIOUS
    <3> HIDE DEF status, message
    <3> QED
      BY <2>1, <3>1 DEF LineSize, StatusSize, MessageSize, Digits10
  <2>4. \A i \in DOMAIN e.trailers : custom[i].size \in Nat
    BY <2>2 DEF LineSize
  <2>5. DOMAIN custom = 1..Len(e.trailers)
    BY <2>1
  <2>6. custom = [i \in 1..Len(e.trailers) |-> custom[i]]
    BY <2>1
  <2> HIDE DEF status, message, custom
  <2>7. \A x \in L : x.size \in Nat
    BY <2>3, <2>4
  <2>8. status \in L /\ message \in L /\ \A i \in 1..Len(e.trailers) : custom[i] \in L
    BY <2>1
  <2> HIDE DEF L
  <2>9. custom \in Seq(L)
    <3> DEFINE k == Len(e.trailers)
    <3>1. k \in Nat /\ \A i \in 1..k : custom[i] \in L
      BY <2>1, <2>8
    <3> HIDE DEF k
    <3>2. custom \in [1..k -> L]
      BY <2>6, <3>1 DEF k
    <3> QED
      BY <3>1, <3>2
  <2> HIDE DEF both
  <2>10. SizeOf(<<status>> \o (IF both THEN <<message>> ELSE <<>>) \o custom)
           = status.size + (IF both THEN message.size ELSE 0) + SizeOf(custom)
    BY <2>7, <2>8, <2>9, LinesAdded, SMTT(30)
  <2> QED
    BY <2>10
<1> HIDE DEF out, lines, length
<1>3. /\ DOMAIN t = Fields /\ t.kind = s.kind /\ t.replied = s.replied
      /\ t.finished = s.finished /\ t.reading = s.reading /\ t.out = out /\ t.trailers = lines
  BY <1>1, FieldsAre
<1> QED
  BY <1>2, <1>3, Zenon DEF out

LEMMA FinishSound ==
  ASSUME ResponseInvariant, NEW e \in Ends, Finish(e) PROVE SoundAfter
<1>1. server # {} /\ ~S.finished /\ ~S.reading
  BY Zenon DEF Finish, Live
<1>2. PICK s : s = S
  OBVIOUS
<1>3. Sound(s) /\ DOMAIN s = Fields /\ ~s.finished /\ ~s.reading /\ s.replied \in Seq(Seq(Byte))
  BY <1>1, <1>2, TheServer, Zenon DEF Sound, Responding
<1>4. PICK h : h = IF s.header = {} THEN {200} ELSE s.header
  OBVIOUS
<1>5. PICK yes : yes = TRUE
  OBVIOUS
<1>6. PICK ended : ended = [WithHeader(s) EXCEPT !.finished = yes, !.backend_status = e.code]
  OBVIOUS
<1>7. ended = [s EXCEPT !.header = h, !.finished = yes, !.backend_status = e.code]
  <2>1. WithHeader(s) = [s EXCEPT !.header = h]
    BY <1>3, <1>4, WithHeaderIs
  <2> QED
    BY <1>6, <2>1
<1>8. /\ DOMAIN ended = Fields /\ ended.kind = s.kind /\ ended.replied = s.replied /\ ended.out = s.out
      /\ ended.response = s.response /\ ended.status = s.status /\ ended.finished = yes /\ ended.reading = s.reading
  BY <1>3, <1>7, FieldsAre
<1>9. CASE s.kind = "grpc"
  <2>1. PICK t : t = GrpcFinish(ended, e)
    OBVIOUS
  <2>2. server' = {t}
    BY <1>2, <1>5, <1>6, <1>9, <2>1, Zenon DEF Finish, ServerStep
  <2>3. DOMAIN t = Fields /\ t.kind = s.kind /\ t.replied = s.replied /\ t.out = s.out /\ t.reading = s.reading
    BY <1>8, <2>1, GrpcFinishIs
  <2>4. s.out = [i \in DOMAIN s.replied |-> Frame(0, s.replied[i])]
    BY <1>3, <1>9, Zenon DEF Sound, Answered
  <2>5. t.kind = "grpc" /\ t.kind # "grpc-web" /\ t.kind # "transcoded"
    BY <1>9, <2>3
  <2>6. Responding(t)
    BY <1>3, <2>3, <2>5, Zenon DEF Responding
  <2>7. AnsweredWith(t.kind, s.replied, s.out, t.response, t.trailers, t.status, t.header, t.finished)
    BY <2>4, <2>5, Zenon DEF AnsweredWith
  <2>8. Answered(t)
    BY <2>3, <2>7, AnsweredIs, Zenon
  <2> QED
    BY <2>2, <2>6, <2>8, Zenon DEF SoundAfter, Sound
<1>10. CASE s.kind = "grpc-web"
  <2>1. PICK t : t = GrpcWebFinish(ended, e)
    OBVIOUS
  <2>2. server' = {t}
    <3>1. S.kind # "grpc" /\ S.kind = "grpc-web"
      BY <1>2, <1>10
    <3> QED
      BY <1>2, <1>5, <1>6, <2>1, <3>1, Zenon DEF Finish, ServerStep
  <2>3. /\ DOMAIN t = Fields /\ t.kind = s.kind /\ t.replied = s.replied /\ t.reading = s.reading
        /\ t.finished = yes /\ t.out = Append(s.out, NewFrame(ByteValues \div 2, SizeOf(t.trailers)))
    BY <1>8, <2>1, GrpcWebFinishIs
  <2>4. s.out = [i \in DOMAIN s.replied |-> Frame(0, s.replied[i])]
    BY <1>3, <1>10, Zenon DEF Sound, Answered
  <2>5. t.kind = "grpc-web" /\ t.kind # "grpc" /\ t.kind # "transcoded"
    BY <1>10, <2>3
  <2>6. Responding(t)
    BY <1>3, <2>3, <2>5, Zenon DEF Responding
  <2>7. AnsweredWith(t.kind, s.replied, Append(s.out, NewFrame(ByteValues \div 2, SizeOf(t.trailers))),
                     t.response, t.trailers, t.status, t.header, t.finished)
    BY <1>5, <2>3, <2>4, <2>5, Zenon DEF AnsweredWith, SizeOf
  <2>8. Answered(t)
    BY <2>3, <2>7, AnsweredIs, Zenon
  <2> QED
    BY <2>2, <2>6, <2>8, Zenon DEF SoundAfter, Sound
<1>11. CASE s.kind # "grpc" /\ s.kind # "grpc-web" /\ ~IsOk(e.code)
  <2>1. PICK b : b = [s EXCEPT !.backend_status = e.code]
    OBVIOUS
  <2>2. server' = {HandleError(b, e.code)}
    BY <1>2, <1>11, <2>1, Zenon DEF Finish, ServerStep
  <2>3. /\ DOMAIN b = Fields /\ b.kind = s.kind /\ b.replied = s.replied /\ b.out = s.out /\ b.header = s.header
    BY <1>3, <2>1, FieldsAre
  <2>4. s.kind = "transcoded" => s.out = s.replied /\ (s.replied = <<>> => s.header = {})
    BY <1>3, Zenon DEF Sound, Responding
  <2>5. b.kind \notin {"grpc", "grpc-web"}
    BY <1>11, <2>3
  <2>6. b.kind = "transcoded" => IsPrefix(b.out, b.replied) /\ (b.replied = <<>> => b.header = {})
    BY <1>3, <2>3, <2>4, PrefixIs, Zenon
  <2>7. Sound(HandleError(b, e.code))
    BY <1>3, <1>11, <2>3, <2>5, <2>6, FailSound, Zenon
  <2> QED
    BY <2>2, <2>7, Zenon DEF SoundAfter
<1>12. CASE s.kind # "grpc" /\ s.kind # "grpc-web" /\ IsOk(e.code)
  <2>1. PICK u : u = [ended EXCEPT !.response.finished = yes]
    OBVIOUS
  <2>2. PICK t \in ReadTranslatedResponse(u) : server' = {t}
    BY <1>2, <1>5, <1>6, <1>12, <2>1, Zenon DEF Finish, ServerStep
  <2>3. PICK g : g = [s.response EXCEPT !.finished = yes]
    OBVIOUS
  <2>4. u = [ended EXCEPT !.response = g]
    BY <1>8, <2>1, <2>3
  <2>5. /\ DOMAIN u = Fields /\ u.kind = s.kind /\ u.replied = s.replied /\ u.out = s.out /\ u.response = g
        /\ u.status = s.status /\ u.finished = yes /\ u.reading = s.reading
    BY <1>8, <2>4, FieldsAre
  <2>6. t.kind = s.kind /\ DOMAIN t = Fields /\ t.replied = s.replied /\ t.reading = s.reading
    <3>1. t = u \/ \E n : t = [u EXCEPT !.response = n.stream, !.out = Append(u.out, n.data)]
      BY <2>2, Zenon DEF ReadTranslatedResponse
    <3>2. CASE t = u
      BY <2>5, <3>2, Zenon
    <3>3. CASE \E n : t = [u EXCEPT !.response = n.stream, !.out = Append(u.out, n.data)]
      <4>1. PICK x, y : t = [u EXCEPT !.response = x, !.out = y]
        BY <3>3, Zenon
      <4> QED
        BY <2>5, <4>1, FieldsAre
    <3> QED
      BY <3>1, <3>2, <3>3
  <2>7. CASE s.kind = "transcoded"
    <3>1. s.status = OK /\ s.out = s.replied /\ Drained(s.response)
      BY <1>3, <2>7, Zenon DEF Sound, Responding
    <3>2. BytesAvailable(g) = 0
      BY <2>3, <3>1, DrainedIsEmpty
    <3>3. NextMessage(g) = {}
      BY <3>2 DEF NextMessage, DelimiterSize
    <3>4. t = u
      BY <2>2, <2>5, <3>3, Zenon DEF ReadTranslatedResponse
    <3>5. Responding(t)
      BY <1>3, <1>5, <2>5, <3>1, <3>4, Zenon DEF Responding
    <3>6. t.kind # "grpc" /\ t.kind # "grpc-web"
      BY <1>12, <2>6
    <3>7. Answered(t)
      BY <2>5, <3>1, <3>2, <3>4, <3>6, ErrorCodes, Zenon DEF Answered
    <3> QED
      BY <2>2, <3>5, <3>7, Zenon DEF SoundAfter, Sound
  <2>8. CASE s.kind # "transcoded"
    <3>1. t.kind # "grpc" /\ t.kind # "grpc-web" /\ t.kind # "transcoded"
      BY <1>12, <2>6, <2>8
    <3>2. Responding(t) /\ Answered(t)
      BY <1>3, <2>6, <3>1, Zenon DEF Responding, Answered
    <3> QED
      BY <2>2, <3>2, Zenon DEF SoundAfter, Sound
  <2> QED
    BY <2>7, <2>8
<1> QED
  BY <1>9, <1>10, <1>11, <1>12

(* Every step but the end of the request leaves one call, answered so far.   *)
LEMMA StepSound ==
  ASSUME ResponseInvariant, [BackendNext]_backendVars
  PROVE  server' = server \/ server' = {} \/ SoundAfter
<1>1. CASE UNCHANGED backendVars
  BY <1>1, Zenon DEF backendVars
<1>2. CASE \/ \E c \in call : GrpcBackendHandler(c)
         \/ Read \/ OnDownstreamReadable \/ RunPendingRead \/ SendInitialMetadata
  BY <1>2, HandlerSound, ReadingSound, RunSound, HeaderSound
<1>3. CASE \E message \in Replies : Write(message)
  BY <1>3, WriteSound
<1>4. CASE \E e \in Ends : Finish(e)
  BY <1>4, FinishSound
<1>5. CASE \E c \in call : Report(c) /\ server' = IF c.stage = "content" THEN {} ELSE server
  BY <1>5, Zenon
<1> QED
  BY <1>1, <1>2, <1>3, <1>4, <1>5, Zenon DEF BackendNext

(* However messages come, are cut into slices and refused, and bodies are    *)
(* read in between, the response stream of a transcoded call is used up      *)
(* between two messages, and what was sent to the client is answered for.    *)
THEOREM ResponseInvariantHolds == BackendSpec => []ResponseInvariant
<1>1. BackendInit => ResponseInvariant
  BY Zenon DEF BackendInit, ResponseInvariant, ResponseFramed
<1>2. ResponseInvariant /\ [BackendNext]_backendVars => ResponseInvariant'
  <2> SUFFICES ASSUME ResponseInvariant, [BackendNext]_backendVars PROVE ResponseInvariant'
    OBVIOUS
  <2>1. CASE server' = server
    BY <2>1, Zenon DEF ResponseInvariant, ResponseFramed
  <2>2. CASE server' = {}
    BY <2>2, Zenon DEF ResponseInvariant, ResponseFramed
  <2>3. CASE SoundAfter
    BY <2>3, Zenon DEF SoundAfter, Sound, ResponseInvariant, ResponseFramed
  <2> QED
    BY <2>1, <2>2, <2>3, StepSound
<1> QED
  BY <1>1, <1>2, PTL DEF BackendSpec

(* ConvertResponseMessage, the serializer, the stream and the trailers of    *)
(* the three kinds of calls: the client gets the backend's messages whole    *)
(* and in order, framed with their lengths or one document each.             *)
THEOREM ResponsesAreFramed == BackendSpec => []ResponseFramed
<1>1. ResponseInvariant => ResponseFramed
  BY Zenon DEF ResponseInvariant
<1> QED
  BY <1>1, ResponseInvariantHolds, PTL
=============================================================================
