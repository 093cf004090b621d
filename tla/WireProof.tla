------------------------------ MODULE WireProof ------------------------------
(***************************************************************************)
(* Proofs about a message on its way: of any records of any types, any     *)
(* names in them, compressed or not, and any limits.                       *)
(***************************************************************************)
EXTENDS Wire, UnpackProof, Facts, FiniteSetTheorems

-----------------------------------------------------------------------------
(* Sums: what Sum computes, step by step.                                  *)

Sums(f, n, s) == f = [i \in 0 .. n |-> IF i = 0 THEN 0 ELSE f[i - 1] + s[i]]

(* The function exists: a least length for which it does not would be one  *)
(* more than a length for which it does.                                   *)
LEMMA SumsExists ==
  ASSUME NEW s, NEW n \in Nat
  PROVE  \E f : Sums(f, n, s)
<1> DEFINE T == {k \in Nat : ~ \E f : Sums(f, k, s)}
<1>1. ASSUME T # {}
      PROVE  FALSE
  <2>1. PICK k \in T : \A j \in T : k <= j
    BY <1>1, LeastNatural
  <2>2. k \in Nat /\ ~ \E f : Sums(f, k, s)
    OBVIOUS
  <2>3. CASE k = 0
    <3> DEFINE g == [i \in 0 .. 0 |-> 0]
    <3>1. Sums(g, 0, s)
      BY DEF Sums
    <3> QED
      BY <2>2, <2>3, <3>1
  <2>4. CASE k # 0
    <3>1. k - 1 \in Nat /\ k - 1 \notin T
      BY <2>1, <2>2, <2>4
    <3>2. PICK f : Sums(f, k - 1, s)
      BY <3>1
    <3> DEFINE next(i) == f[i - 1] + s[i]
               g == [i \in 0 .. k |-> IF i = k THEN next(k) ELSE f[i]]
    <3>3. \A i \in 0 .. k - 1 : f[i] = IF i = 0 THEN 0 ELSE next(i)
      BY <3>1, <3>2 DEF Sums
    <3>4. \A i \in 1 .. k : g[i - 1] = f[i - 1]
      BY <2>2
    <3>5. \A i \in 0 .. k : g[i] = IF i = 0 THEN 0 ELSE next(i)
      BY <2>2, <2>4, <3>3
    <3>6. g = [i \in 0 .. k |-> IF i = 0 THEN 0 ELSE g[i - 1] + s[i]]
      <4> HIDE DEF next
      <4>1. g = [i \in 0 .. k |-> IF i = 0 THEN 0 ELSE next(i)]
        BY <3>5
      <4> HIDE DEF g
      <4>2. \A i \in 1 .. k : next(i) = g[i - 1] + s[i]
        BY <3>4 DEF next
      <4>3. ASSUME NEW i \in 0 .. k
            PROVE  (IF i = 0 THEN 0 ELSE next(i)) = (IF i = 0 THEN 0 ELSE g[i - 1] + s[i])
        <5>1. i # 0 => i \in 1 .. k
          BY <2>2
        <5> QED
          BY <4>2, <5>1, Zenon
      <4> QED
        BY <4>1, <4>3, Zenon
    <3>7. Sums(g, k, s)
      BY <3>6 DEF Sums
    <3> QED
      BY <2>2, <3>7
  <2> QED
    BY <2>3, <2>4
<1> QED
  BY <1>1

LEMMA SumsSteps ==
  ASSUME NEW f, NEW n \in Nat, NEW s, Sums(f, n, s)
  PROVE  f[0] = 0 /\ \A i \in 1 .. n : f[i] = f[i - 1] + s[i]
<1>1. \A i \in 0 .. n : f[i] = IF i = 0 THEN 0 ELSE f[i - 1] + s[i]
  BY Zenon DEF Sums
<1>2. \A i \in 1 .. n : i \in 0 .. n /\ i # 0
  OBVIOUS
<1>3. 0 \in 0 .. n
  OBVIOUS
<1> QED
  BY <1>1, <1>2, <1>3, Zenon

(* Whatever takes the steps of the sum ends where the sum does.            *)
LEMMA SumOf ==
  ASSUME NEW s, NEW n \in Nat, Len(s) = n, NEW f, f[0] = 0,
         \A i \in 1 .. n : f[i] = f[i - 1] + s[i]
  PROVE  Sum(s) = f[n]
<1> DEFINE g == CHOOSE h : Sums(h, n, s)
<1>1. Sums(g, n, s)
  BY SumsExists
<1>2. Sum(s) = g[n]
  BY Zenon DEF Sum, Sums
<1> HIDE DEF g
<1>3. g[0] = 0 /\ \A i \in 1 .. n : g[i] = g[i - 1] + s[i]
  BY <1>1, SumsSteps
<1> DEFINE T == {k \in 0 .. n : g[k] # f[k]}
<1>4. ASSUME T # {}
      PROVE  FALSE
  <2>1. T \subseteq Nat
    OBVIOUS
  <2>2. PICK k \in T : \A j \in T : k <= j
    BY <1>4, <2>1, LeastNatural
  <2>3. CASE k = 0
    BY <1>3, <2>3
  <2>4. CASE k # 0
    <3>1. k - 1 \in 0 .. n /\ k - 1 \notin T /\ k \in 1 .. n
      BY <2>2, <2>4
    <3>2. g[k - 1] = f[k - 1]
      BY <3>1
    <3>3. g[k] = f[k]
      BY <1>3, <3>1, <3>2
    <3> QED
      BY <3>3
  <2> QED
    BY <2>3, <2>4
<1> QED
  BY <1>2, <1>4

(* The partial sums of naturals: each is a natural, and the sum of what it *)
(* is a partial sum of.                                                    *)
LEMMA SumSteps ==
  ASSUME NEW s \in Seq(Nat)
  PROVE  \E f : /\ f[0] = 0 /\ \A i \in 1 .. Len(s) : f[i] = f[i - 1] + s[i]
                /\ \A i \in 0 .. Len(s) : f[i] \in Nat /\ f[i] = Sum(SubSeq(s, 1, i))
                /\ Sum(s) = f[Len(s)]
<1> DEFINE n == Len(s)
<1>1. n \in Nat /\ \A i \in 1 .. n : s[i] \in Nat
  OBVIOUS
<1>2. PICK f : Sums(f, n, s)
  BY <1>1, SumsExists
<1>3. f[0] = 0 /\ \A i \in 1 .. n : f[i] = f[i - 1] + s[i]
  BY <1>1, <1>2, SumsSteps
<1>4. Sum(s) = f[n]
  BY <1>1, <1>3, SumOf
<1> DEFINE T == {k \in 0 .. n : f[k] \notin Nat}
<1>5. ASSUME T # {}
      PROVE  FALSE
  <2>1. T \subseteq Nat
    BY <1>1
  <2>2. PICK k \in T : \A j \in T : k <= j
    BY <1>5, <2>1, LeastNatural
  <2>3. CASE k = 0
    BY <1>3, <2>3
  <2>4. CASE k # 0
    <3>1. k - 1 \in 0 .. n /\ k - 1 \notin T /\ k \in 1 .. n
      BY <1>1, <2>2, <2>4
    <3>2. f[k - 1] \in Nat /\ s[k] \in Nat
      BY <1>1, <3>1
    <3>3. f[k] \in Nat
      BY <1>3, <3>1, <3>2
    <3> QED
      BY <3>3
  <2> QED
    BY <2>3, <2>4
<1>6. \A i \in 0 .. n : f[i] = Sum(SubSeq(s, 1, i))
  <2> TAKE i \in 0 .. n
  <2> DEFINE t == SubSeq(s, 1, i)
  <2>1. Len(t) = i /\ i \in Nat /\ \A j \in 1 .. i : t[j] = s[j]
    BY <1>1
  <2> HIDE DEF t
  <2>2. \A j \in 1 .. i : f[j] = f[j - 1] + t[j]
    <3> TAKE j \in 1 .. i
    <3>1. j \in 1 .. n
      BY <1>1
    <3> QED
      BY <1>3, <2>1, <3>1
  <2>3. Sum(t) = f[i]
    BY <1>3, <2>1, <2>2, SumOf, SMTT(30)
  <2> QED
    BY <2>3 DEF t
<1> QED
  BY <1>3, <1>4, <1>5, <1>6

LEMMA SumTyped ==
  ASSUME NEW s \in Seq(Nat)
  PROVE  Sum(s) \in Nat
<1>1. Len(s) \in 0 .. Len(s)
  OBVIOUS
<1> QED
  BY <1>1, SumSteps

LEMMA SumEmpty == Sum(<<>>) = 0
<1> DEFINE f == [i \in 0 .. 0 |-> 0]
           s == <<>>
<1>1. Len(s) = 0 /\ f[0] = 0 /\ \A i \in 1 .. 0 : f[i] = f[i - 1] + s[i]
  OBVIOUS
<1> HIDE DEF f, s
<1>2. Sum(s) = f[0]
  BY <1>1, SumOf
<1> QED
  BY <1>1, <1>2 DEF s

(* The sum up to an element.                                               *)
LEMMA SumUpTo ==
  ASSUME NEW s \in Seq(Nat), NEW i \in 0 .. Len(s)
  PROVE  /\ Sum(SubSeq(s, 1, i)) \in Nat
         /\ Sum(SubSeq(s, 1, i)) <= Sum(s)
         /\ i = 0 => Sum(SubSeq(s, 1, i)) = 0
         /\ i > 0 => Sum(SubSeq(s, 1, i)) = Sum(SubSeq(s, 1, i - 1)) + s[i]
<1> DEFINE n == Len(s)
<1>1. n \in Nat /\ \A j \in 1 .. n : s[j] \in Nat
  OBVIOUS
<1>2. PICK f : /\ f[0] = 0 /\ \A j \in 1 .. n : f[j] = f[j - 1] + s[j]
               /\ \A j \in 0 .. n : f[j] \in Nat /\ f[j] = Sum(SubSeq(s, 1, j))
               /\ Sum(s) = f[n]
  BY SumSteps
<1> DEFINE T == {k \in i .. n : ~(f[i] <= f[k])}
<1>3. ASSUME T # {}
      PROVE  FALSE
  <2>1. T \subseteq Nat
    BY <1>1
  <2>2. PICK k \in T : \A j \in T : k <= j
    BY <1>3, <2>1, LeastNatural
  <2>3. CASE k = i
    BY <1>2, <2>3
  <2>4. CASE k # i
    <3>1. k - 1 \in i .. n /\ k - 1 \notin T /\ k \in 1 .. n
      BY <1>1, <2>2, <2>4
    <3>2. f[i] <= f[k - 1] /\ f[i] \in Nat /\ f[k - 1] \in Nat /\ s[k] \in Nat
      BY <1>1, <1>2, <3>1
    <3>3. f[i] <= f[k]
      BY <1>2, <3>1, <3>2
    <3> QED
      BY <3>3
  <2> QED
    BY <2>3, <2>4
<1>4. f[i] <= f[n]
  BY <1>1, <1>3
<1>5. i > 0 => f[i] = f[i - 1] + s[i] /\ f[i - 1] = Sum(SubSeq(s, 1, i - 1))
  BY <1>1, <1>2
<1> QED
  BY <1>1, <1>2, <1>4, <1>5

LEMMA SumWhole ==
  ASSUME NEW s \in Seq(Nat)
  PROVE  Sum(SubSeq(s, 1, Len(s))) = Sum(s)
<1>1. Len(s) \in 0 .. Len(s)
  OBVIOUS
<1> QED
  BY <1>1, SumSteps

LEMMA SumOne ==
  ASSUME NEW n \in Nat, NEW s \in Seq(Nat), Len(s) = 1, s[1] = n
  PROVE  Sum(s) = n
<1>1. 1 \in 0 .. Len(s) /\ 0 \in 0 .. Len(s)
  OBVIOUS
<1>2. Sum(SubSeq(s, 1, 1)) = Sum(SubSeq(s, 1, 0)) + s[1] /\ Sum(SubSeq(s, 1, 0)) = 0
  BY <1>1, SumUpTo, SMTT(30)
<1>3. Sum(SubSeq(s, 1, 1)) = Sum(s)
  BY SumWhole
<1> QED
  BY <1>2, <1>3

LEMMA SumTail ==
  ASSUME NEW s \in Seq(Nat), s # <<>>
  PROVE  Sum(s) = s[1] + Sum(Tail(s))
<1> DEFINE n == Len(s)
           t == Tail(s)
<1>1. /\ n \in Nat /\ n > 0 /\ s[1] \in Nat /\ t \in Seq(Nat) /\ Len(t) = n - 1
      /\ \A i \in 1 .. n - 1 : t[i] = s[i + 1]
  OBVIOUS
<1>2. PICK f : /\ f[0] = 0 /\ \A j \in 1 .. n : f[j] = f[j - 1] + s[j]
               /\ \A j \in 0 .. n : f[j] \in Nat /\ f[j] = Sum(SubSeq(s, 1, j))
               /\ Sum(s) = f[n]
  BY SumSteps
<1> HIDE DEF n, t
<1> DEFINE g == [i \in 0 .. n - 1 |-> f[i + 1] - f[1]]
<1>3. g[0] = 0
  BY <1>1, <1>2
<1>4. \A i \in 1 .. n - 1 : g[i] = g[i - 1] + t[i]
  <2> TAKE i \in 1 .. n - 1
  <2>1. /\ g[i] = f[i + 1] - f[1] /\ g[i - 1] = f[i] - f[1] /\ t[i] = s[i + 1]
        /\ i + 1 \in 1 .. n /\ i \in 0 .. n
    BY <1>1
  <2>2. f[i + 1] = f[i] + s[i + 1]
    BY <1>1, <1>2, <2>1
  <2>3. f[i] \in Nat /\ f[1] \in Nat /\ f[i + 1] \in Nat
    BY <1>1, <1>2, <2>1
  <2>4. s[i + 1] \in Nat
    BY <1>1, <2>1 DEF n
  <2> HIDE DEF g
  <2> QED
    BY <2>1, <2>2, <2>3, <2>4
<1>5. g[n - 1] = f[n] - f[1]
  BY <1>1
<1> HIDE DEF g
<1>6. Sum(t) = g[n - 1]
  <2>1. n - 1 \in Nat
    BY <1>1
  <2> QED
    BY <1>1, <1>3, <1>4, <2>1, SumOf
<1>7. f[1] = s[1] /\ f[n] \in Nat
  BY <1>1, <1>2
<1> QED
  BY <1>1, <1>2, <1>5, <1>6, <1>7 DEF t

LEMMA SumConcat ==
  ASSUME NEW s \in Seq(Nat), NEW t \in Seq(Nat)
  PROVE  Sum(s \o t) = Sum(s) + Sum(t)
<1> DEFINE m == Len(s)
           n == Len(t)
           u == s \o t
<1>1. /\ m \in Nat /\ n \in Nat /\ Len(u) = m + n
      /\ \A i \in 1 .. m + n : u[i] = IF i <= m THEN s[i] ELSE t[i - m]
  OBVIOUS
<1>2. PICK f : /\ f[0] = 0 /\ \A j \in 1 .. m : f[j] = f[j - 1] + s[j]
               /\ \A j \in 0 .. m : f[j] \in Nat /\ f[j] = Sum(SubSeq(s, 1, j))
               /\ Sum(s) = f[m]
  BY SumSteps
<1>3. PICK g : /\ g[0] = 0 /\ \A j \in 1 .. n : g[j] = g[j - 1] + t[j]
               /\ \A j \in 0 .. n : g[j] \in Nat /\ g[j] = Sum(SubSeq(t, 1, j))
               /\ Sum(t) = g[n]
  BY SumSteps
<1>4. \A j \in 1 .. n : t[j] \in Nat
  OBVIOUS
<1> HIDE DEF m, n, u
<1> DEFINE h == [i \in 0 .. m + n |-> IF i <= m THEN f[i] ELSE f[m] + g[i - m]]
<1>5. h[0] = 0 /\ h[m + n] = f[m] + g[n]
  <2>1. 0 \in 0 .. m + n /\ 0 <= m /\ m + n \in 0 .. m + n /\ m + n - m = n
    BY <1>1
  <2>2. CASE n = 0
    <3>1. f[m] \in Nat /\ g[n] = 0 /\ m + n = m
      BY <1>1, <1>2, <1>3, <2>2
    <3> QED
      BY <1>1, <1>2, <2>1, <3>1
  <2>3. CASE n # 0
    <3>1. ~(m + n <= m)
      BY <1>1, <2>3
    <3> QED
      BY <1>1, <1>2, <2>1, <3>1
  <2> QED
    BY <2>2, <2>3
<1>6. \A i \in 1 .. m + n : h[i] = h[i - 1] + u[i]
  <2> TAKE i \in 1 .. m + n
  <2>1. /\ h[i] = (IF i <= m THEN f[i] ELSE f[m] + g[i - m])
        /\ h[i - 1] = (IF i - 1 <= m THEN f[i - 1] ELSE f[m] + g[i - 1 - m])
    BY <1>1
  <2> HIDE DEF h
  <2>2. CASE i <= m
    <3>1. i \in 1 .. m /\ i - 1 <= m
      BY <1>1, <2>2
    <3> QED
      BY <1>1, <1>2, <2>1, <2>2, <3>1
  <2>3. CASE i = m + 1
    <3>1. /\ ~(i <= m) /\ i - 1 = m /\ i - 1 <= m /\ i - m = 1 /\ 1 \in 1 .. n
          /\ 1 \in 0 .. n /\ m \in 0 .. m
      BY <1>1, <2>3
    <3>2. g[1] = g[0] + t[1] /\ t[1] \in Nat
      BY <1>3, <1>4, <3>1
    <3>3. g[1] = t[1]
      BY <1>3, <3>2
    <3> QED
      BY <1>1, <2>1, <3>1, <3>3
  <2>4. CASE i > m + 1
    <3>1. /\ ~(i <= m) /\ ~(i - 1 <= m) /\ i - m \in 1 .. n /\ i - 1 - m = i - m - 1
          /\ i - m - 1 \in 0 .. n /\ m \in 0 .. m
      BY <1>1, <2>4
    <3>2. g[i - m] = g[i - m - 1] + t[i - m] /\ t[i - m] \in Nat /\ g[i - m - 1] \in Nat
          /\ f[m] \in Nat
      BY <1>2, <1>3, <1>4, <3>1
    <3> QED
      BY <1>1, <2>1, <3>1, <3>2, SMTT(30)
  <2> QED
    BY <1>1, <2>2, <2>3, <2>4
<1> HIDE DEF h
<1>7. Sum(u) = h[m + n]
  <2> DEFINE k == m + n
  <2>1. k \in Nat /\ Len(u) = k
    BY <1>1
  <2>2. h[0] = 0 /\ \A i \in 1 .. k : h[i] = h[i - 1] + u[i]
    BY <1>5, <1>6
  <2> HIDE DEF k
  <2>3. Sum(u) = h[k]
    BY <2>1, <2>2, SumOf
  <2> QED
    BY <2>3 DEF k
<1> QED
  BY <1>2, <1>3, <1>5, <1>7 DEF u

(* A sum grows with what is added up.                                      *)
LEMMA SumLeq ==
  ASSUME NEW s \in Seq(Nat), NEW t \in Seq(Nat), Len(s) = Len(t),
         \A i \in 1 .. Len(s) : s[i] <= t[i]
  PROVE  Sum(s) <= Sum(t)
<1> DEFINE n == Len(s)
<1>1. n \in Nat /\ \A i \in 1 .. n : s[i] \in Nat /\ t[i] \in Nat /\ s[i] <= t[i]
  OBVIOUS
<1>2. PICK f : /\ f[0] = 0 /\ \A j \in 1 .. n : f[j] = f[j - 1] + s[j]
               /\ \A j \in 0 .. n : f[j] \in Nat /\ f[j] = Sum(SubSeq(s, 1, j))
               /\ Sum(s) = f[n]
  BY SumSteps
<1>3. PICK g : /\ g[0] = 0 /\ \A j \in 1 .. n : g[j] = g[j - 1] + t[j]
               /\ \A j \in 0 .. n : g[j] \in Nat /\ g[j] = Sum(SubSeq(t, 1, j))
               /\ Sum(t) = g[n]
  BY SumSteps
<1> DEFINE T == {k \in 0 .. n : ~(f[k] <= g[k])}
<1>4. ASSUME T # {}
      PROVE  FALSE
  <2>1. T \subseteq Nat
    BY <1>1
  <2>2. PICK k \in T : \A j \in T : k <= j
    BY <1>4, <2>1, LeastNatural
  <2>3. CASE k = 0
    BY <1>2, <1>3, <2>3
  <2>4. CASE k # 0
    <3>1. k - 1 \in 0 .. n /\ k - 1 \notin T /\ k \in 1 .. n
      BY <1>1, <2>2, <2>4
    <3>2. /\ f[k - 1] <= g[k - 1] /\ f[k - 1] \in Nat /\ g[k - 1] \in Nat
          /\ f[k] = f[k - 1] + s[k] /\ g[k] = g[k - 1] + t[k]
          /\ s[k] \in Nat /\ t[k] \in Nat /\ s[k] <= t[k]
      BY <1>1, <1>2, <1>3, <3>1
    <3>3. f[k] <= g[k]
      BY <3>2
    <3> QED
      BY <3>3
  <2> QED
    BY <2>3, <2>4
<1>5. n \in 0 .. n
  BY <1>1
<1> QED
  BY <1>2, <1>3, <1>4, <1>5

-----------------------------------------------------------------------------
(* Sequences that are put together.                                        *)

Flattens(f, n, ss) == f = [i \in 1 .. n |-> IF i = 1 THEN ss[i] ELSE f[i - 1] \o ss[i]]

LEMMA FlattensExists ==
  ASSUME NEW ss, NEW n \in Nat
  PROVE  \E f : Flattens(f, n, ss)
<1> DEFINE T == {k \in Nat : ~ \E f : Flattens(f, k, ss)}
<1>1. ASSUME T # {}
      PROVE  FALSE
  <2>1. PICK k \in T : \A j \in T : k <= j
    BY <1>1, LeastNatural
  <2>2. k \in Nat /\ ~ \E f : Flattens(f, k, ss)
    OBVIOUS
  <2>3. CASE k = 0
    <3> DEFINE g == [i \in 1 .. 0 |-> IF i = 1 THEN ss[i] ELSE <<>> \o ss[i]]
    <3>1. Flattens(g, 0, ss)
      <4>1. g = [i \in 1 .. 0 |-> IF i = 1 THEN ss[i] ELSE g[i - 1] \o ss[i]]
        <5>1. \A i \in 1 .. 0 : FALSE
          OBVIOUS
        <5> QED
          BY <5>1, Zenon
      <4> QED
        BY <4>1 DEF Flattens
    <3> QED
      BY <2>2, <2>3, <3>1
  <2>4. CASE k # 0
    <3>1. k - 1 \in Nat /\ k - 1 \notin T
      BY <2>1, <2>2, <2>4
    <3>2. PICK f : Flattens(f, k - 1, ss)
      BY <3>1
    <3> DEFINE next(i) == f[i - 1] \o ss[i]
               g == [i \in 1 .. k |-> IF i = k THEN IF k = 1 THEN ss[k] ELSE next(k) ELSE f[i]]
    <3>3. \A i \in 1 .. k - 1 : f[i] = IF i = 1 THEN ss[i] ELSE next(i)
      BY <3>2, Zenon DEF Flattens
    <3>4. \A i \in 2 .. k : g[i - 1] = f[i - 1]
      BY <2>2
    <3>5. \A i \in 1 .. k : g[i] = IF i = 1 THEN ss[i] ELSE next(i)
      <4> HIDE DEF next
      <4> QED
        BY <2>2, <2>4, <3>3
    <3>6. g = [i \in 1 .. k |-> IF i = 1 THEN ss[i] ELSE g[i - 1] \o ss[i]]
      <4> HIDE DEF next
      <4>1. g = [i \in 1 .. k |-> IF i = 1 THEN ss[i] ELSE next(i)]
        BY <3>5
      <4> HIDE DEF g
      <4>2. \A i \in 2 .. k : next(i) = g[i - 1] \o ss[i]
        BY <3>4 DEF next
      <4>3. ASSUME NEW i \in 1 .. k
            PROVE  (IF i = 1 THEN ss[i] ELSE next(i))
                     = (IF i = 1 THEN ss[i] ELSE g[i - 1] \o ss[i])
        <5>1. i # 1 => i \in 2 .. k
          BY <2>2
        <5> QED
          BY <4>2, <5>1, Zenon
      <4> QED
        BY <4>1, <4>3, Zenon
    <3>7. Flattens(g, k, ss)
      BY <3>6 DEF Flattens
    <3> QED
      BY <2>2, <3>7
  <2> QED
    BY <2>3, <2>4
<1> QED
  BY <1>1

LEMMA FlattenSteps ==
  ASSUME NEW ss, NEW n \in Nat, Len(ss) = n, n > 0
  PROVE  \E f : /\ f[1] = ss[1] /\ FlattenSeq(ss) = f[n]
                /\ \A i \in 2 .. n : f[i] = f[i - 1] \o ss[i]
<1> DEFINE f == CHOOSE h : Flattens(h, n, ss)
<1>1. Flattens(f, n, ss)
  BY FlattensExists
<1>2. FlattenSeq(ss) = f[n]
  <2>1. Len(ss) # 0
    OBVIOUS
  <2> QED
    BY <2>1, Zenon DEF FlattenSeq, Flattens
<1> HIDE DEF f
<1>3. \A i \in 1 .. n : f[i] = IF i = 1 THEN ss[i] ELSE f[i - 1] \o ss[i]
  BY <1>1, Zenon DEF Flattens
<1>4. 1 \in 1 .. n /\ \A i \in 2 .. n : i \in 1 .. n /\ i # 1
  OBVIOUS
<1>5. f[1] = ss[1] /\ \A i \in 2 .. n : f[i] = f[i - 1] \o ss[i]
  BY <1>3, <1>4, Zenon
<1> QED
  BY <1>2, <1>5

-----------------------------------------------------------------------------
(* The fields of a record and what the len functions count for them.       *)

FieldCost(e) == FieldLen(CountedAs(e[1]), e[2])
Costs(fs)    == [i \in 1 .. Len(fs) |-> FieldCost(fs[i])]

LEMMA CostsFacts ==
  ASSUME NEW X, \A e \in X : FieldCost(e) \in Nat, NEW s \in Seq(X)
  PROVE  /\ Costs(s) \in Seq(Nat) /\ Len(Costs(s)) = Len(s)
         /\ \A i \in 1 .. Len(s) : Costs(s)[i] = FieldCost(s[i])
<1>1. Len(s) \in Nat /\ \A i \in 1 .. Len(s) : s[i] \in X
  OBVIOUS
<1> QED
  BY <1>1 DEF Costs

LEMMA CostsConcat ==
  ASSUME NEW X, \A e \in X : FieldCost(e) \in Nat, NEW s \in Seq(X), NEW t \in Seq(X)
  PROVE  Sum(Costs(s \o t)) = Sum(Costs(s)) + Sum(Costs(t))
<1>1. /\ s \o t \in Seq(X) /\ Len(s \o t) = Len(s) + Len(t)
      /\ Len(s) \in Nat /\ Len(t) \in Nat
      /\ \A i \in 1 .. Len(s) : (s \o t)[i] = s[i]
      /\ \A i \in 1 .. Len(t) : (s \o t)[Len(s) + i] = t[i]
  OBVIOUS
<1> DEFINE a == Costs(s)
           b == Costs(t)
           c == Costs(s \o t)
<1>2. a \in Seq(Nat) /\ Len(a) = Len(s) /\ \A i \in 1 .. Len(s) : a[i] = FieldCost(s[i])
  BY CostsFacts
<1>3. b \in Seq(Nat) /\ Len(b) = Len(t) /\ \A i \in 1 .. Len(t) : b[i] = FieldCost(t[i])
  BY CostsFacts
<1>4. /\ c \in Seq(Nat) /\ Len(c) = Len(s \o t)
      /\ \A i \in 1 .. Len(s \o t) : c[i] = FieldCost((s \o t)[i])
  BY <1>1, CostsFacts
<1> HIDE DEF a, b, c
<1>5. c = a \o b
  <2>1. \A i \in 1 .. Len(s) + Len(t) : c[i] = (a \o b)[i]
    <3> TAKE i \in 1 .. Len(s) + Len(t)
    <3>1. CASE i <= Len(s)
      <4>1. i \in 1 .. Len(s) /\ i \in 1 .. Len(s \o t)
        BY <1>1, <3>1
      <4>2. c[i] = FieldCost(s[i])
        BY <1>1, <1>4, <4>1
      <4>3. (a \o b)[i] = a[i]
        BY <1>2, <1>3, <4>1
      <4> QED
        BY <1>2, <4>1, <4>2, <4>3
    <3>2. CASE i > Len(s)
      <4> DEFINE j == i - Len(s)
      <4>1. j \in 1 .. Len(t) /\ i = Len(s) + j /\ i \in 1 .. Len(s \o t)
        BY <1>1, <3>2
      <4> HIDE DEF j
      <4>2. c[i] = FieldCost(t[j])
        BY <1>1, <1>4, <4>1
      <4>3. (a \o b)[i] = b[j]
        BY <1>1, <1>2, <1>3, <4>1
      <4> QED
        BY <1>3, <4>1, <4>2, <4>3
    <3>3. i <= Len(s) \/ i > Len(s)
      BY <1>1
    <3> QED
      BY <3>1, <3>2, <3>3, Zenon
  <2> DEFINE d == a \o b
  <2>2. d \in Seq(Nat) /\ Len(d) = Len(s) + Len(t)
    <3>1. a \in Seq(Nat) /\ b \in Seq(Nat) /\ Len(a) = Len(s) /\ Len(b) = Len(t)
      BY <1>2, <1>3
    <3>2. a \o b \in Seq(Nat) /\ Len(a \o b) = Len(a) + Len(b)
      BY <3>1, ConcatProperties, Zenon
    <3> QED
      BY <3>1, <3>2, Zenon
  <2> HIDE DEF d
  <2>3. c \in Seq(Nat) /\ Len(c) = Len(d)
    BY <1>1, <1>4, <2>2
  <2>4. \A i \in 1 .. Len(c) : c[i] = d[i]
    BY <1>1, <1>4, <2>1 DEF d
  <2>5. c = d
    BY <2>2, <2>3, <2>4, SeqEqual
  <2> QED
    BY <2>5 DEF d
<1>6. Sum(c) = Sum(a) + Sum(b)
  BY <1>2, <1>3, <1>5, SumConcat
<1> QED
  BY <1>6 DEF a, b, c

LEMMA CostsTail ==
  ASSUME NEW X, \A e \in X : FieldCost(e) \in Nat, NEW s \in Seq(X), s # <<>>
  PROVE  Sum(Costs(s)) = FieldCost(Head(s)) + Sum(Costs(Tail(s)))
<1>1. /\ Tail(s) \in Seq(X) /\ Len(Tail(s)) = Len(s) - 1 /\ Len(s) \in Nat /\ Len(s) > 0
      /\ \A i \in 1 .. Len(s) - 1 : Tail(s)[i] = s[i + 1]
      /\ Head(s) = s[1]
  OBVIOUS
<1>2. Costs(s) \in Seq(Nat) /\ Len(Costs(s)) = Len(s)
      /\ \A i \in 1 .. Len(s) : Costs(s)[i] = FieldCost(s[i])
  BY CostsFacts
<1>3. Costs(Tail(s)) \in Seq(Nat) /\ Len(Costs(Tail(s))) = Len(Tail(s))
      /\ \A i \in 1 .. Len(Tail(s)) : Costs(Tail(s))[i] = FieldCost(Tail(s)[i])
  BY <1>1, CostsFacts
<1> DEFINE a == Costs(s)
           b == Costs(Tail(s))
<1> HIDE DEF a, b
<1>4. a # <<>> /\ b = Tail(a)
  <2>1. \A i \in 1 .. Len(s) - 1 : b[i] = Tail(a)[i]
    <3> TAKE i \in 1 .. Len(s) - 1
    <3>1. i \in 1 .. Len(Tail(s)) /\ i + 1 \in 1 .. Len(s)
      BY <1>1
    <3>2. b[i] = FieldCost(s[i + 1])
      BY <1>1, <1>3, <3>1 DEF b
    <3>3. a[i + 1] = FieldCost(s[i + 1])
      BY <1>2, <3>1 DEF a
    <3>4. Tail(a)[i] = a[i + 1]
      BY <1>1, <1>2, <3>1 DEF a
    <3> QED
      BY <3>2, <3>3, <3>4
  <2>2. a \in Seq(Nat) /\ Len(a) = Len(s) /\ b \in Seq(Nat) /\ Len(b) = Len(s) - 1
    BY <1>1, <1>2, <1>3 DEF a, b
  <2> DEFINE d == Tail(a)
  <2>3. a # <<>> /\ d \in Seq(Nat) /\ Len(d) = Len(s) - 1
    BY <1>1, <2>2
  <2>4. \A i \in 1 .. Len(b) : b[i] = d[i]
    BY <2>1, <2>2
  <2> HIDE DEF d
  <2>5. b = d
    BY <2>2, <2>3, <2>4, SeqEqual
  <2> QED
    BY <2>3, <2>5 DEF d
<1>5. Sum(a) = a[1] + Sum(Tail(a))
  BY <1>2, <1>4, SumTail DEF a
<1>6. a[1] = FieldCost(Head(s))
  <2>1. 1 \in 1 .. Len(s)
    BY <1>1
  <2> QED
    BY <1>1, <1>2, <2>1 DEF a
<1> QED
  BY <1>4, <1>5, <1>6 DEF a, b

LEMMA FlattenFacts ==
  ASSUME NEW X, \A e \in X : FieldCost(e) \in Nat, NEW n \in Nat, NEW ss, ss \in Seq(Seq(X)),
         Len(ss) = n, NEW r \in Seq(Nat), Len(r) = n,
         \A i \in 1 .. n : Sum(Costs(ss[i])) = r[i]
  PROVE  FlattenSeq(ss) \in Seq(X) /\ Sum(Costs(FlattenSeq(ss))) = Sum(r)
<1>1. \A i \in 1 .. n : ss[i] \in Seq(X) /\ r[i] \in Nat
  OBVIOUS
<1>2. CASE n = 0
  <2>1. FlattenSeq(ss) = ss /\ ss = <<>>
    BY <1>2 DEF FlattenSeq
  <2>2. r = <<>> /\ <<>> \in Seq(X)
    BY <1>2
  <2>3. Costs(<<>>) = <<>>
    <3>1. Costs(<<>>) = [i \in 1 .. 0 |-> FieldCost(<<>>[i])]
      BY DEF Costs
    <3> QED
      BY <3>1
  <2> QED
    BY <2>1, <2>2, <2>3
<1>3. CASE n > 0
  <2>1. PICK f : /\ f[1] = ss[1] /\ FlattenSeq(ss) = f[n]
                 /\ \A i \in 2 .. n : f[i] = f[i - 1] \o ss[i]
    BY <1>3, FlattenSteps
  <2>2. PICK g : /\ g[0] = 0 /\ \A j \in 1 .. n : g[j] = g[j - 1] + r[j]
                 /\ \A j \in 0 .. n : g[j] \in Nat /\ g[j] = Sum(SubSeq(r, 1, j))
                 /\ Sum(r) = g[n]
    BY SumSteps
  <2> DEFINE T == {k \in 1 .. n : ~(f[k] \in Seq(X) /\ Sum(Costs(f[k])) = g[k])}
  <2>3. ASSUME T # {}
        PROVE  FALSE
    <3>1. T \subseteq Nat
      OBVIOUS
    <3>2. PICK k \in T : \A j \in T : k <= j
      BY <2>3, <3>1, LeastNatural
    <3>3. CASE k = 1
      <4>1. g[1] = g[0] + r[1] /\ r[1] \in Nat /\ ss[1] \in Seq(X) /\ Sum(Costs(ss[1])) = r[1]
        BY <1>1, <1>3, <2>2
      <4>2. g[1] = r[1]
        BY <2>2, <4>1
      <4> QED
        BY <2>1, <3>3, <4>1, <4>2
    <3>4. CASE k # 1
      <4>1. k - 1 \in 1 .. n /\ k - 1 \notin T /\ k \in 2 .. n /\ k \in 1 .. n
        <5>1. k \in 1 .. n
          OBVIOUS
        <5> HIDE DEF T
        <5> QED
          BY <3>1, <3>2, <3>4, <5>1
      <4>2. f[k - 1] \in Seq(X) /\ Sum(Costs(f[k - 1])) = g[k - 1]
        BY <4>1
      <4>3. f[k] = f[k - 1] \o ss[k] /\ ss[k] \in Seq(X) /\ Sum(Costs(ss[k])) = r[k]
        BY <1>1, <2>1, <4>1
      <4>4. g[k] = g[k - 1] + r[k]
        BY <2>2, <4>1
      <4> HIDE DEF T
      <4>5. Sum(Costs(f[k])) = Sum(Costs(f[k - 1])) + Sum(Costs(ss[k]))
        BY <4>2, <4>3, CostsConcat
      <4>6. f[k] \in Seq(X)
        BY <4>2, <4>3
      <4> QED
        BY <3>2, <4>2, <4>3, <4>4, <4>5, <4>6 DEF T
    <3> QED
      BY <3>3, <3>4
  <2>4. n \in 1 .. n
    BY <1>3
  <2> QED
    BY <2>1, <2>2, <2>3, <2>4
<1> QED
  BY <1>2, <1>3

-----------------------------------------------------------------------------
(* Numbers that the definitions choose.                                    *)

LEMMA MinFacts ==
  ASSUME NEW S, S \subseteq Nat, S # {}
  PROVE  Min(S) \in S /\ \A n \in S : Min(S) <= n
<1>1. \E n \in S : \A m \in S : n <= m
  BY LeastNatural
<1> QED
  BY <1>1 DEF Min

LEMMA MaxFacts ==
  ASSUME NEW S, S \subseteq Nat, S # {}, NEW b \in Nat, \A n \in S : n <= b
  PROVE  Max(S) \in S /\ \A n \in S : n <= Max(S)
<1> DEFINE T == {b - n : n \in S}
<1>1. T \subseteq Nat /\ T # {}
  <2>1. \A n \in S : b - n \in Nat
    OBVIOUS
  <2> QED
    BY <2>1
<1>2. PICK t \in T : \A u \in T : t <= u
  BY <1>1, LeastNatural
<1>3. PICK n \in S : t = b - n
  BY <1>2
<1>4. \A m \in S : n >= m
  <2> TAKE m \in S
  <2>1. b - n <= b - m
    BY <1>2, <1>3
  <2> QED
    BY <2>1
<1>5. \E k \in S : \A m \in S : k >= m
  BY <1>4
<1>6. Max(S) \in S /\ \A m \in S : Max(S) >= m
  BY <1>5 DEF Max
<1> QED
  BY <1>6

LEMMA MaxOfTwo ==
  ASSUME NEW m \in Nat, NEW n \in Nat
  PROVE  Max({m, n}) = IF m <= n THEN n ELSE m
<1>1. {m, n} \subseteq Nat /\ {m, n} # {} /\ m + n \in Nat /\ \A k \in {m, n} : k <= m + n
  OBVIOUS
<1>2. Max({m, n}) \in {m, n} /\ \A k \in {m, n} : k <= Max({m, n})
  BY <1>1, MaxFacts
<1> QED
  BY <1>2

LEMMA CountTyped ==
  ASSUME NEW n \in Nat, NEW S, S \subseteq 1 .. n
  PROVE  Cardinality(S) \in Nat
<1>1. IsFiniteSet(1 .. n)
  BY FS_Interval
<1> QED
  BY <1>1, FS_Subset, FS_CardinalityType

-----------------------------------------------------------------------------
(* What a field takes, and what is counted for it.                         *)

LEMMA SizeFacts ==
  /\ DOMAIN Size = {"u8", "u16", "u32", "u48", "u64", "a", "aaaa"}
  /\ \A k \in DOMAIN Size : Size[k] \in Nat /\ Size[k] > 0
  BY DEF Size

NotNames == PackKind \ {"name", "cname", "names"}

(* Too little is counted for a bitmap that is miscounted, and otherwise     *)
(* nothing that does not fit.                                               *)
Fair(kind, v) == kind = "nsec" => Sum(Pieces(kind, v)) <= BitmapLen(v)

FieldFits(kind, v) ==
  /\ Pieces(kind, v) \in Seq(Nat)
  /\ FieldLen(kind, v) \in Nat
  /\ Needed(kind, v) \in Nat
  /\ Sum(Pieces(kind, v)) <= Needed(kind, v)
  /\ Fair(kind, v) => /\ Sum(Pieces(kind, v)) <= FieldLen(kind, v)
                      /\ Needed(kind, v) <= FieldLen(kind, v) + 1

(* One more for each.                                                      *)
OneMore(f, n, s, t) ==
  /\ f[0] = 0 /\ \A j \in 0 .. n : f[j] \in Nat
  /\ \A j \in 1 .. n : f[j] = f[j - 1] + s[j] /\ s[j] \in Nat /\ t[j] = s[j] + 1

LEMMA StepsMore ==
  ASSUME NEW n \in Nat, NEW f, NEW s, NEW t, OneMore(f, n, s, t)
  PROVE  \E g : /\ g[0] = 0 /\ g[n] = f[n] + n
                /\ \A j \in 1 .. n : g[j] = g[j - 1] + t[j]
<1> DEFINE g == [i \in 0 .. n |-> f[i] + i]
<1>1. g[0] = 0 /\ g[n] = f[n] + n
  BY DEF OneMore
<1>2. \A j \in 1 .. n : g[j] = g[j - 1] + t[j]
  <2> TAKE j \in 1 .. n
  <2>1. j \in 0 .. n /\ j - 1 \in 0 .. n
    OBVIOUS
  <2>2. g[j] = f[j] + j /\ g[j - 1] = f[j - 1] + (j - 1)
    BY <2>1
  <2> HIDE DEF g
  <2> QED
    BY <2>1, <2>2 DEF OneMore
<1> QED
  BY <1>1, <1>2

Longer(s, t) == Len(t) = Len(s) /\ \A i \in 1 .. Len(s) : t[i] = s[i] + 1

LEMMA SumMore ==
  ASSUME NEW s \in Seq(Nat), NEW t \in Seq(Nat), Longer(s, t)
  PROVE  Sum(t) = Sum(s) + Len(s)
<1> DEFINE n == Len(s)
<1>1. n \in Nat /\ Len(t) = n /\ \A i \in 1 .. n : s[i] \in Nat
  BY DEF Longer
<1>2. PICK f : /\ f[0] = 0 /\ \A j \in 1 .. n : f[j] = f[j - 1] + s[j]
               /\ \A j \in 0 .. n : f[j] \in Nat /\ f[j] = Sum(SubSeq(s, 1, j))
               /\ Sum(s) = f[n]
  BY SumSteps
<1>3. OneMore(f, n, s, t)
  BY <1>1, <1>2 DEF OneMore, Longer
<1> HIDE DEF n
<1>4. PICK g : /\ g[0] = 0 /\ g[n] = f[n] + n
               /\ \A j \in 1 .. n : g[j] = g[j - 1] + t[j]
  <2>1. n \in Nat
    BY <1>1
  <2> QED
    BY <1>3, <2>1, StepsMore
<1>5. Sum(t) = g[n]
  BY <1>1, <1>4, SumOf, Zenon
<1> QED
  BY <1>2, <1>4, <1>5 DEF n

LEMMA SizedFits ==
  ASSUME NEW kind \in DOMAIN Size, NEW v \in Says(kind)
  PROVE  FieldFits(kind, v)
<1> DEFINE n == Size[kind]
<1>1. n \in Nat /\ FieldLen(kind, v) = n /\ kind # "nsec"
  BY SizeFacts DEF FieldLen
<1>2. CASE kind \in {"a", "aaaa"}
  <2>1. Needed(kind, v) = n
    BY <1>2 DEF Needed
  <2>2. Pieces(kind, v) = [i \in 1 .. Len(v) |-> n]
    BY <1>2 DEF Pieces
  <2>3. v = <<>> \/ v = <<0>>
    BY <1>2 DEF Says
  <2>4. CASE v = <<>>
    <3>1. Pieces(kind, v) = <<>>
      BY <2>2, <2>4
    <3> QED
      BY <1>1, <2>1, <3>1, SumEmpty DEF FieldFits
  <2>5. CASE v = <<0>>
    <3> DEFINE p == Pieces(kind, v)
    <3>1. p \in Seq(Nat) /\ Len(p) = 1 /\ p[1] = n
      BY <1>1, <2>2, <2>5
    <3> HIDE DEF p
    <3>2. Sum(p) = n
      BY <1>1, <3>1, SumOne
    <3> QED
      BY <1>1, <2>1, <3>1, <3>2 DEF FieldFits, p
  <2> QED
    BY <2>3, <2>4, <2>5
<1>3. CASE kind \notin {"a", "aaaa"}
  <2> DEFINE p == Pieces(kind, v)
  <2>1. p = <<n>>
    BY <1>3, SizeFacts DEF Pieces
  <2>2. Needed(kind, v) = Sum(p)
    BY <1>3, SizeFacts DEF Needed
  <2> HIDE DEF p, n
  <2>3. p \in Seq(Nat) /\ Len(p) = 1 /\ p[1] = n
    BY <1>1, <2>1
  <2>4. Sum(p) = n
    BY <1>1, <2>3, SumOne
  <2> QED
    BY <1>1, <2>2, <2>3, <2>4 DEF FieldFits, p
<1> QED
  BY <1>2, <1>3

LEMMA StringsFit ==
  ASSUME NEW kind \in {"string", "txt"}, NEW v \in Says(kind)
  PROVE  FieldFits(kind, v) /\ \A i \in 1 .. Len(v) : Pieces(kind, v)[i] > 0
<1> DEFINE p == Pieces(kind, v)
<1>1. v \in Seq(Nat) /\ (kind = "string" => Len(v) = 1)
  BY SizeFacts DEF Says
<1>2. p = [i \in 1 .. Len(v) |-> v[i] + 1]
  BY SizeFacts DEF Pieces
<1> HIDE DEF p
<1>3. p \in Seq(Nat) /\ Len(p) = Len(v) /\ Sum(p) = Sum(v) + Len(v)
  <2>1. p \in Seq(Nat) /\ Len(p) = Len(v) /\ Longer(v, p)
    BY <1>1, <1>2 DEF Longer
  <2> QED
    BY <1>1, <2>1, SumMore
<1>4. FieldLen(kind, v) = Sum(p)
  BY <1>3, SizeFacts DEF FieldLen
<1>5. Sum(p) \in Nat
  BY <1>3, SumTyped
<1>6. Sum(p) <= Needed(kind, v) /\ Needed(kind, v) <= Sum(p) + 1 /\ Needed(kind, v) \in Nat
  <2>1. CASE kind = "string"
    <3>1. Needed(kind, v) = Sum(p)
      BY <2>1, SizeFacts DEF Needed, p
    <3> QED
      BY <1>5, <3>1
  <2>2. CASE kind = "txt"
    <3>1. Needed(kind, v) = Max({1, Sum(p)})
      BY <2>2, SizeFacts DEF Needed, p
    <3> QED
      BY <1>5, <3>1, MaxOfTwo
  <2> QED
    BY <2>1, <2>2
<1>7. \A i \in 1 .. Len(v) : p[i] > 0
  BY <1>1, <1>2
<1> QED
  BY <1>3, <1>4, <1>5, <1>6, <1>7 DEF FieldFits, p

(* What is written of a field: of an option there may be less than it says. *)
Fate == {Sound, Unread, Torn, Unfit}

Puts(kind) == IF kind = "opt" THEN Seq(OptionCode \X Nat \X Fate) ELSE Says(kind)

LEMMA SaysPuts ==
  ASSUME NEW kind \in NotNames, NEW v \in Says(kind)
  PROVE  v \in Puts(kind)
<1>1. CASE kind = "opt"
  <2>1. v \in Seq(Option)
    BY <1>1, SizeFacts DEF Says
  <2>2. \A i \in 1 .. Len(v) : v[i] \in OptionCode \X Nat \X Fate
    BY <2>1 DEF Option, Fate
  <2> QED
    BY <1>1, <2>1, <2>2 DEF Puts
<1>2. CASE kind # "opt"
  BY <1>2 DEF Puts
<1> QED
  BY <1>1, <1>2

LEMMA OptionsFit ==
  ASSUME NEW v \in Puts("opt")
  PROVE  FieldFits("opt", v) /\ \A i \in 1 .. Len(v) : Pieces("opt", v)[i] > 0
<1> DEFINE p == Pieces("opt", v)
<1>1. v \in Seq(OptionCode \X Nat \X Fate)
  BY DEF Puts
<1>2. p = [i \in 1 .. Len(v) |-> v[i][2] + 4]
  BY SizeFacts DEF Pieces
<1>3. FieldLen("opt", v) = Sum(p) /\ Needed("opt", v) = Sum(p)
  BY <1>2, SizeFacts DEF FieldLen, Needed
<1> HIDE DEF p
<1>4. Len(v) \in Nat /\ \A i \in 1 .. Len(v) : v[i][2] \in Nat
  BY <1>1
<1>5. p \in Seq(Nat) /\ \A i \in 1 .. Len(v) : p[i] > 0
  BY <1>2, <1>4
<1>6. Sum(p) \in Nat
  BY <1>5, SumTyped
<1> QED
  BY <1>3, <1>5, <1>6 DEF FieldFits, p

LEMMA BitmapFits ==
  ASSUME NEW v \in Says("nsec")
  PROVE  FieldFits("nsec", v) /\ \A i \in 1 .. Len(v) : Pieces("nsec", v)[i] > 0
<1> DEFINE p == Pieces("nsec", v)
<1>1. v \in Seq(Nat)
  BY SizeFacts DEF Says
<1>2. p = [i \in 1 .. Len(v) |-> 2 + (v[i] % 256) \div 8 + 1]
  BY SizeFacts DEF Pieces
<1>3. FieldLen("nsec", v) = BitmapLen(v) /\ Needed("nsec", v) = Sum(p)
  BY SizeFacts DEF FieldLen, Needed
<1> HIDE DEF p
<1>4. Len(v) \in Nat /\ \A i \in 1 .. Len(v) : v[i] \in Nat
  BY <1>1
<1>5. p \in Seq(Nat) /\ \A i \in 1 .. Len(v) : p[i] > 0
  <2>1. \A i \in 1 .. Len(v) : 2 + (v[i] % 256) \div 8 + 1 \in Nat /\ 2 + (v[i] % 256) \div 8 + 1 > 0
    <3> TAKE i \in 1 .. Len(v)
    <3>1. v[i] % 256 \in Nat
      BY <1>4
    <3>2. (v[i] % 256) \div 8 \in Nat
      BY <3>1
    <3> QED
      BY <3>2
  <2> QED
    BY <1>2, <1>4, <2>1
<1>6. Sum(p) \in Nat
  BY <1>5, SumTyped
<1>7. BitmapLen(v) \in Nat
  <2> DEFINE S == {i \in 1 .. Len(v) :
                     Window(v[i]) # IF i = 1 THEN 35 ELSE Window(v[i - 1])}
  <2>1. S \subseteq 1 .. Len(v)
    OBVIOUS
  <2>2. Cardinality(S) \in Nat
    BY <1>4, <2>1, CountTyped
  <2>3. BitmapLen(v) = 33 * Cardinality(S)
    BY DEF BitmapLen
  <2> HIDE DEF S
  <2> QED
    BY <2>2, <2>3
<1> QED
  BY <1>3, <1>5, <1>6, <1>7 DEF FieldFits, Fair, p

LEMMA TextsFit ==
  ASSUME NEW kind \in {"octet", "hex", "b64", "b32"}, NEW v \in Says(kind)
  PROVE  FieldFits(kind, v)
<1>1. v \in Seq(Nat) /\ Len(v) = 1 /\ Pieces(kind, v) = v /\ kind # "nsec"
  BY SizeFacts DEF Says, Pieces
<1>2. v[1] \in Nat /\ Sum(v) = v[1]
  <2>1. v[1] \in Nat
    BY <1>1, SMTT(30)
  <2> QED
    BY <1>1, <2>1, SumOne
<1>3. CASE kind = "octet"
  <2>1. FieldLen(kind, v) = v[1] /\ Needed(kind, v) = Max({1, v[1]})
    BY <1>1, <1>2, <1>3, SizeFacts DEF FieldLen, Needed
  <2> QED
    BY <1>1, <1>2, <2>1, MaxOfTwo DEF FieldFits
<1>4. CASE kind # "octet"
  <2>1. Needed(kind, v) = v[1]
    BY <1>1, <1>2, <1>4, SizeFacts DEF Needed
  <2>2. FieldLen(kind, v) \in Nat /\ v[1] <= FieldLen(kind, v)
    <3>1. CASE kind = "hex"
      <4>1. FieldLen(kind, v) = v[1] + 1
        BY <3>1, SizeFacts DEF FieldLen
      <4> QED
        BY <1>2, <4>1
    <3>2. CASE kind = "b64"
      <4>1. FieldLen(kind, v) = 3 * ((v[1] + 2) \div 3)
        BY <3>2, SizeFacts DEF FieldLen
      <4> QED
        BY <1>2, <4>1
    <3>3. CASE kind = "b32"
      <4>1. FieldLen(kind, v) = 8 * ((v[1] + 4) \div 5) + 1
        BY <3>3, SizeFacts DEF FieldLen
      <4> QED
        BY <1>2, <4>1
    <3> QED
      BY <1>4, <3>1, <3>2, <3>3
  <2> QED
    BY <1>1, <1>2, <2>1, <2>2 DEF FieldFits
<1> QED
  BY <1>3, <1>4

LEMMA DataFits ==
  ASSUME NEW kind \in NotNames, NEW v \in Puts(kind)
  PROVE  /\ FieldFits(kind, v)
         /\ kind \in {"string", "txt", "nsec", "opt"} =>
              \A i \in 1 .. Len(Pieces(kind, v)) : Pieces(kind, v)[i] > 0
<1>1. kind \in DOMAIN Size \cup {"string", "txt", "opt", "nsec", "octet", "hex", "b64", "b32"}
  BY DEF NotNames, PackKind
<1> USE DEF Puts
<1>2. CASE kind \in DOMAIN Size
  BY <1>2, SizedFits, SizeFacts
<1>3. CASE kind \in {"string", "txt"}
  <2>1. Len(Pieces(kind, v)) = Len(v)
    BY <1>3, SizeFacts DEF Pieces, Says
  <2> QED
    BY <1>3, <2>1, StringsFit
<1>4. CASE kind = "opt"
  <2>1. Len(Pieces(kind, v)) = Len(v)
    BY <1>4, SizeFacts DEF Pieces, Says
  <2> QED
    BY <1>4, <2>1, OptionsFit
<1>5. CASE kind = "nsec"
  <2>1. Len(Pieces(kind, v)) = Len(v)
    BY <1>5, SizeFacts DEF Pieces, Says
  <2> QED
    BY <1>5, <2>1, BitmapFits
<1>6. CASE kind \in {"octet", "hex", "b64", "b32"}
  BY <1>6, TextsFit
<1> QED
  BY <1>1, <1>2, <1>3, <1>4, <1>5, <1>6

-----------------------------------------------------------------------------
(* The writer: what it has left and what it has written.                   *)

(* A field that is packed, and one of a certain record.                    *)
Entry == UNION {{k} \X Says(k) : k \in PackKind \ {"names"}}

Own(rr) == {e \in Entry :
  e[1] = "nsec" => \E i \in 1 .. Len(rr.data) :
                     PackLayout[rr.type][i] = "nsec" /\ rr.data[i] = e[2]}

QuestionLen(m) == Sum([i \in 1 .. Len(m.question) |-> NameLen(m.question[i]) + 4])
RecordLens(m)  == [i \in 1 .. Len(m.records) |-> RRLen(m.records[i])]
LenUpTo(m, k)  == 12 + QuestionLen(m) + Sum(SubSeq(RecordLens(m), 1, k))

FairUpTo(k) == \A i \in 1 .. k : ~Miscounted(src.records[i])

Source ==
  /\ pk \in {"idle", "question", "rr", "field", "packed", "overflow", "panic", "refused"}
  /\ {room, at, rec, begin} \subseteq Nat
  /\ pk = "idle" => rec = 0 /\ written = {}
  /\ pk # "idle" => src \in Messages /\ rec <= Len(src.records)
  /\ pk = "question" => Len(src.question) = 1 /\ rec = 0
  /\ pk = "field" => rec > 0 /\ fields \in Seq(Own(src.records[rec]))

Names(o) == {w \in written : w.kind = "name" /\ w.at = o}

Laid ==
  /\ written \subseteq Item
  /\ \A w \in written : w.end <= at /\ (w.kind = "name" => w.at < w.end)
  /\ \E b \in Nat : \A w \in written : w.num <= b
  /\ pk = "field" => Names(begin) # {} /\ \A w \in Names(begin) : w.end + 10 <= at

Pointable ==
  /\ DOMAIN compression \subseteq Seq(Label)
  /\ \A s \in DOMAIN compression :
       /\ compression[s] \in Nat
       /\ \E n \in written : n.kind = "name" /\ n.at <= compression[s] /\ compression[s] < n.end

(* What has been written takes no more than was counted for it.            *)
Budget ==
  /\ pk # "idle" => room = LenUpTo(src, Len(src.records)) + 1
  /\ pk = "question" => at = 12
  /\ pk = "rr" /\ FairUpTo(rec) => at <= LenUpTo(src, rec)
  /\ pk = "field" /\ FairUpTo(rec) => at + Sum(Costs(fields)) <= LenUpTo(src, rec)

(* Where packing finds no room, too little has been counted. *)
Overrun ==
  pk \in {"overflow", "panic"} => \E i \in 1 .. rec : Miscounted(src.records[i])

WInv == Source /\ Laid /\ Pointable /\ Budget /\ Overrun

-----------------------------------------------------------------------------
(* Names: where they end, and what is written of them.                     *)

LEMMA NameLenTyped ==
  ASSUME NEW labels \in Seq(Label)
  PROVE  NameLen(labels) \in Nat /\ NameLen(labels) >= 2
<1>1. Len(labels) \in Nat /\ (labels # <<>> => Len(labels) > 0)
  OBVIOUS
<1> QED
  BY <1>1 DEF NameLen

LEMMA PointedFacts ==
  ASSUME NEW labels \in Seq(Label), NEW compress \in BOOLEAN
  PROVE  /\ Pointed(labels, compress) \in 1 .. Len(labels) + 1
         /\ Pointed(labels, compress) <= Len(labels) =>
              Suffix(labels, Pointed(labels, compress)) \in DOMAIN compression
<1> DEFINE S == {Len(labels) + 1} \cup
                {i \in 1 .. Len(labels) :
                   compress /\ Suffix(labels, i) \in DOMAIN compression}
<1>1. Len(labels) \in Nat
  OBVIOUS
<1>2. S \subseteq Nat /\ S # {}
  BY <1>1
<1>3. Min(S) \in S
  BY <1>2, MinFacts
<1>4. Pointed(labels, compress) \in S
  BY <1>3 DEF Pointed
<1> QED
  BY <1>1, <1>4

LEMMA NameEndFacts ==
  ASSUME NEW labels \in Seq(Label), NEW o \in Nat, NEW compress \in BOOLEAN
  PROVE  /\ NameEndsAt(labels, o, compress) \in Nat
         /\ o + 2 * (Pointed(labels, compress) - 1) < NameEndsAt(labels, o, compress)
         /\ NameEndsAt(labels, o, compress) <= o + NameLen(labels)
         /\ room \in Nat /\ o + NameLen(labels) <= room + 1 => NameFits(labels, o, compress)
<1> DEFINE p == Pointed(labels, compress)
           n == Len(labels)
           e == NameEndsAt(labels, o, compress)
<1>1. p \in 1 .. n + 1 /\ n \in Nat
  BY PointedFacts
<1>2. e = o + 2 * (p - 1) + IF p <= n THEN 2 ELSE 1
  BY DEF NameEndsAt
<1>3. NameLen(labels) = IF n = 0 THEN 2 ELSE 2 * n + 1
  BY DEF NameLen
<1>4. NameFits(labels, o, compress) <=> IF n = 0 \/ p <= n THEN e <= room ELSE e <= room + 1
  BY DEF NameFits
<1> HIDE DEF p, n, e
<1>5. e \in Nat /\ o + 2 * (p - 1) < e
  BY <1>1, <1>2
<1>6. e <= o + NameLen(labels)
  BY <1>1, <1>2, <1>3
<1>7. ASSUME room \in Nat, o + NameLen(labels) <= room + 1
      PROVE  NameFits(labels, o, compress)
  <2>1. CASE n = 0
    <3>1. p = 1 /\ e = o + 1
      BY <1>1, <1>2, <2>1
    <3> QED
      BY <1>3, <1>4, <1>7, <2>1, <3>1
  <2>2. CASE n # 0 /\ p <= n
    <3>1. e = o + 2 * p /\ 2 * p <= 2 * n
      BY <1>1, <1>2, <2>2
    <3> QED
      BY <1>1, <1>3, <1>4, <1>7, <2>2, <3>1
  <2>3. CASE n # 0 /\ ~(p <= n)
    BY <1>4, <1>5, <1>6, <1>7, <2>3, NameLenTyped
  <2> QED
    BY <2>1, <2>2, <2>3
<1> QED
  BY <1>5, <1>6, <1>7 DEF p, e

LEMMA ItemBuilt ==
  ASSUME NEW a \in Nat, NEW e \in Nat, a <= e, NEW k \in ItemKind, NEW c \in Seq(Nat),
         NEW l \in Seq(Label), NEW n \in Nat, NEW t \in RRType \cup OptionCode \cup {"none"},
         k \in {"label", "string", "txt", "nsec", "opt"} => a < e,
         k = "header" => Len(c) = 4,
         k = "fixed" => t \in RRType,
         k = "opt" => t \in OptionCode
  PROVE  [at |-> a, end |-> e, kind |-> k, counts |-> c, labels |-> l, num |-> n, type |-> t]
           \in Item
  BY DEF Item

(* An item of which no more is known than where it stands, what it is, its *)
(* labels and its number.                                                  *)
Shape(w, a, e, k, l, n) ==
  w = [at |-> a, end |-> e, kind |-> k, counts |-> <<>>, labels |-> l, num |-> n,
       type |-> "none"]

LEMMA PlainIs ==
  ASSUME NEW a, NEW e, NEW k, NEW l, NEW n
  PROVE  /\ Shape(Plain(a, e, k), a, e, k, <<>>, 0)
         /\ Shape([Plain(a, e, k) EXCEPT !.labels = l], a, e, k, l, 0)
         /\ Shape([Plain(a, e, k) EXCEPT !.num = n], a, e, k, <<>>, n)
         /\ Shape([Plain(a, e, k) EXCEPT !.labels = l, !.num = n], a, e, k, l, n)
<1>1. Shape(Plain(a, e, k), a, e, k, <<>>, 0)
  BY DEF Shape, Plain
<1>2. Shape([Plain(a, e, k) EXCEPT !.labels = l], a, e, k, l, 0)
  BY DEF Shape, Plain
<1>3. Shape([Plain(a, e, k) EXCEPT !.num = n], a, e, k, <<>>, n)
  BY DEF Shape, Plain
<1>4. Shape([[Plain(a, e, k) EXCEPT !.labels = l] EXCEPT !.num = n], a, e, k, l, n)
  <2> DEFINE w == [Plain(a, e, k) EXCEPT !.labels = l]
  <2> HIDE DEF w
  <2>1. Shape(w, a, e, k, l, 0) => Shape([w EXCEPT !.num = n], a, e, k, l, n)
    BY DEF Shape
  <2> QED
    BY <1>2, <2>1 DEF w
<1>5. [Plain(a, e, k) EXCEPT !.labels = l, !.num = n]
        = [[Plain(a, e, k) EXCEPT !.labels = l] EXCEPT !.num = n]
  BY Zenon
<1> QED
  BY <1>1, <1>2, <1>3, <1>4, <1>5

LEMMA ShapeBuilt ==
  ASSUME NEW a \in Nat, NEW e \in Nat, a < e,
         NEW k \in {"label", "pointer", "root", "name", "question", "record"},
         NEW l \in Seq(Label), NEW n \in Nat, NEW w, Shape(w, a, e, k, l, n)
  PROVE  /\ w \in Item
         /\ w.at = a /\ w.end = e /\ w.kind = k /\ w.labels = l /\ w.num = n
<1>1. <<>> \in Seq(Nat) /\ k \in ItemKind
  BY DEF ItemKind
<1>2. w \in Item
  BY <1>1 DEF Item, Shape
<1> QED
  BY <1>2 DEF Shape

(* The parts of what is written of a name.                                 *)
LabelItems(labels, o, p) ==
  {[Plain(o + 2 * (i - 1), o + 2 * i, "label") EXCEPT !.labels = <<labels[i]>>] : i \in 1 .. (p - 1)}
LastItem(labels, o, p) ==
  IF p <= Len(labels)
  THEN [Plain(o + 2 * (p - 1), o + 2 * (p - 1) + 2, "pointer")
          EXCEPT !.num = compression[Suffix(labels, p)]]
  ELSE Plain(o + 2 * (p - 1), o + 2 * (p - 1) + 1, "root")
NameItem(labels, o, compress) ==
  [Plain(o, NameEndsAt(labels, o, compress), "name")
     EXCEPT !.labels = labels,
            !.num = IF Pointed(labels, compress) <= Len(labels)
                    THEN 1 + Depth(compression[Suffix(labels, Pointed(labels, compress))]) ELSE 0]

LEMMA NameWrittenParts ==
  ASSUME NEW labels, NEW o, NEW compress
  PROVE  NameWritten(labels, o, compress) =
           LabelItems(labels, o, Pointed(labels, compress))
           \cup {LastItem(labels, o, Pointed(labels, compress))}
           \cup {NameItem(labels, o, compress)}
  BY Zenon DEF NameWritten, LabelItems, LastItem, NameItem

(* How deep a pointer leads.                                               *)
LEMMA DepthFacts ==
  ASSUME Laid, Pointable, NEW s \in DOMAIN compression
  PROVE  /\ Depth(compression[s]) \in Nat
         /\ \A n \in written : n.kind = "name" /\ n.at <= compression[s] /\ compression[s] < n.end
              => n.num <= Depth(compression[s])
<1> DEFINE to == compression[s]
           M == {n \in written : n.kind = "name" /\ n.at <= to /\ to < n.end}
           S == {w.num : w \in M}
<1>1. PICK b \in Nat : \A w \in written : w.num <= b
  BY DEF Laid
<1>2. \A w \in written : w.num \in Nat
  BY DEF Laid, Item
<1>3. S \subseteq Nat /\ S # {} /\ \A n \in S : n <= b
  <2>1. \E n \in M : TRUE
    BY DEF Pointable
  <2> QED
    BY <1>1, <1>2, <2>1
<1>4. Max(S) \in S /\ \A n \in S : n <= Max(S)
  BY <1>3, MaxFacts
<1>5. Depth(to) = Max(S)
  BY DEF Depth
<1> QED
  BY <1>3, <1>4, <1>5

(* What is written of a name are items that stand where the name does.     *)
LEMMA NameWrittenFacts ==
  ASSUME Laid, Pointable, NEW labels \in Seq(Label), NEW o \in Nat, NEW compress \in BOOLEAN
  PROVE  /\ NameWritten(labels, o, compress) \subseteq Item
         /\ \A w \in NameWritten(labels, o, compress) :
              /\ o <= w.at /\ w.end <= NameEndsAt(labels, o, compress)
              /\ w.kind = "name" => w.at = o /\ w.end = NameEndsAt(labels, o, compress)
              /\ w.kind \in {"label", "pointer", "root", "name"}
         /\ \E w \in NameWritten(labels, o, compress) : w.kind = "name"
         /\ \E b \in Nat : \A w \in NameWritten(labels, o, compress) : w.num <= b
<1> DEFINE p == Pointed(labels, compress)
           n == Len(labels)
           e == NameEndsAt(labels, o, compress)
           to == compression[Suffix(labels, p)]
<1>1. p \in 1 .. n + 1 /\ n \in Nat /\ (p <= n => Suffix(labels, p) \in DOMAIN compression)
  BY PointedFacts
<1>2. e = o + 2 * (p - 1) + IF p <= n THEN 2 ELSE 1
  BY DEF NameEndsAt
<1>3. e \in Nat /\ o + 2 * (p - 1) < e
  BY NameEndFacts
<1>4. p <= n => to \in Nat /\ Depth(to) \in Nat
  BY <1>1, DepthFacts DEF Pointable
<1>5. \A i \in 1 .. n : labels[i] \in Label /\ <<labels[i]>> \in Seq(Label)
  BY <1>1
<1> HIDE DEF p, n, e, to
<1>6. \A w \in LabelItems(labels, o, p) :
        w \in Item /\ o <= w.at /\ w.end <= e /\ w.kind = "label" /\ w.num = 0
  <2>1. ASSUME NEW i \in 1 .. (p - 1)
        PROVE  [Plain(o + 2 * (i - 1), o + 2 * i, "label") EXCEPT !.labels = <<labels[i]>>] \in Item
               /\ o <= o + 2 * (i - 1) /\ o + 2 * i <= e
    <3> DEFINE a == o + 2 * (i - 1)
               b == o + 2 * i
               l == <<labels[i]>>
    <3>1. a \in Nat /\ b \in Nat /\ a < b /\ a <= b /\ o <= a /\ b <= e
      BY <1>1, <1>2, <1>3
    <3>2. l \in Seq(Label)
      BY <1>1, <1>5
    <3> HIDE DEF a, b, l
    <3>3. [Plain(a, b, "label") EXCEPT !.labels = l] \in Item
      <4> DEFINE w == [Plain(a, b, "label") EXCEPT !.labels = l]
      <4>1. Shape(w, a, b, "label", l, 0)
        BY PlainIs
      <4> HIDE DEF w
      <4>2. w \in Item
        BY <3>1, <3>2, <4>1, ShapeBuilt
      <4> QED
        BY <4>2 DEF w
    <3> QED
      BY <3>1, <3>3 DEF a, b, l
  <2> QED
    BY <2>1 DEF LabelItems, Plain
<1>7. /\ LastItem(labels, o, p) \in Item /\ o <= LastItem(labels, o, p).at
      /\ LastItem(labels, o, p).end <= e /\ LastItem(labels, o, p).kind \in {"pointer", "root"}
      /\ LastItem(labels, o, p).num = IF p <= n THEN to ELSE 0
  <2> DEFINE a == o + 2 * (p - 1)
  <2>1. a \in Nat /\ o <= a /\ e = a + IF p <= n THEN 2 ELSE 1
    BY <1>1, <1>2
  <2>2. LastItem(labels, o, p) = IF p <= n THEN [Plain(a, a + 2, "pointer") EXCEPT !.num = to]
                                 ELSE Plain(a, a + 1, "root")
    BY DEF LastItem, n, to
  <2> HIDE DEF a
  <2>3. CASE p <= n
    <3> DEFINE b == a + 2
               l == <<>>
               w == [Plain(a, b, "pointer") EXCEPT !.num = to]
    <3>1. a \in Nat /\ b \in Nat /\ a < b /\ l \in Seq(Label) /\ to \in Nat
      BY <1>4, <2>1, <2>3
    <3>2. Shape(w, a, b, "pointer", l, to)
      BY PlainIs
    <3> HIDE DEF b, l, w
    <3>3. w \in Item /\ w.at = a /\ w.end = b /\ w.kind = "pointer" /\ w.num = to
      BY <3>1, <3>2, ShapeBuilt
    <3>4. LastItem(labels, o, p) = w
      BY <2>2, <2>3 DEF b, w
    <3> QED
      BY <2>1, <2>3, <3>3, <3>4 DEF b
  <2>4. CASE ~(p <= n)
    <3> DEFINE b == a + 1
               l == <<>>
               w == Plain(a, b, "root")
    <3>1. a \in Nat /\ b \in Nat /\ a < b /\ l \in Seq(Label) /\ 0 \in Nat
      BY <1>4, <2>1, <2>4
    <3>2. Shape(w, a, b, "root", l, 0)
      BY PlainIs
    <3> HIDE DEF b, l, w
    <3>3. w \in Item /\ w.at = a /\ w.end = b /\ w.kind = "root" /\ w.num = 0
      BY <3>1, <3>2, ShapeBuilt
    <3>4. LastItem(labels, o, p) = w
      BY <2>2, <2>4 DEF b, w
    <3> QED
      BY <2>1, <2>4, <3>3, <3>4 DEF b
  <2> QED
    BY <2>3, <2>4
<1>8. /\ NameItem(labels, o, compress) \in Item
      /\ NameItem(labels, o, compress).at = o /\ NameItem(labels, o, compress).end = e
      /\ NameItem(labels, o, compress).kind = "name"
      /\ NameItem(labels, o, compress).num = IF p <= n THEN 1 + Depth(to) ELSE 0
  <2> DEFINE k == IF p <= n THEN 1 + Depth(to) ELSE 0
  <2>1. k \in Nat
    BY <1>4
  <2>2. o < e
    BY <1>1, <1>2
  <2>3. NameItem(labels, o, compress) = [Plain(o, e, "name") EXCEPT !.labels = labels, !.num = k]
    BY DEF NameItem, e, n, to, p
  <2> HIDE DEF k
  <2>4. /\ NameItem(labels, o, compress) \in Item
        /\ NameItem(labels, o, compress).at = o /\ NameItem(labels, o, compress).end = e
        /\ NameItem(labels, o, compress).kind = "name"
        /\ NameItem(labels, o, compress).num = k
    <3> DEFINE w == NameItem(labels, o, compress)
    <3>1. Shape(w, o, e, "name", labels, k)
      <4>1. Shape([Plain(o, e, "name") EXCEPT !.labels = labels, !.num = k], o, e, "name", labels, k)
        BY PlainIs
      <4> QED
        BY <2>3, <4>1, Zenon
    <3> HIDE DEF w
    <3>2. w \in Item /\ w.at = o /\ w.end = e /\ w.kind = "name" /\ w.num = k
      BY <1>3, <2>1, <2>2, <3>1, ShapeBuilt
    <3> QED
      BY <3>2 DEF w
  <2> QED
    BY <2>4 DEF k
<1>9. NameWritten(labels, o, compress) =
        LabelItems(labels, o, p) \cup {LastItem(labels, o, p)} \cup {NameItem(labels, o, compress)}
  BY NameWrittenParts DEF p
<1>10. \E b \in Nat : \A w \in NameWritten(labels, o, compress) : w.num <= b
  <2> DEFINE b == IF p <= n THEN to + 1 + Depth(to) ELSE 0
  <2>1. b \in Nat /\ 0 <= b /\ (IF p <= n THEN to ELSE 0) <= b
        /\ (IF p <= n THEN 1 + Depth(to) ELSE 0) <= b
    BY <1>4
  <2> HIDE DEF b
  <2> QED
    BY <1>6, <1>7, <1>8, <1>9, <2>1
<1>11. \A w \in NameWritten(labels, o, compress) :
         /\ w \in Item
         /\ o <= w.at /\ w.end <= e
         /\ w.kind = "name" => w.at = o /\ w.end = e
         /\ w.kind \in {"label", "pointer", "root", "name"}
  BY <1>3, <1>6, <1>7, <1>8, <1>9
<1>12. \E w \in NameWritten(labels, o, compress) : w.kind = "name"
  BY <1>8, <1>9
<1> QED
  BY <1>10, <1>11, <1>12 DEF e

(* What a name is remembered for are offsets inside it.                    *)
LEMMA LearntFacts ==
  ASSUME Laid, Pointable, NEW labels \in Seq(Label), NEW o \in Nat, NEW compress \in BOOLEAN
  PROVE  LET new == Learnt(labels, o, compress)
         IN  /\ DOMAIN new \subseteq Seq(Label)
             /\ \A s \in DOMAIN new :
                  \/ s \in DOMAIN compression /\ new[s] = compression[s]
                  \/ new[s] \in Nat /\ o <= new[s] /\ new[s] < NameEndsAt(labels, o, compress)
<1> DEFINE p == Pointed(labels, compress)
           n == Len(labels)
           e == NameEndsAt(labels, o, compress)
           news == {i \in 1 .. (p - 1) : Suffix(labels, i) \notin DOMAIN compression
                                         /\ o + 2 * (i - 1) < MaxOffset}
           names == {Suffix(labels, i) : i \in news}
           new == Learnt(labels, o, compress)
<1>1. p \in 1 .. n + 1 /\ n \in Nat
  BY PointedFacts
<1>2. e \in Nat /\ o + 2 * (p - 1) < e
  BY NameEndFacts
<1>3. new = [s \in DOMAIN compression \cup names |->
               IF s \in names THEN o + 2 * (Len(labels) - Len(s)) ELSE compression[s]]
  BY DEF Learnt
<1>4. ASSUME NEW i \in 1 .. (p - 1)
      PROVE  Suffix(labels, i) \in Seq(Label) /\ Len(Suffix(labels, i)) = n - i + 1
  <2>1. i \in 1 .. n
    BY <1>1
  <2> QED
    BY <2>1 DEF Suffix
<1>5. ASSUME NEW s \in names
      PROVE  s \in Seq(Label) /\ o + 2 * (Len(labels) - Len(s)) \in o .. e - 1
  <2>1. PICK i \in news : s = Suffix(labels, i)
    OBVIOUS
  <2>2. i \in 1 .. (p - 1)
    OBVIOUS
  <2>3. s \in Seq(Label) /\ Len(s) = n - i + 1
    BY <1>4, <2>1, <2>2
  <2>4. Len(labels) - Len(s) = i - 1
    BY <1>1, <2>2, <2>3
  <2> HIDE DEF p, n, e, news, names
  <2> QED
    BY <1>1, <1>2, <2>2, <2>3, <2>4
<1> HIDE DEF p, n, names, new
<1>6. DOMAIN new \subseteq Seq(Label)
  BY <1>3, <1>5 DEF Pointable
<1>7. ASSUME NEW s \in DOMAIN new
      PROVE  \/ s \in DOMAIN compression /\ new[s] = compression[s]
             \/ new[s] \in Nat /\ o <= new[s] /\ new[s] < e
  <2>1. CASE s \in names
    <3>1. new[s] = o + 2 * (Len(labels) - Len(s))
      BY <1>3, <2>1
    <3> QED
      BY <1>2, <1>5, <2>1, <3>1
  <2>2. CASE s \notin names
    BY <1>3, <2>2
  <2> QED
    BY <2>1, <2>2
<1> QED
  BY <1>6, <1>7 DEF new

-----------------------------------------------------------------------------
(* What a message and its records are.                                     *)

LEMMA MessageFacts ==
  ASSUME NEW m \in Messages
  PROVE  /\ m.question \in Seq(Seq(Label)) /\ Len(m.question) <= 1
         /\ m.compress \in BOOLEAN /\ m.tc \in BOOLEAN
         /\ m.records \in Seq(ToSet(m.records))
         /\ \A i \in 1 .. Len(m.records) : m.records[i] \in ToSet(m.records)
<1>1. m.records \in Seq(ToSet(m.records))
  BY PackAssumption
<1>2. \A i \in 1 .. Len(m.records) : m.records[i] \in ToSet(m.records)
  BY <1>1
<1> QED
  BY <1>1, <1>2, PackAssumption

LEMMA RecordFacts ==
  ASSUME NEW m \in Messages, NEW rr \in ToSet(m.records)
  PROVE  /\ rr.owner \in Seq(Label) /\ rr.type \in RRType
         /\ Len(rr.data) \in Nat /\ Len(rr.data) = Len(PackLayout[rr.type])
         /\ \A i \in 1 .. Len(rr.data) :
              /\ PackLayout[rr.type][i] \in PackKind
              /\ rr.data[i] \in Says(PackLayout[rr.type][i])
              /\ LenLayout[rr.type][i] = CountedAs(PackLayout[rr.type][i])
<1>1. /\ rr.owner \in Seq(Label) /\ rr.type \in RRType
      /\ Len(rr.data) = Len(PackLayout[rr.type])
      /\ \A i \in 1 .. Len(rr.data) : rr.data[i] \in Says(PackLayout[rr.type][i])
  BY PackAssumption
<1>2. PackLayout[rr.type] \in Seq(PackKind)
  BY <1>1, PackAssumption
<1> DEFINE s == PackLayout[rr.type]
<1>3. DOMAIN s = 1 .. Len(s) /\ Len(s) \in Nat /\ \A i \in 1 .. Len(s) : s[i] \in PackKind
  BY <1>2
<1>4. LenLayout[rr.type] = [i \in DOMAIN s |-> CountedAs(s[i])]
  BY <1>1, PackAssumption
<1> HIDE DEF s
<1>5. \A i \in 1 .. Len(s) : LenLayout[rr.type][i] = CountedAs(s[i])
  BY <1>3, <1>4
<1> QED
  BY <1>1, <1>3, <1>5 DEF s

LEMMA EntryCost ==
  ASSUME NEW e \in Entry
  PROVE  /\ e[1] \in PackKind \ {"names"} /\ e[2] \in Says(e[1])
         /\ e[1] \in {"name", "cname"} => e[2] \in Seq(Label) /\ FieldCost(e) = NameLen(e[2])
         /\ e[1] \notin {"name", "cname"} =>
              e[1] \in NotNames /\ FieldCost(e) = FieldLen(e[1], e[2])
         /\ FieldCost(e) \in Nat
<1>1. PICK k \in PackKind \ {"names"} : e \in {k} \X Says(k)
  BY DEF Entry
<1> DEFINE v == e[2]
<1>2. e[1] = k /\ v \in Says(k)
  BY <1>1
<1> HIDE DEF v
<1>3. CASE k \in {"name", "cname"}
  <2>1. v \in Seq(Label)
    BY <1>2, <1>3, SizeFacts DEF Says
  <2>2. FieldCost(e) = FieldLen("name", v)
    BY <1>2, <1>3 DEF FieldCost, CountedAs, v
  <2>3. FieldLen("name", v) = NameLen(v)
    BY SizeFacts DEF FieldLen
  <2>4. NameLen(v) \in Nat
    BY <2>1, NameLenTyped
  <2> QED
    BY <1>2, <1>3, <2>1, <2>2, <2>3, <2>4 DEF v
<1>4. CASE k \notin {"name", "cname"}
  <2>1. k \in NotNames
    BY <1>4 DEF NotNames
  <2>2. FieldCost(e) = FieldLen(k, v)
    BY <1>2, <1>4 DEF FieldCost, CountedAs, v
  <2>3. FieldLen(k, v) \in Nat
    BY <1>2, <2>1, SaysPuts, DataFits DEF FieldFits
  <2> QED
    BY <1>2, <1>4, <2>1, <2>2, <2>3 DEF v
<1> QED
  BY <1>3, <1>4

(* A record is counted as its owner, ten octets and its fields.            *)
LEMMA FieldsFacts ==
  ASSUME NEW m \in Messages, NEW rr \in ToSet(m.records)
  PROVE  /\ Fields(rr) \in Seq(Own(rr))
         /\ RRLen(rr) = NameLen(rr.owner) + 10 + Sum(Costs(Fields(rr)))
         /\ RRLen(rr) \in Nat
<1> DEFINE X == Own(rr)
           n == Len(rr.data)
           kind(i) == PackLayout[rr.type][i]
           group(i) == IF kind(i) = "names"
                       THEN [j \in 1 .. Len(rr.data[i]) |-> <<"name", rr.data[i][j]>>]
                       ELSE << <<kind(i), rr.data[i]>> >>
           ss == [i \in 1 .. n |-> group(i)]
           r == [i \in 1 .. n |-> FieldLen(LenLayout[rr.type][i], rr.data[i])]
<1>1. /\ n \in Nat /\ rr.owner \in Seq(Label)
      /\ \A i \in 1 .. n : /\ kind(i) \in PackKind /\ rr.data[i] \in Says(kind(i))
                           /\ LenLayout[rr.type][i] = CountedAs(kind(i))
  BY RecordFacts
<1>2. \A e \in X : FieldCost(e) \in Nat
  BY EntryCost DEF Own
<1>3. ASSUME NEW i \in 1 .. n
      PROVE  group(i) \in Seq(X) /\ Sum(Costs(group(i))) = r[i] /\ r[i] \in Nat
  <2> DEFINE v == rr.data[i]
  <2>1. r[i] = FieldLen(CountedAs(kind(i)), v)
    BY <1>1
  <2>2. CASE kind(i) = "names"
    <3>1. v \in Seq(Seq(Label))
      BY <1>1, <2>2, SizeFacts DEF Says
    <3>2. group(i) = [j \in 1 .. Len(v) |-> <<"name", v[j]>>]
      BY <2>2
    <3> DEFINE lens == [j \in 1 .. Len(v) |-> NameLen(v[j])]
    <3>3. r[i] = Sum(lens)
      BY <2>1, <2>2, SizeFacts DEF FieldLen, CountedAs
    <3> HIDE DEF v, group, r, kind, X
    <3>4. \A j \in 1 .. Len(v) : v[j] \in Seq(Label) /\ <<"name", v[j]>> \in X
      <4> TAKE j \in 1 .. Len(v)
      <4>1. v[j] \in Seq(Label)
        BY <3>1
      <4>2. "name" \in PackKind \ {"names"} /\ Says("name") = Seq(Label) /\ "name" # "nsec"
        BY SizeFacts DEF PackKind, Says
      <4>3. <<"name", v[j]>> \in Entry
        BY <4>1, <4>2 DEF Entry
      <4>4. <<"name", v[j]>>[1] = "name"
        OBVIOUS
      <4> QED
        BY <4>1, <4>2, <4>3, <4>4 DEF X, Own
    <3>5. Len(v) \in Nat
      BY <3>1
    <3>6. group(i) \in Seq(X) /\ Len(group(i)) = Len(v)
      BY <3>2, <3>4, <3>5
    <3>7. Costs(group(i)) = lens
      <4>1. Costs(group(i)) = [j \in 1 .. Len(v) |-> FieldCost(group(i)[j])]
        BY <3>6 DEF Costs
      <4>2. \A j \in 1 .. Len(v) : FieldCost(group(i)[j]) = NameLen(v[j])
        <5> TAKE j \in 1 .. Len(v)
        <5>1. group(i)[j] = <<"name", v[j]>>
          BY <3>2
        <5>2. FieldCost(<<"name", v[j]>>) = FieldLen("name", v[j])
          BY DEF FieldCost, CountedAs
        <5>3. FieldLen("name", v[j]) = NameLen(v[j])
          BY SizeFacts DEF FieldLen
        <5> QED
          BY <5>1, <5>2, <5>3
      <4> QED
        BY <4>1, <4>2
    <3>8. lens \in Seq(Nat)
      <4>1. \A j \in 1 .. Len(v) : NameLen(v[j]) \in Nat
        BY <3>4, NameLenTyped
      <4> QED
        BY <3>5, <4>1
    <3>9. Sum(lens) \in Nat
      BY <3>8, SumTyped
    <3> QED
      BY <3>3, <3>6, <3>7, <3>9
  <2>3. CASE kind(i) # "names"
    <3> DEFINE e == <<kind(i), v>>
    <3>1. group(i) = <<e>>
      BY <2>3
    <3>2. r[i] = FieldCost(e)
      BY <2>1 DEF FieldCost
    <3>3. e \in X
      <4>1. e[1] = kind(i) /\ e[2] = v
        OBVIOUS
      <4>2. e \in Entry
        BY <1>1, <2>3 DEF Entry
      <4> QED
        BY <4>1, <4>2 DEF Own
    <3> HIDE DEF e, group, r, kind, X
    <3>4. group(i) \in Seq(X) /\ Len(group(i)) = 1 /\ group(i)[1] = e
      BY <3>1, <3>3
    <3>5. Costs(group(i)) \in Seq(Nat) /\ Len(Costs(group(i))) = 1 /\ Costs(group(i))[1] = FieldCost(e)
      BY <1>2, <3>4, CostsFacts
    <3>6. Sum(Costs(group(i))) = FieldCost(e)
      BY <1>2, <3>3, <3>5, SumOne
    <3> QED
      BY <1>2, <3>2, <3>3, <3>4, <3>6
  <2> QED
    BY <2>2, <2>3
<1>4. Fields(rr) = FlattenSeq(ss) /\ RRLen(rr) = NameLen(rr.owner) + 10 + Sum(r)
  BY Zenon DEF Fields, RRLen
<1> HIDE DEF X, group
<1>5. ss \in Seq(Seq(X)) /\ Len(ss) = n /\ r \in Seq(Nat) /\ Len(r) = n
  <2>1. n \in Nat
    BY <1>1
  <2> DEFINE cost(i) == FieldLen(LenLayout[rr.type][i], rr.data[i])
  <2>2. \A i \in 1 .. n : group(i) \in Seq(X) /\ cost(i) \in Nat
    BY <1>3
  <2> HIDE DEF n, cost
  <2>3. ss \in Seq(Seq(X)) /\ Len(ss) = n
    BY <2>1, <2>2
  <2>4. r = [i \in 1 .. n |-> cost(i)]
    BY DEF cost
  <2> HIDE DEF r
  <2>5. r \in Seq(Nat) /\ Len(r) = n
    BY <2>1, <2>2, <2>4
  <2> QED
    BY <2>3, <2>5
<1>6. \A i \in 1 .. n : Sum(Costs(ss[i])) = r[i]
  <2> TAKE i \in 1 .. n
  <2>1. ss[i] = group(i)
    OBVIOUS
  <2> QED
    BY <1>3, <2>1
<1> HIDE DEF ss, r, n
<1>7. FlattenSeq(ss) \in Seq(X) /\ Sum(Costs(FlattenSeq(ss))) = Sum(r)
  BY <1>1, <1>2, <1>5, <1>6, FlattenFacts
<1>8. Sum(r) \in Nat /\ NameLen(rr.owner) \in Nat
  BY <1>1, <1>5, SumTyped, NameLenTyped
<1> QED
  BY <1>4, <1>7, <1>8 DEF X

(* What is counted for a message, record by record.                        *)
LEMMA LensFacts ==
  ASSUME NEW m \in Messages
  PROVE  /\ QuestionLen(m) \in Nat
         /\ Len(m.question) = 1 =>
              /\ m.question[1] \in Seq(Label)
              /\ QuestionLen(m) = NameLen(m.question[1]) + 4
         /\ LenUpTo(m, 0) = 12 + QuestionLen(m)
         /\ Len(m.records) \in Nat
         /\ MsgLen(m) = LenUpTo(m, Len(m.records))
         /\ \A k \in 0 .. Len(m.records) :
              /\ LenUpTo(m, k) \in Nat
              /\ LenUpTo(m, k) <= LenUpTo(m, Len(m.records))
         /\ \A k \in 0 .. Len(m.records) - 1 :
              LenUpTo(m, k + 1) = LenUpTo(m, k) + RRLen(m.records[k + 1])
<1> DEFINE n == Len(m.records)
           r == RecordLens(m)
           u == [i \in 1 .. Len(m.question) |-> NameLen(m.question[i]) + 4]
           Q == QuestionLen(m)
<1>1. /\ m.question \in Seq(Seq(Label)) /\ n \in Nat
      /\ Len(m.question) \in Nat /\ \A i \in 1 .. Len(m.question) : m.question[i] \in Seq(Label)
  BY MessageFacts
<1>2. r \in Seq(Nat) /\ Len(r) = n /\ \A i \in 1 .. n : r[i] = RRLen(m.records[i]) /\ r[i] \in Nat
  <2>1. \A i \in 1 .. n : RRLen(m.records[i]) \in Nat
    BY MessageFacts, FieldsFacts
  <2>2. r = [i \in 1 .. n |-> RRLen(m.records[i])]
    BY DEF RecordLens
  <2> HIDE DEF n, r
  <2> QED
    BY <1>1, <2>1, <2>2
<1>3. u \in Seq(Nat) /\ Len(u) = Len(m.question)
      /\ \A i \in 1 .. Len(m.question) : u[i] = NameLen(m.question[i]) + 4 /\ u[i] \in Nat
  <2>1. \A i \in 1 .. Len(m.question) : NameLen(m.question[i]) + 4 \in Nat
    <3> TAKE i \in 1 .. Len(m.question)
    <3>1. NameLen(m.question[i]) \in Nat
      BY <1>1, NameLenTyped
    <3> QED
      BY <3>1
  <2> QED
    BY <1>1, <2>1
<1>4. Q = Sum(u) /\ MsgLen(m) = 12 + Q + Sum(r)
  BY Zenon DEF QuestionLen, MsgLen, RecordLens
<1>5. \A k : LenUpTo(m, k) = 12 + Q + Sum(SubSeq(r, 1, k))
  BY Zenon DEF LenUpTo
<1> HIDE DEF r, u, n, Q
<1>6. Q \in Nat
  BY <1>3, <1>4, SumTyped
<1>7. Len(m.question) = 1 => m.question[1] \in Seq(Label) /\ Q = NameLen(m.question[1]) + 4
  <2>1. ASSUME Len(m.question) = 1
        PROVE  u[1] \in Nat /\ u[1] = NameLen(m.question[1]) + 4 /\ m.question[1] \in Seq(Label)
               /\ Len(u) = 1
    BY <1>1, <1>3, <2>1
  <2> QED
    BY <1>3, <1>4, <2>1, SumOne
<1>8. Sum(SubSeq(r, 1, n)) = Sum(r)
  BY <1>2, SumWhole
<1>9. \A k \in 0 .. n : Sum(SubSeq(r, 1, k)) \in Nat /\ Sum(SubSeq(r, 1, k)) <= Sum(r)
  BY <1>2, SumUpTo
<1>10. Sum(SubSeq(r, 1, 0)) = 0
  <2>1. 0 \in 0 .. Len(r)
    BY <1>1, <1>2
  <2> QED
    BY <1>2, <2>1, SumUpTo
<1>11. \A k \in 0 .. n - 1 :
         Sum(SubSeq(r, 1, k + 1)) = Sum(SubSeq(r, 1, k)) + RRLen(m.records[k + 1])
  <2> TAKE k \in 0 .. n - 1
  <2>1. k + 1 \in 0 .. Len(r) /\ k + 1 > 0 /\ k + 1 - 1 = k /\ k + 1 \in 1 .. n
    BY <1>1, <1>2
  <2>2. Sum(SubSeq(r, 1, k + 1)) = Sum(SubSeq(r, 1, k + 1 - 1)) + r[k + 1]
    <3> DEFINE j == k + 1
    <3>1. j \in 0 .. Len(r) /\ j > 0
      BY <2>1
    <3> HIDE DEF j
    <3>2. Sum(SubSeq(r, 1, j)) = Sum(SubSeq(r, 1, j - 1)) + r[j]
      BY <1>2, <3>1, SumUpTo
    <3> QED
      BY <3>2 DEF j
  <2> QED
    BY <1>2, <2>1, <2>2
<1>12. LenUpTo(m, 0) = 12 + Q /\ MsgLen(m) = LenUpTo(m, n)
  BY <1>4, <1>5, <1>6, <1>8, <1>10
<1>13. \A k \in 0 .. n : LenUpTo(m, k) \in Nat /\ LenUpTo(m, k) <= LenUpTo(m, n)
  <2> TAKE k \in 0 .. n
  <2> DEFINE a == Sum(SubSeq(r, 1, k))
             b == Sum(r)
  <2>1. a \in Nat /\ a <= b /\ b \in Nat
    BY <1>2, <1>9, SumTyped
  <2>2. LenUpTo(m, k) = 12 + Q + a /\ LenUpTo(m, n) = 12 + Q + b
    BY <1>5, <1>8
  <2> HIDE DEF a, b
  <2> QED
    BY <1>6, <2>1, <2>2
<1>14. \A k \in 0 .. n - 1 : LenUpTo(m, k + 1) = LenUpTo(m, k) + RRLen(m.records[k + 1])
  <2> TAKE k \in 0 .. n - 1
  <2> DEFINE a == Sum(SubSeq(r, 1, k))
             b == RRLen(m.records[k + 1])
  <2>1. k \in 0 .. n /\ k + 1 \in 1 .. n
    BY <1>1
  <2>2. a \in Nat /\ b \in Nat
    BY <1>2, <1>9, <2>1
  <2>3. LenUpTo(m, k) = 12 + Q + a /\ LenUpTo(m, k + 1) = 12 + Q + (a + b)
    BY <1>5, <1>11
  <2> HIDE DEF a, b
  <2> QED
    <3>1. LenUpTo(m, k + 1) = LenUpTo(m, k) + b
      BY <1>6, <2>2, <2>3
    <3> QED
      BY <3>1 DEF b
<1> QED
  BY <1>1, <1>6, <1>7, <1>12, <1>13, <1>14 DEF n, Q

-----------------------------------------------------------------------------
(* Every step of the writer keeps the invariant.                           *)

LEMMA WriterStarts == PackInit => WInv
<1> SUFFICES ASSUME PackInit
             PROVE  WInv
  OBVIOUS
<1>1. pk = "idle" /\ room = 0 /\ at = 0 /\ rec = 0 /\ begin = 0 /\ written = {}
      /\ DOMAIN compression = {}
  BY DEF PackInit
<1> QED
  BY <1>1 DEF WInv, Source, Laid, Pointable, Budget, Overrun

(* A name, and perhaps an item behind it, written where the message ends.  *)
LEMMA NameIsLaid ==
  ASSUME WInv, NEW labels \in Seq(Label), NEW compress \in BOOLEAN, NEW extra, extra \subseteq Item,
         at' \in Nat, NameEndsAt(labels, at, compress) <= at',
         \A w \in extra : w.end <= at' /\ w.kind # "name" /\ w.num = 0,
         written' = written \cup NameWritten(labels, at, compress) \cup extra,
         compression' = Learnt(labels, at, compress)
  PROVE  /\ Pointable'
         /\ written' \subseteq Item
         /\ \A w \in written' : w.end <= at' /\ (w.kind = "name" => w.at < w.end)
         /\ \E b \in Nat : \A w \in written' : w.num <= b
         /\ \A w \in written' \ written : w.kind = "name" =>
              w.at = at /\ w.end = NameEndsAt(labels, at, compress)
         /\ \E w \in written' : w.kind = "name" /\ w.at = at
<1> DEFINE e == NameEndsAt(labels, at, compress)
           ws == NameWritten(labels, at, compress)
<1>1. at \in Nat /\ Laid /\ Pointable
  BY DEF WInv, Source
<1>2. /\ ws \subseteq Item
      /\ \A w \in ws : /\ at <= w.at /\ w.end <= e
                       /\ w.kind = "name" => w.at = at /\ w.end = e
      /\ \E w \in ws : w.kind = "name"
      /\ \E b \in Nat : \A w \in ws : w.num <= b
  BY <1>1, NameWrittenFacts
<1>3. e \in Nat /\ at < e
  <2>1. e \in Nat /\ at + 2 * (Pointed(labels, compress) - 1) < e
    BY <1>1, NameEndFacts
  <2>2. Pointed(labels, compress) \in 1 .. Len(labels) + 1 /\ Len(labels) \in Nat
    BY PointedFacts
  <2> HIDE DEF e
  <2> QED
    BY <1>1, <2>1, <2>2
<1>4. LET new == Learnt(labels, at, compress)
      IN  /\ DOMAIN new \subseteq Seq(Label)
          /\ \A s \in DOMAIN new :
               \/ s \in DOMAIN compression /\ new[s] = compression[s]
               \/ new[s] \in Nat /\ at <= new[s] /\ new[s] < e
  BY <1>1, LearntFacts
<1>5. /\ DOMAIN compression' \subseteq Seq(Label)
      /\ \A s \in DOMAIN compression' :
           \/ s \in DOMAIN compression /\ compression'[s] = compression[s]
           \/ compression'[s] \in Nat /\ at <= compression'[s] /\ compression'[s] < e
  BY <1>4
<1> HIDE DEF e, ws
<1>6. written' = written \cup ws \cup extra /\ e <= at'
  BY DEF ws, e
<1>7. \A w \in Item : w.at \in Nat /\ w.end \in Nat /\ w.num \in Nat
  BY DEF Item
<1>8. written' \subseteq Item
  BY <1>1, <1>2, <1>6 DEF Laid
<1>9. \A w \in written' : w.end <= at' /\ (w.kind = "name" => w.at < w.end)
  <2> TAKE w \in written'
  <2>1. w.end \in Nat /\ w.at \in Nat
    BY <1>7, <1>8
  <2>2. CASE w \in written
    BY <1>1, <1>3, <1>6, <2>1, <2>2 DEF Laid
  <2>3. CASE w \in ws
    BY <1>2, <1>3, <1>6, <2>1, <2>3
  <2>4. CASE w \in extra
    BY <2>4
  <2> QED
    BY <1>6, <2>2, <2>3, <2>4
<1>10. \E b \in Nat : \A w \in written' : w.num <= b
  <2>1. PICK b \in Nat : \A w \in written : w.num <= b
    BY <1>1 DEF Laid
  <2>2. PICK c \in Nat : \A w \in ws : w.num <= c
    BY <1>2
  <2> DEFINE d == b + c
  <2>3. ASSUME NEW w \in written'
        PROVE  w.num <= d
    <3>1. w.num \in Nat
      BY <1>7, <1>8
    <3> QED
      BY <1>6, <2>1, <2>2, <3>1
  <2>4. d \in Nat
    OBVIOUS
  <2> QED
    BY <2>3, <2>4
<1>11. \A w \in written' \ written : w.kind = "name" => w.at = at /\ w.end = e
  BY <1>2, <1>6
<1>12. \E w \in ws : w.kind = "name" /\ w.at = at /\ w.end = e
  BY <1>2
<1>13. Pointable'
  <2>1. ASSUME NEW s \in DOMAIN compression'
        PROVE  /\ compression'[s] \in Nat
               /\ \E n \in written' : n.kind = "name" /\ n.at <= compression'[s]
                                      /\ compression'[s] < n.end
    <3>1. CASE s \in DOMAIN compression /\ compression'[s] = compression[s]
      <4>1. compression[s] \in Nat
            /\ \E n \in written : n.kind = "name" /\ n.at <= compression[s]
                                  /\ compression[s] < n.end
        BY <1>1, <3>1 DEF Pointable
      <4> QED
        BY <1>6, <3>1, <4>1
    <3>2. CASE compression'[s] \in Nat /\ at <= compression'[s] /\ compression'[s] < e
      BY <1>6, <1>12, <3>2
    <3> QED
      BY <1>5, <3>1, <3>2
  <2> QED
    BY <1>5, <2>1 DEF Pointable
<1> QED
  BY <1>6, <1>8, <1>9, <1>10, <1>11, <1>12, <1>13 DEF e

LEMMA ShortSequence ==
  ASSUME NEW S, NEW q \in Seq(S), Len(q) <= 1
  PROVE  Len(q) \in {0, 1} /\ (q # <<>> => Len(q) = 1)
<1> DEFINE n == Len(q)
<1>1. n \in Nat /\ n <= 1 /\ (q # <<>> => n # 0)
  BY EmptySeq
<1> HIDE DEF n
<1>2. n = 0 \/ n = 1
  BY <1>1
<1> QED
  BY <1>1, <1>2 DEF n

(* The counts that a header gives.                                         *)
LEMMA CountsAre ==
  ASSUME NEW m \in Messages
  PROVE  /\ SectionCounts(m) \in Seq(Nat) /\ Len(SectionCounts(m)) = 4
         /\ SectionCounts(m)[1] \in {0, 1} /\ (SectionCounts(m)[1] = 0 <=> m.question = <<>>)
<1> DEFINE card(s) == Cardinality({i \in 1 .. Len(m.records) : m.records[i].section = s + 1})
           t == [s \in 1 .. 3 |-> card(s)]
           q == <<Len(m.question)>>
           c == SectionCounts(m)
           l == Len(m.question)
<1>1. m.question \in Seq(Seq(Label)) /\ Len(m.question) <= 1
  BY MessageFacts
<1>2. l \in {0, 1} /\ (m.question # <<>> => l = 1) /\ (m.question = <<>> => l = 0)
  <2>1. Len(m.question) \in {0, 1} /\ (m.question # <<>> => Len(m.question) = 1)
    BY <1>1, ShortSequence
  <2> QED
    BY <1>1, <2>1, EmptySeq
<1>3. Len(m.records) \in Nat
  BY LensFacts
<1>4. \A s \in 1 .. 3 : card(s) \in Nat
  <2> TAKE s \in 1 .. 3
  <2> DEFINE S == {i \in 1 .. Len(m.records) : m.records[i].section = s + 1}
  <2>1. S \subseteq 1 .. Len(m.records)
    OBVIOUS
  <2> HIDE DEF S
  <2>2. Cardinality(S) \in Nat
    BY <1>3, <2>1, CountTyped
  <2> QED
    BY <2>2 DEF S
<1> HIDE DEF l
<1>5. q \in Seq(Nat) /\ Len(q) = 1 /\ q[1] = l
  <2>1. q = <<l>> /\ l \in Nat
    BY <1>2 DEF l
  <2> HIDE DEF q
  <2> QED
    BY <2>1
<1>6. c = q \o t
  BY DEF SectionCounts
<1> HIDE DEF card, q, c
<1>7. t \in Seq(Nat) /\ Len(t) = 3
  BY <1>4
<1> HIDE DEF t
<1>8. /\ q \o t \in Seq(Nat) /\ Len(q \o t) = Len(q) + Len(t)
      /\ \A i \in 1 .. Len(q) + Len(t) :
           (q \o t)[i] = IF i <= Len(q) THEN q[i] ELSE t[i - Len(q)]
  BY <1>5, <1>7, ConcatProperties, Zenon
<1>9. c \in Seq(Nat) /\ Len(c) = 4 /\ c[1] = l
  <2>1. Len(c) = 4 /\ 1 \in 1 .. Len(q) + Len(t) /\ 1 <= Len(q)
    BY <1>5, <1>6, <1>7, <1>8
  <2> QED
    BY <1>5, <1>6, <1>8, <2>1
<1> QED
  BY <1>2, <1>9 DEF c

LEMMA PackHeaderKeeps ==
  ASSUME WInv, PackHeader
  PROVE  WInv'
<1>1. PICK m \in Messages :
        /\ src' = m /\ room' = MsgLen(m) + 1
        /\ at' = 12 /\ pk' = IF m.question = <<>> THEN "rr" ELSE "question"
        /\ written' = {[Plain(0, 12, "header") EXCEPT !.counts = SectionCounts(m)]}
  BY DEF PackHeader
<1>2. pk = "idle" /\ rec = 0 /\ written = {} /\ UNCHANGED <<rec, begin, fields, compression>>
      /\ begin \in Nat
  BY DEF PackHeader, WInv, Source
<1>3. /\ Len(m.question) \in {0, 1} /\ (m.question # <<>> => Len(m.question) = 1)
      /\ Len(m.records) \in Nat
  <2>1. m.question \in Seq(Seq(Label)) /\ Len(m.question) <= 1
    BY MessageFacts
  <2>2. Len(m.question) \in {0, 1} /\ (m.question # <<>> => Len(m.question) = 1)
    BY <2>1, ShortSequence
  <2>3. Len(m.records) \in Nat
    BY LensFacts
  <2> QED
    BY <2>2, <2>3
<1> DEFINE c == SectionCounts(m)
           w == [Plain(0, 12, "header") EXCEPT !.counts = c]
<1>4. c \in Seq(Nat) /\ Len(c) = 4
  BY CountsAre
<1> HIDE DEF c
<1>5. w \in Item /\ w.end = 12 /\ w.kind = "header" /\ w.num = 0
  <2>1. w = [at |-> 0, end |-> 12, kind |-> "header", counts |-> c, labels |-> <<>>,
             num |-> 0, type |-> "none"]
    BY DEF Plain
  <2>2. <<>> \in Seq(Label) /\ "header" \in ItemKind
    BY DEF ItemKind
  <2> HIDE DEF w
  <2>3. w \in Item
    BY <1>4, <2>1, <2>2 DEF Item
  <2> QED
    BY <2>1, <2>3
<1>6. written' = {w}
  BY <1>1 DEF c
<1> HIDE DEF w
<1>7. DOMAIN compression = {}
  BY <1>2 DEF WInv, Pointable
<1>8. Laid'
  <2>1. 0 \in Nat /\ pk' # "field" /\ at' = 12
    BY <1>1
  <2> QED
    BY <1>5, <1>6, <2>1 DEF Laid
<1>9. Pointable'
  BY <1>2, <1>7 DEF Pointable
<1>10. room' = LenUpTo(m, Len(m.records)) + 1 /\ room' \in Nat /\ 12 <= LenUpTo(m, 0)
  <2>1. 0 \in 0 .. Len(m.records) /\ Len(m.records) \in 0 .. Len(m.records)
    BY <1>3
  <2>2. /\ QuestionLen(m) \in Nat /\ LenUpTo(m, 0) = 12 + QuestionLen(m)
        /\ MsgLen(m) = LenUpTo(m, Len(m.records)) /\ LenUpTo(m, Len(m.records)) \in Nat
    BY <2>1, LensFacts
  <2> QED
    BY <1>1, <2>2
<1>11. Source'
  BY <1>1, <1>2, <1>3, <1>10 DEF Source
<1>12. Budget' /\ Overrun'
  BY <1>1, <1>2, <1>10 DEF Budget, Overrun
<1> QED
  BY <1>8, <1>9, <1>11, <1>12 DEF WInv

LEMMA PackQuestionKeeps ==
  ASSUME WInv, PackQuestion
  PROVE  WInv'
<1> DEFINE labels == src.question[1]
           e == NameEndsAt(labels, at, src.compress)
           n == NameLen(labels)
           q == Plain(e, e + 4, "question")
<1>1. /\ pk = "question" /\ src \in Messages /\ rec = 0 /\ at = 12 /\ at \in Nat /\ room \in Nat
      /\ Len(src.question) = 1 /\ room = LenUpTo(src, Len(src.records)) + 1
      /\ begin \in Nat
  BY DEF PackQuestion, WInv, Source, Budget
<1>2. labels \in Seq(Label) /\ src.compress \in BOOLEAN
  BY <1>1, LensFacts, MessageFacts
<1>3. /\ LenUpTo(src, 0) = 12 + (n + 4) /\ LenUpTo(src, 0) <= LenUpTo(src, Len(src.records))
      /\ LenUpTo(src, Len(src.records)) \in Nat /\ n \in Nat /\ Len(src.records) \in Nat
  <2>1. Len(src.records) \in Nat
    BY <1>1, LensFacts
  <2>2. 0 \in 0 .. Len(src.records) /\ Len(src.records) \in 0 .. Len(src.records)
    BY <2>1
  <2>3. LenUpTo(src, 0) = 12 + QuestionLen(src) /\ QuestionLen(src) = n + 4
    BY <1>1, LensFacts
  <2>4. n \in Nat
    BY <1>2, NameLenTyped
  <2> QED
    BY <1>1, <2>1, <2>2, <2>3, <2>4, LensFacts
<1>4. /\ e \in Nat /\ e <= at + n
      /\ room \in Nat /\ at + n <= room + 1 => NameFits(labels, at, src.compress)
  BY <1>1, <1>2, NameEndFacts
<1>5. NameFits(labels, at, src.compress) /\ e + 4 <= room
  <2> HIDE DEF labels, e, n
  <2>1. at + n <= room + 1 /\ e + 4 <= room
    BY <1>1, <1>3, <1>4
  <2> QED
    BY <1>1, <1>4, <2>1
<1>6. /\ at' = e + 4 /\ pk' = "rr"
      /\ written' = written \cup NameWritten(labels, at, src.compress) \cup {q}
      /\ compression' = Learnt(labels, at, src.compress)
      /\ UNCHANGED <<src, room, rec, begin, fields>>
  BY <1>5 DEF PackQuestion
<1>7. q \in Item /\ q.end = e + 4 /\ q.kind = "question" /\ q.num = 0
  <2> DEFINE b == e + 4
             l == <<>>
  <2>1. b \in Nat /\ e < b /\ l \in Seq(Label) /\ 0 \in Nat /\ e \in Nat
    BY <1>4
  <2>2. Shape(q, e, b, "question", l, 0)
    BY PlainIs
  <2> HIDE DEF q, b, l, e
  <2> QED
    BY <2>1, <2>2, ShapeBuilt DEF b
<1> HIDE DEF q
<1>8. at' \in Nat /\ e <= at' /\ \A w \in {q} : w.end <= at' /\ w.kind # "name" /\ w.num = 0
  BY <1>4, <1>6, <1>7
<1>9. /\ Pointable'
      /\ written' \subseteq Item
      /\ \A w \in written' : w.end <= at' /\ (w.kind = "name" => w.at < w.end)
      /\ \E b \in Nat : \A w \in written' : w.num <= b
  <2> DEFINE extra == {q}
  <2>1. extra \subseteq Item
    BY <1>7
  <2>2. /\ at' \in Nat /\ e <= at' /\ \A w \in extra : w.end <= at' /\ w.kind # "name" /\ w.num = 0
        /\ written' = written \cup NameWritten(labels, at, src.compress) \cup extra
    BY <1>6, <1>8
  <2> HIDE DEF extra, labels
  <2> QED
    BY <1>2, <1>6, <2>1, <2>2, NameIsLaid
<1>10. Laid'
  BY <1>6, <1>9 DEF Laid
<1>11. Source'
  BY <1>1, <1>3, <1>6, <1>8 DEF Source
<1>12. Budget'
  <2>1. at' <= LenUpTo(src, 0)
    BY <1>1, <1>3, <1>4, <1>6
  <2> QED
    BY <1>1, <1>6, <2>1 DEF Budget
<1>13. Overrun'
  BY <1>6 DEF Overrun
<1> QED
  BY <1>9, <1>10, <1>11, <1>12, <1>13 DEF WInv

LEMMA PackOwnerKeeps ==
  ASSUME WInv, PackOwner
  PROVE  WInv'
<1> DEFINE rr == src.records[rec + 1]
           e == NameEndsAt(rr.owner, at, src.compress)
           n == NameLen(rr.owner)
           c == Sum(Costs(Fields(rr)))
<1>1. /\ pk = "rr" /\ src \in Messages /\ rec \in Nat /\ at \in Nat /\ room \in Nat
      /\ rec < Len(src.records) /\ room = LenUpTo(src, Len(src.records)) + 1
      /\ FairUpTo(rec) => at <= LenUpTo(src, rec)
      /\ begin \in Nat /\ Laid
  BY DEF PackOwner, WInv, Source, Budget
<1>2. Len(src.records) \in Nat /\ rec + 1 \in 1 .. Len(src.records)
  <2>1. Len(src.records) \in Nat
    BY <1>1, LensFacts
  <2> QED
    BY <1>1, <2>1
<1>3. rr \in ToSet(src.records) /\ src.compress \in BOOLEAN
  BY <1>1, <1>2, MessageFacts
<1>4. rr.owner \in Seq(Label) /\ n \in Nat
  BY <1>1, <1>3, RecordFacts, NameLenTyped
<1>5. Fields(rr) \in Seq(Own(rr)) /\ RRLen(rr) = n + 10 + c /\ c \in Nat
  <2>1. Fields(rr) \in Seq(Own(rr)) /\ RRLen(rr) = n + 10 + c
    BY <1>1, <1>3, FieldsFacts
  <2>2. \A x \in Own(rr) : FieldCost(x) \in Nat
    BY EntryCost DEF Own
  <2>3. Costs(Fields(rr)) \in Seq(Nat)
    BY <2>1, <2>2, CostsFacts
  <2> QED
    BY <2>1, <2>3, SumTyped
<1>6. /\ LenUpTo(src, rec + 1) = LenUpTo(src, rec) + (n + 10 + c)
      /\ LenUpTo(src, rec + 1) <= LenUpTo(src, Len(src.records))
      /\ LenUpTo(src, rec) \in Nat /\ LenUpTo(src, rec + 1) \in Nat
      /\ LenUpTo(src, Len(src.records)) \in Nat
  <2>1. /\ rec \in 0 .. Len(src.records) - 1 /\ rec \in 0 .. Len(src.records)
        /\ rec + 1 \in 0 .. Len(src.records) /\ Len(src.records) \in 0 .. Len(src.records)
    BY <1>1, <1>2
  <2> QED
    BY <1>1, <1>5, <2>1, LensFacts
<1>7. /\ e \in Nat /\ e <= at + n /\ at + 2 * (Pointed(rr.owner, src.compress) - 1) < e
      /\ room \in Nat /\ at + n <= room + 1 => NameFits(rr.owner, at, src.compress)
  BY <1>1, <1>3, <1>4, NameEndFacts
<1>8. FairUpTo(rec) => NameFits(rr.owner, at, src.compress) /\ e + 10 <= room
  <2>1. ASSUME FairUpTo(rec)
        PROVE  at + n <= room + 1 /\ e + 10 <= room
    <3> DEFINE a == LenUpTo(src, rec)
               b == LenUpTo(src, Len(src.records))
    <3>1. at <= a /\ a + (n + 10 + c) <= b /\ room = b + 1 /\ a \in Nat /\ b \in Nat
      BY <1>1, <1>6, <2>1
    <3> HIDE DEF a, b, e, n, c
    <3> QED
      BY <1>1, <1>4, <1>5, <1>7, <3>1
  <2> QED
    BY <1>1, <1>7, <2>1
<1>9. CASE ~(NameFits(rr.owner, at, src.compress) /\ e + 10 <= room)
  <2>1. Overflow
    BY <1>9 DEF PackOwner
  <2>2. /\ pk' = "overflow" /\ ~FairUpTo(rec)
        /\ UNCHANGED <<src, room, at, rec, begin, fields, compression, written>>
    BY <1>8, <1>9, <2>1 DEF Overflow
  <2> QED
    BY <1>1, <2>2 DEF WInv, Source, Laid, Pointable, Budget, Overrun, FairUpTo, Names
<1>10. CASE NameFits(rr.owner, at, src.compress) /\ e + 10 <= room
  <2>1. /\ at' = e + 10 /\ begin' = at /\ rec' = rec + 1 /\ pk' = "field"
        /\ fields' = Fields(rr)
        /\ written' = written \cup NameWritten(rr.owner, at, src.compress)
        /\ compression' = Learnt(rr.owner, at, src.compress)
        /\ UNCHANGED <<src, room>>
    BY <1>10 DEF PackOwner
  <2>2. at' \in Nat /\ e <= at'
    BY <1>7, <2>1
  <2>3. /\ Pointable'
        /\ written' \subseteq Item
        /\ \A w \in written' : w.end <= at' /\ (w.kind = "name" => w.at < w.end)
        /\ \E b \in Nat : \A w \in written' : w.num <= b
        /\ \A w \in written' \ written : w.kind = "name" => w.at = at /\ w.end = e
        /\ \E w \in written' : w.kind = "name" /\ w.at = at
    <3> DEFINE labels == rr.owner
               extra == {}
    <3>1. /\ extra \subseteq Item /\ \A w \in extra : w.end <= at' /\ w.kind # "name" /\ w.num = 0
          /\ written' = written \cup NameWritten(labels, at, src.compress) \cup extra
      BY <2>1
    <3>2. labels \in Seq(Label) /\ e = NameEndsAt(labels, at, src.compress)
          /\ compression' = Learnt(labels, at, src.compress)
      BY <1>4, <2>1
    <3> HIDE DEF extra, labels, e
    <3> QED
      BY <1>3, <2>2, <3>1, <3>2, NameIsLaid
  <2>4. Laid'
    <3>1. \A w \in written : w.kind = "name" => w.at < at
      <4>1. \A w \in written : w.at \in Nat /\ w.end \in Nat
        BY <1>1 DEF Laid, Item
      <4> QED
        BY <1>1, <4>1 DEF Laid
    <3>2. Names(begin)' # {} /\ \A w \in Names(begin)' : w.end + 10 <= at'
      <4>1. Names(begin)' = {w \in written' : w.kind = "name" /\ w.at = at}
        BY <2>1 DEF Names
      <4>2. \A w \in Names(begin)' : w.end = e
        <5> TAKE w \in Names(begin)'
        <5>1. w \in written' /\ w.kind = "name" /\ w.at = at
          BY <4>1
        <5>2. w \notin written
          BY <1>1, <3>1, <5>1
        <5> QED
          BY <2>3, <5>1, <5>2
      <4>3. Names(begin)' # {}
        BY <2>3, <4>1
      <4> QED
        BY <1>7, <2>1, <4>2, <4>3
    <3> QED
      BY <2>1, <2>3, <3>2 DEF Laid
  <2>5. Source'
    <3>1. rec' \in Nat /\ rec' <= Len(src.records) /\ rec' > 0 /\ src'.records[rec'] = rr
      BY <1>1, <1>2, <2>1
    <3> QED
      BY <1>1, <1>5, <2>1, <2>2, <3>1 DEF Source
  <2>6. Budget'
    <3>1. FairUpTo(rec)' => FairUpTo(rec)
      BY <1>1, <2>1 DEF FairUpTo
    <3>2. FairUpTo(rec)' => at' + c <= LenUpTo(src, rec + 1)
      <4>1. ASSUME FairUpTo(rec)
            PROVE  e + 10 + c <= LenUpTo(src, rec + 1)
        <5> DEFINE a == LenUpTo(src, rec)
        <5>1. at <= a /\ LenUpTo(src, rec + 1) = a + (n + 10 + c) /\ a \in Nat
          BY <1>1, <1>6, <4>1
        <5> HIDE DEF a, e, n, c
        <5> QED
          BY <1>1, <1>4, <1>5, <1>7, <5>1
      <4> QED
        BY <2>1, <3>1, <4>1
    <3>3. Sum(Costs(fields))' = c
      BY <2>1
    <3> QED
      BY <1>1, <2>1, <3>2, <3>3 DEF Budget
  <2>7. Overrun'
    BY <2>1 DEF Overrun
  <2> QED
    BY <2>3, <2>4, <2>5, <2>6, <2>7 DEF WInv
<1> QED
  BY <1>9, <1>10

(* The field at hand, and the budget for it and those behind it.           *)
LEMMA HeadFacts ==
  ASSUME WInv, pk = "field", fields # <<>>
  PROVE  LET entry == Head(fields)
             rr    == src.records[rec]
             rest  == Sum(Costs(Tail(fields)))
             most  == LenUpTo(src, rec)
         IN  /\ entry \in Own(rr) /\ entry \in Entry /\ Tail(fields) \in Seq(Own(rr))
             /\ src.compress \in BOOLEAN
             /\ rest \in Nat /\ most \in Nat /\ FieldCost(entry) \in Nat /\ most + 1 <= room
             /\ FairUpTo(rec) => /\ at + (FieldCost(entry) + rest) <= most
                                 /\ ~Miscounted(rr)
<1> DEFINE rr == src.records[rec]
           entry == Head(fields)
           rest == Sum(Costs(Tail(fields)))
           most == LenUpTo(src, rec)
<1>1. /\ src \in Messages /\ rec \in Nat /\ rec > 0 /\ rec <= Len(src.records)
      /\ fields \in Seq(Own(rr)) /\ at \in Nat
      /\ room = LenUpTo(src, Len(src.records)) + 1
      /\ FairUpTo(rec) => at + Sum(Costs(fields)) <= most
  BY DEF WInv, Source, Budget
<1>2. entry \in Own(rr) /\ Tail(fields) \in Seq(Own(rr))
  BY <1>1
<1>3. entry \in Entry /\ \A e \in Own(rr) : FieldCost(e) \in Nat
  BY <1>2, EntryCost DEF Own
<1>4. Sum(Costs(fields)) = FieldCost(entry) + rest
  BY <1>1, <1>3, CostsTail
<1>5. rest \in Nat
  <2>1. Costs(Tail(fields)) \in Seq(Nat)
    BY <1>2, <1>3, CostsFacts
  <2> QED
    BY <2>1, SumTyped
<1>6. most \in Nat /\ most + 1 <= room
  <2>1. Len(src.records) \in Nat
    BY <1>1, LensFacts
  <2>2. rec \in 0 .. Len(src.records) /\ Len(src.records) \in 0 .. Len(src.records)
    BY <1>1, <2>1
  <2>3. /\ most \in Nat /\ most <= LenUpTo(src, Len(src.records))
        /\ LenUpTo(src, Len(src.records)) \in Nat
    BY <1>1, <2>2, LensFacts
  <2> HIDE DEF most
  <2> QED
    BY <1>1, <2>3
<1>7. FairUpTo(rec) => ~Miscounted(rr)
  <2>1. rec \in 1 .. rec
    BY <1>1
  <2> QED
    BY <2>1 DEF FairUpTo
<1>8. src.compress \in BOOLEAN
  BY <1>1, MessageFacts
<1> HIDE DEF entry, rest, most, rr
<1>9. /\ entry \in Own(rr) /\ entry \in Entry /\ Tail(fields) \in Seq(Own(rr))
      /\ src.compress \in BOOLEAN
      /\ rest \in Nat /\ most \in Nat /\ FieldCost(entry) \in Nat /\ most + 1 <= room
      /\ FairUpTo(rec) => /\ at + (FieldCost(entry) + rest) <= most
                          /\ ~Miscounted(rr)
  BY <1>1, <1>2, <1>3, <1>4, <1>5, <1>6, <1>7, <1>8
<1> QED
  BY <1>9 DEF entry, rest, most, rr

(* What is left of a budget.                                               *)
LEMMA Spend ==
  \A a, b, cost, rest, most \in Nat :
    a <= b + cost /\ b + (cost + rest) <= most => a + rest <= most
  OBVIOUS

(* A field has been written that was counted for what it takes at least.   *)
LEMMA FieldIsDone ==
  ASSUME WInv, pk = "field", fields # <<>>,
         UNCHANGED <<src, pk, room, rec, begin>>, fields' = Tail(fields),
         at' \in Nat, FairUpTo(rec) => at' <= at + FieldCost(Head(fields)),
         Pointable', Laid'
  PROVE  WInv'
<1> DEFINE rr == src.records[rec]
           rest == Sum(Costs(Tail(fields)))
           most == LenUpTo(src, rec)
           cost == FieldCost(Head(fields))
<1>1. /\ Tail(fields) \in Seq(Own(rr)) /\ rest \in Nat /\ most \in Nat /\ cost \in Nat
      /\ FairUpTo(rec) => at + (cost + rest) <= most
  BY HeadFacts
<1>2. at \in Nat
  BY DEF WInv, Source
<1>3. Source'
  BY <1>1 DEF WInv, Source
<1>4. FairUpTo(rec) => at' + rest <= most
  <2>1. ASSUME FairUpTo(rec)
        PROVE  at' + rest <= most
    <3> DEFINE a == at'
               b == at
    <3>1. a \in Nat /\ b \in Nat /\ a <= b + cost
      BY <1>2, <2>1
    <3>2. b + (cost + rest) <= most
      BY <1>1, <2>1
    <3>3. rest \in Nat /\ most \in Nat /\ cost \in Nat
      BY <1>1
    <3> HIDE DEF a, b, rest, most, cost
    <3>4. a + rest <= most
      BY <3>1, <3>2, <3>3, Spend
    <3> QED
      BY <3>4 DEF a
  <2> QED
    BY <2>1
<1>5. Budget'
  BY <1>4 DEF WInv, Budget, FairUpTo
<1>6. Overrun'
  BY DEF Overrun
<1> QED
  BY <1>3, <1>5, <1>6 DEF WInv

LEMMA OverflowKeeps ==
  ASSUME WInv, pk = "field", Overflow, ~FairUpTo(rec)
  PROVE  WInv'
<1>1. pk' = "overflow" /\ UNCHANGED <<src, room, at, rec, begin, fields, compression, written>>
  BY DEF Overflow
<1> QED
  BY <1>1 DEF WInv, Source, Laid, Pointable, Budget, Overrun, FairUpTo, Names

LEMMA PackNameKeeps ==
  ASSUME WInv, PackName
  PROVE  WInv'
<1> DEFINE labels == Head(fields)[2]
           compress == src.compress /\ Head(fields)[1] = "cname"
           e == NameEndsAt(labels, at, compress)
           rest == Sum(Costs(Tail(fields)))
           most == LenUpTo(src, rec)
           cost == FieldCost(Head(fields))
<1>1. /\ pk = "field" /\ fields # <<>> /\ Head(fields)[1] \in {"name", "cname"}
      /\ at \in Nat /\ room \in Nat /\ begin \in Nat /\ Laid
  BY DEF PackName, AtKind, WInv, Source
<1>2. /\ Head(fields) \in Entry /\ src.compress \in BOOLEAN
      /\ rest \in Nat /\ most \in Nat /\ cost \in Nat /\ most + 1 <= room
      /\ FairUpTo(rec) => at + (cost + rest) <= most
  BY <1>1, HeadFacts
<1>3. labels \in Seq(Label) /\ cost = NameLen(labels)
  BY <1>1, <1>2, EntryCost
<1>4. compress \in BOOLEAN
  OBVIOUS
<1> HIDE DEF labels, compress
<1>5. /\ e \in Nat /\ e <= at + NameLen(labels)
      /\ at + 2 * (Pointed(labels, compress) - 1) < e
      /\ at + NameLen(labels) <= room + 1 => NameFits(labels, at, compress)
  BY <1>1, <1>3, <1>4, NameEndFacts
<1>6. FairUpTo(rec) => NameFits(labels, at, compress)
  <2> HIDE DEF e, rest, most, cost
  <2>1. FairUpTo(rec) => at + cost <= room + 1
    BY <1>1, <1>2
  <2> QED
    BY <1>3, <1>5, <2>1
<1>7. CASE ~NameFits(labels, at, compress)
  <2>1. Overflow
    BY <1>7 DEF PackName, labels, compress
  <2> QED
    BY <1>1, <1>6, <1>7, <2>1, OverflowKeeps
<1>8. CASE NameFits(labels, at, compress)
  <2>1. /\ at' = e /\ fields' = Tail(fields)
        /\ written' = written \cup NameWritten(labels, at, compress)
        /\ compression' = Learnt(labels, at, compress)
        /\ UNCHANGED <<src, pk, room, rec, begin>>
    BY <1>8 DEF PackName, labels, compress
  <2>2. at' \in Nat /\ e <= at'
    BY <1>5, <2>1
  <2>3. /\ Pointable'
        /\ written' \subseteq Item
        /\ \A w \in written' : w.end <= at' /\ (w.kind = "name" => w.at < w.end)
        /\ \E b \in Nat : \A w \in written' : w.num <= b
        /\ \A w \in written' \ written : w.kind = "name" => w.at = at /\ w.end = e
    <3> DEFINE extra == {}
    <3>1. /\ extra \subseteq Item /\ \A w \in extra : w.end <= at' /\ w.kind # "name" /\ w.num = 0
          /\ written' = written \cup NameWritten(labels, at, compress) \cup extra
      BY <2>1
    <3>2. /\ e = NameEndsAt(labels, at, compress) /\ e <= at' /\ at' \in Nat
          /\ compression' = Learnt(labels, at, compress)
      BY <2>1, <2>2
    <3> HIDE DEF extra, e
    <3>3. /\ Pointable'
          /\ written' \subseteq Item
          /\ \A w \in written' : w.end <= at' /\ (w.kind = "name" => w.at < w.end)
          /\ \E b \in Nat : \A w \in written' : w.num <= b
          /\ \A w \in written' \ written :
               w.kind = "name" => w.at = at /\ w.end = NameEndsAt(labels, at, compress)
          /\ \E w \in written' : w.kind = "name" /\ w.at = at
      BY <1>1, <1>3, <1>4, <3>1, <3>2, NameIsLaid
    <3> QED
      BY <3>2, <3>3
  <2>4. Laid'
    <3>1. Names(begin) # {} /\ \A w \in Names(begin) : w.end + 10 <= at /\ w.at < w.end
      BY <1>1 DEF Laid, Names
    <3>2. begin < at
      <4>1. PICK w \in Names(begin) : w.end + 10 <= at /\ w.at < w.end
        BY <3>1
      <4>2. w.at = begin /\ w.end \in Nat
        BY <1>1 DEF Names, Laid, Item
      <4> QED
        BY <1>1, <4>1, <4>2
    <3>3. Names(begin)' = Names(begin)
      <4>1. \A w \in written' : w.kind = "name" /\ w.at = begin => w \in written
        BY <1>1, <2>3, <3>2
      <4>2. written \subseteq written'
        BY <2>1
      <4> QED
        BY <2>1, <4>1, <4>2 DEF Names
    <3>4. at <= at'
      <4>1. Pointed(labels, compress) \in 1 .. Len(labels) + 1 /\ Len(labels) \in Nat
        BY <1>3, <1>4, PointedFacts
      <4> HIDE DEF e
      <4> QED
        BY <1>1, <1>5, <2>1, <4>1
    <3>5. \A w \in Names(begin)' : w.end + 10 <= at'
      <4>1. \A w \in Names(begin) : w.end \in Nat
        BY <1>1 DEF Names, Laid, Item
      <4> QED
        BY <1>1, <2>2, <3>1, <3>3, <3>4, <4>1
    <3> QED
      BY <2>3, <3>1, <3>3, <3>5 DEF Laid
  <2>5. at' <= at + cost
    BY <1>3, <1>5, <2>1
  <2> QED
    BY <1>1, <2>1, <2>2, <2>3, <2>4, <2>5, FieldIsDone
<1> QED
  BY <1>7, <1>8

(* The items of a field that is no name.                                   *)
DataItem(kind, v, o, i) ==
  [Plain(o + Sum(SubSeq(Pieces(kind, v), 1, i - 1)), o + Sum(SubSeq(Pieces(kind, v), 1, i)), kind)
     EXCEPT !.type = IF kind = "opt" THEN v[i][1] ELSE @,
            !.num = IF kind = "opt" THEN v[i][3] ELSE @]

LEMMA DataItemIs ==
  ASSUME NEW kind, NEW v, NEW o, NEW i
  PROVE  DataItem(kind, v, o, i) =
           [at |-> o + Sum(SubSeq(Pieces(kind, v), 1, i - 1)),
            end |-> o + Sum(SubSeq(Pieces(kind, v), 1, i)),
            kind |-> kind, counts |-> <<>>, labels |-> <<>>,
            num |-> IF kind = "opt" THEN v[i][3] ELSE 0,
            type |-> IF kind = "opt" THEN v[i][1] ELSE "none"]
<1> DEFINE a == o + Sum(SubSeq(Pieces(kind, v), 1, i - 1))
           e == o + Sum(SubSeq(Pieces(kind, v), 1, i))
           l == <<>>
           c == v[i][1]
           f == v[i][3]
           x == [Plain(a, e, kind) EXCEPT !.type = IF kind = "opt" THEN c ELSE @]
<1>1. DataItem(kind, v, o, i) = [x EXCEPT !.num = IF kind = "opt" THEN f ELSE @]
  BY Zenon DEF DataItem
<1> HIDE DEF a, e, c, f, l
<1>2. Plain(a, e, kind) = [at |-> a, end |-> e, kind |-> kind, counts |-> l, labels |-> l,
                           num |-> 0, type |-> "none"]
  BY DEF Plain, l
<1>3. x = [at |-> a, end |-> e, kind |-> kind, counts |-> l, labels |-> l, num |-> 0,
           type |-> IF kind = "opt" THEN c ELSE "none"]
  BY <1>2
<1> HIDE DEF x
<1>4. [x EXCEPT !.num = IF kind = "opt" THEN f ELSE @]
        = [at |-> a, end |-> e, kind |-> kind, counts |-> l, labels |-> l,
           num |-> IF kind = "opt" THEN f ELSE 0, type |-> IF kind = "opt" THEN c ELSE "none"]
  BY <1>3
<1> QED
  BY <1>1, <1>4, Zenon DEF a, e, c, f, l

LEMMA DataItemFacts ==
  ASSUME NEW kind \in NotNames, NEW v \in Puts(kind), NEW o \in Nat,
         NEW i \in 1 .. Len(Pieces(kind, v))
  PROVE  LET w == DataItem(kind, v, o, i)
         IN  /\ w \in Item
             /\ w.end <= o + Sum(Pieces(kind, v))
             /\ w.kind = kind /\ w.kind # "name" /\ w.num \in 0 .. 3
<1> DEFINE s == Pieces(kind, v)
           a == o + Sum(SubSeq(s, 1, i - 1))
           e == o + Sum(SubSeq(s, 1, i))
           t == IF kind = "opt" THEN v[i][1] ELSE "none"
           n == IF kind = "opt" THEN v[i][3] ELSE 0
           l == <<>>
           w == DataItem(kind, v, o, i)
<1>1. s \in Seq(Nat) /\ Len(s) \in Nat /\ s[i] \in Nat
  <2>1. s \in Seq(Nat)
    BY DataFits DEF FieldFits
  <2> HIDE DEF s
  <2> QED
    BY <2>1 DEF s
<1>2. kind \in {"string", "txt", "nsec", "opt"} => s[i] > 0
  BY DataFits
<1>3. i \in Nat /\ i > 0 /\ i \in 0 .. Len(s) /\ i - 1 \in 0 .. Len(s)
  BY <1>1
<1>4. /\ Sum(SubSeq(s, 1, i)) \in Nat /\ Sum(SubSeq(s, 1, i - 1)) \in Nat
      /\ Sum(SubSeq(s, 1, i)) <= Sum(s)
      /\ Sum(SubSeq(s, 1, i)) = Sum(SubSeq(s, 1, i - 1)) + s[i]
  <2> HIDE DEF s
  <2> QED
    BY <1>1, <1>3, SumUpTo
<1>5. Sum(s) \in Nat
  BY <1>1, SumTyped
<1>6. /\ a \in Nat /\ e \in Nat /\ a <= e /\ e <= o + Sum(s)
      /\ kind \in {"string", "txt", "nsec", "opt"} => a < e
  <2> DEFINE x == Sum(SubSeq(s, 1, i))
             y == Sum(SubSeq(s, 1, i - 1))
             z == Sum(s)
             c == s[i]
  <2>1. x \in Nat /\ y \in Nat /\ z \in Nat /\ c \in Nat /\ x <= z /\ x = y + c
    BY <1>1, <1>4, <1>5
  <2>2. a = o + y /\ e = o + x /\ (kind \in {"string", "txt", "nsec", "opt"} => c > 0)
    BY <1>2
  <2> HIDE DEF a, e, x, y, c, z
  <2>3. /\ a \in Nat /\ e \in Nat /\ a <= e /\ e <= o + z
        /\ kind \in {"string", "txt", "nsec", "opt"} => a < e
    BY <2>1, <2>2
  <2> QED
    BY <2>3 DEF z
<1>7. w = [at |-> a, end |-> e, kind |-> kind, counts |-> l, labels |-> l, num |-> n, type |-> t]
  BY DataItemIs, Zenon
<1>8. (kind = "opt" => t \in OptionCode) /\ n \in 0 .. 3
  <2>1. ASSUME kind = "opt"
        PROVE  t \in OptionCode /\ n \in Fate
    <3>1. v \in Seq(OptionCode \X Nat \X Fate)
      BY <2>1 DEF Puts
    <3>2. Len(s) = Len(v)
      BY <2>1, <3>1, SizeFacts DEF Pieces
    <3>3. v[i] \in OptionCode \X Nat \X Fate
      BY <3>1, <3>2
    <3> QED
      BY <2>1, <3>3
  <2> QED
    BY <2>1 DEF Fate, Sound, Unread, Torn, Unfit
<1>9. t \in RRType \cup OptionCode \cup {"none"}
  <2> HIDE DEF s, a, e, n, l, w
  <2> QED
    BY <1>8
<1>10. l \in Seq(Nat) /\ l \in Seq(Label)
  OBVIOUS
<1>11. kind \in ItemKind /\ kind \notin {"label", "header", "fixed", "name"}
  BY SizeFacts DEF NotNames, PackKind, ItemKind
<1> HIDE DEF s, a, e, n, t, l
<1>12. w \in Item
  <2>1. n \in Nat
    BY <1>8
  <2>2. [at |-> a, end |-> e, kind |-> kind, counts |-> l, labels |-> l, num |-> n, type |-> t] \in Item
    BY <1>6, <1>8, <1>9, <1>10, <1>11, <2>1, ItemBuilt
  <2> QED
    BY <1>7, <2>2
<1>13. w.end = e /\ w.kind = kind /\ w.num \in 0 .. 3
  BY <1>7, <1>8
<1> QED
  BY <1>6, <1>11, <1>12, <1>13 DEF s

(* Items behind the owner that are no names.                               *)
LEMMA DataIsLaid ==
  ASSUME WInv, pk = "field", pk' \in {"field", "rr"}, NEW extra, extra \subseteq Item,
         at' \in Nat, at <= at', begin' = begin,
         \A w \in extra : w.end <= at' /\ w.kind # "name",
         \E b \in Nat : \A w \in extra : w.num <= b,
         written' = written \cup extra, compression' = compression
  PROVE  Laid' /\ Pointable'
<1>1. /\ at \in Nat /\ written \subseteq Item
      /\ \A w \in written : w.end <= at /\ (w.kind = "name" => w.at < w.end)
      /\ Names(begin) # {} /\ \A w \in Names(begin) : w.end + 10 <= at
  BY DEF WInv, Source, Laid
<1>2. \A w \in written : w.end \in Nat
  BY <1>1 DEF Item
<1>3. Names(begin)' = Names(begin)
  BY DEF Names
<1>4. \A w \in written' : w.end <= at' /\ (w.kind = "name" => w.at < w.end)
  BY <1>1, <1>2
<1>5. \A w \in Names(begin)' : w.end + 10 <= at'
  <2>1. \A w \in Names(begin) : w.end \in Nat
    BY <1>2 DEF Names
  <2> QED
    BY <1>1, <1>3, <2>1
<1>6. \E b \in Nat : \A w \in written' : w.num <= b
  <2>1. PICK b \in Nat : \A w \in written : w.num <= b
    BY DEF WInv, Laid
  <2>2. PICK c \in Nat : \A w \in extra : w.num <= c
    OBVIOUS
  <2>3. \A w \in written' : w.num \in Nat
    BY <1>1 DEF Item
  <2>4. \A w \in written' : w.num <= b + c
    BY <2>1, <2>2, <2>3
  <2>5. b + c \in Nat
    OBVIOUS
  <2> QED
    BY <2>4, <2>5
<1>7. written' \subseteq Item
  BY <1>1
<1>8. Pointable'
  BY DEF WInv, Pointable
<1> QED
  BY <1>1, <1>3, <1>4, <1>5, <1>6, <1>7, <1>8 DEF Laid

(* What is cut of the options is what there is no room for. *)
LEMMA CutFacts ==
  ASSUME NEW kind \in NotNames, NEW v \in Says(kind), at \in Nat, room \in Nat
  PROVE  /\ Cut(kind, v) \in Puts(kind)
         /\ kind # "opt" \/ at + Needed(kind, v) <= room => Cut(kind, v) = v
<1> DEFINE last == Len(v)
           free == room - (at + Sum(Pieces(kind, v))) + v[last][2]
           w == [v EXCEPT ![last] = <<v[last][1], free, Torn>>]
<1>1. v \in Puts(kind)
  BY SaysPuts
<1>2. CASE ~(kind = "opt" /\ v # <<>> /\ free \in 0 .. (v[last][2] - 1))
  <2>1. Cut(kind, v) = v
    BY <1>2 DEF Cut
  <2> QED
    BY <1>1, <2>1
<1>3. CASE kind = "opt" /\ v # <<>> /\ free \in 0 .. (v[last][2] - 1)
  <2>1. Cut(kind, v) = w
    BY <1>3 DEF Cut
  <2>2. v \in Seq(OptionCode \X Nat \X Fate) /\ v # <<>>
    BY <1>1, <1>3 DEF Puts
  <2>3. last \in 1 .. Len(v) /\ v[last] \in OptionCode \X Nat \X Fate
    BY <2>2
  <2>4. v[last][1] \in OptionCode /\ v[last][2] \in Nat
    BY <2>3
  <2>5. Sum(Pieces(kind, v)) \in Nat /\ Needed(kind, v) = Sum(Pieces(kind, v))
    <3>1. Pieces(kind, v) \in Seq(Nat)
      BY <1>1, DataFits DEF FieldFits
    <3>2. Needed(kind, v) = Sum(Pieces(kind, v))
      BY <1>3, SizeFacts DEF Needed
    <3> QED
      BY <3>1, <3>2, SumTyped
  <2>6. free \in Nat /\ ~(at + Needed(kind, v) <= room)
    <3> DEFINE a == v[last][2]
               c == Sum(Pieces(kind, v))
    <3>1. a \in Nat /\ c \in Nat /\ room - (at + c) + a \in 0 .. a - 1
      BY <1>3, <2>4, <2>5
    <3> HIDE DEF a, c
    <3>2. room - (at + c) + a \in Nat /\ ~(at + c <= room)
      BY <3>1
    <3> QED
      BY <2>5, <3>2 DEF a, c
  <2>7. <<v[last][1], free, Torn>> \in OptionCode \X Nat \X Fate
    <3> HIDE DEF free
    <3> QED
      BY <2>4, <2>6 DEF Fate
  <2>8. w \in Seq(OptionCode \X Nat \X Fate)
    <3> DEFINE x == <<v[last][1], free, Torn>>
    <3> HIDE DEF x
    <3>1. [v EXCEPT ![last] = x] \in Seq(OptionCode \X Nat \X Fate)
      BY <2>2, <2>3, <2>7 DEF x
    <3> QED
      BY <3>1 DEF x
  <2> QED
    BY <1>3, <2>1, <2>6, <2>8 DEF Puts
<1> QED
  BY <1>2, <1>3

(* The field at hand: what it says fits if nothing was miscounted. *)
LEMMA DataHere ==
  ASSUME WInv, AtData
  PROVE  LET kind == Head(fields)[1]
             says == Head(fields)[2]
             v == Cut(kind, says)
         IN  /\ kind \in NotNames /\ says \in Says(kind) /\ v \in Puts(kind)
             /\ Pieces(kind, v) \in Seq(Nat) /\ Sum(Pieces(kind, v)) \in Nat
             /\ Needed(kind, v) \in Nat /\ Sum(Pieces(kind, v)) <= Needed(kind, v)
             /\ FairUpTo(rec) =>
                  /\ v = says /\ at + Needed(kind, v) <= room
                  /\ Sum(Pieces(kind, v)) <= FieldCost(Head(fields))
<1> DEFINE kind == Head(fields)[1]
           says == Head(fields)[2]
           v == Cut(kind, says)
           s == Pieces(kind, v)
           need == Needed(kind, v)
           rr == src.records[rec]
           rest == Sum(Costs(Tail(fields)))
           most == LenUpTo(src, rec)
           cost == FieldCost(Head(fields))
<1>1. /\ pk = "field" /\ fields # <<>> /\ kind \notin {"name", "cname"}
      /\ at \in Nat /\ room \in Nat
  BY DEF AtData, WInv, Source
<1>2. /\ Head(fields) \in Entry /\ Head(fields) \in Own(rr)
      /\ rest \in Nat /\ most \in Nat /\ cost \in Nat /\ most + 1 <= room
      /\ FairUpTo(rec) => at + (cost + rest) <= most /\ ~Miscounted(rr)
  BY <1>1, HeadFacts
<1>3. kind \in NotNames /\ says \in Says(kind) /\ cost = FieldLen(kind, says)
  BY <1>1, <1>2, EntryCost
<1>4. FieldFits(kind, says)
  BY <1>3, SaysPuts, DataFits
<1> DEFINE t == Pieces(kind, says)
           need1 == Needed(kind, says)
<1>5. t \in Seq(Nat) /\ Sum(t) \in Nat /\ need1 \in Nat /\ Sum(t) <= need1
  <2>1. t \in Seq(Nat) /\ need1 \in Nat /\ Sum(t) <= need1
    BY <1>4 DEF FieldFits
  <2> QED
    BY <2>1, SumTyped
<1>6. FairUpTo(rec) => Fair(kind, says)
  <2>1. ASSUME ~Miscounted(rr), kind = "nsec"
        PROVE  Sum(t) <= BitmapLen(says)
    <3>1. PICK i \in 1 .. Len(rr.data) : PackLayout[rr.type][i] = "nsec" /\ rr.data[i] = says
      BY <1>2, <2>1 DEF Own
    <3>2. ~(Sum(Pieces("nsec", rr.data[i])) > BitmapLen(rr.data[i]))
      BY <2>1, <3>1 DEF Miscounted
    <3>3. BitmapLen(says) \in Nat
      <4>1. FieldLen("nsec", says) = BitmapLen(says)
        BY SizeFacts DEF FieldLen
      <4> QED
        BY <1>2, <1>3, <2>1, <4>1
    <3>4. ~(Sum(t) > BitmapLen(says))
      BY <2>1, <3>1, <3>2
    <3> QED
      BY <1>5, <3>3, <3>4
  <2> QED
    BY <1>2, <2>1 DEF Fair
<1>7. FairUpTo(rec) => Sum(t) <= cost /\ at + need1 <= room
  <2>1. FairUpTo(rec) => Sum(t) <= cost /\ need1 <= cost + 1
    BY <1>3, <1>4, <1>6 DEF FieldFits
  <2> HIDE DEF rest, most, cost, need1, t, rr
  <2> QED
    BY <1>1, <1>2, <1>5, <2>1
<1>8. v \in Puts(kind) /\ (at + need1 <= room => v = says)
  BY <1>1, <1>3, CutFacts
<1>9. s \in Seq(Nat) /\ Sum(s) \in Nat /\ need \in Nat /\ Sum(s) <= need
  <2>1. FieldFits(kind, v)
    BY <1>3, <1>8, DataFits
  <2>2. s \in Seq(Nat) /\ need \in Nat /\ Sum(s) <= need
    BY <2>1 DEF FieldFits
  <2> QED
    BY <2>2, SumTyped
<1>10. FairUpTo(rec) => v = says /\ at + need <= room /\ Sum(s) <= cost
  <2>1. ASSUME FairUpTo(rec)
        PROVE  v = says /\ at + need <= room /\ Sum(s) <= cost
    <3>1. v = says
      BY <1>7, <1>8, <2>1
    <3> QED
      BY <1>7, <2>1, <3>1
  <2> QED
    BY <2>1
<1> QED
  BY <1>3, <1>8, <1>9, <1>10

LEMMA PackDataKeeps ==
  ASSUME WInv, PackData
  PROVE  WInv'
<1> DEFINE kind == Head(fields)[1]
           v == Cut(kind, Head(fields)[2])
           s == Pieces(kind, v)
           cost == FieldCost(Head(fields))
           extra == {DataItem(kind, v, at, i) : i \in 1 .. Len(s)}
<1>1. AtData /\ pk = "field" /\ fields # <<>> /\ at \in Nat /\ room \in Nat
  BY DEF PackData, AtData, WInv, Source
<1>2. /\ kind \in NotNames /\ v \in Puts(kind)
      /\ s \in Seq(Nat) /\ Sum(s) \in Nat
      /\ FairUpTo(rec) => Sum(s) <= cost
  BY <1>1, DataHere
<1>3. /\ at' = at + Sum(SubSeq(s, 1, Len(s))) /\ fields' = Tail(fields)
      /\ written' = written \cup extra
      /\ UNCHANGED <<src, pk, room, rec, begin, compression>>
  BY DEF PackData, DataItem
<1>4. at' = at + Sum(s)
  <2>1. Sum(SubSeq(s, 1, Len(s))) = Sum(s)
    BY <1>2, SumWhole
  <2> QED
    BY <1>3, <2>1
<1>5. at' \in Nat /\ at <= at'
  <2> HIDE DEF s
  <2> QED
    BY <1>1, <1>2, <1>4
<1>6. \A w \in extra : w \in Item /\ w.end <= at' /\ w.kind # "name" /\ w.num \in 0 .. 3
  <2> SUFFICES ASSUME NEW i \in 1 .. Len(s)
               PROVE  LET w == DataItem(kind, v, at, i)
                      IN  w \in Item /\ w.end <= at' /\ w.kind # "name" /\ w.num \in 0 .. 3
    OBVIOUS
  <2> HIDE DEF kind, v
  <2> QED
    BY <1>1, <1>2, <1>4, DataItemFacts
<1>7. Laid' /\ Pointable'
  <2> HIDE DEF extra
  <2>1. extra \subseteq Item /\ \E b \in Nat : \A w \in extra : w.num <= b
    <3>1. \A w \in extra : w.num <= 3
      BY <1>6
    <3> QED
      BY <1>6, <3>1
  <2> QED
    BY <1>1, <1>3, <1>5, <1>6, <2>1, DataIsLaid
<1>8. FairUpTo(rec) => at' <= at + cost
  <2>1. Head(fields) \in Entry /\ cost \in Nat
    BY <1>1, HeadFacts
  <2> HIDE DEF s, cost
  <2> QED
    BY <1>1, <1>2, <1>4, <2>1
<1> QED
  BY <1>1, <1>3, <1>5, <1>7, <1>8, FieldIsDone

LEMMA PackDataFailsKeeps ==
  ASSUME WInv, PackDataFails
  PROVE  WInv'
<1> DEFINE kind == Head(fields)[1]
           v == Cut(kind, Head(fields)[2])
           fits == at + Needed(kind, v) <= room
<1>1. AtData /\ pk = "field"
  BY DEF PackDataFails, AtData
<1>2. FairUpTo(rec) => fits
  BY <1>1, DataHere
<1>3. /\ pk' \in {"refused", "overflow", "panic"} /\ (fits => pk' = "refused")
      /\ UNCHANGED <<src, room, at, rec, begin, fields, compression, written>>
  BY DEF PackDataFails
<1> HIDE DEF fits
<1>4. Source' /\ Laid' /\ Pointable' /\ Budget'
  BY <1>1, <1>3 DEF WInv, Source, Laid, Pointable, Budget, FairUpTo, Names
<1>5. Overrun'
  BY <1>2, <1>3 DEF Overrun, FairUpTo
<1> QED
  BY <1>4, <1>5 DEF WInv

LEMMA FixedIs ==
  ASSUME NEW a, NEW e, NEW n, NEW t
  PROVE  [Plain(a, e, "fixed") EXCEPT !.num = n, !.type = t]
           = [at |-> a, end |-> e, kind |-> "fixed", counts |-> <<>>, labels |-> <<>>, num |-> n,
              type |-> t]
<1> DEFINE l == <<>>
           w == [Plain(a, e, "fixed") EXCEPT !.num = n]
<1>1. w = [at |-> a, end |-> e, kind |-> "fixed", counts |-> l, labels |-> l, num |-> n,
           type |-> "none"]
  BY DEF Plain
<1> HIDE DEF w, l
<1>2. [w EXCEPT !.type = t] = [at |-> a, end |-> e, kind |-> "fixed", counts |-> l,
                               labels |-> l, num |-> n, type |-> t]
  BY <1>1
<1>3. [Plain(a, e, "fixed") EXCEPT !.num = n, !.type = t] = [w EXCEPT !.type = t]
  BY Zenon DEF w
<1> QED
  BY <1>2, <1>3 DEF l

LEMMA PackRdlengthKeeps ==
  ASSUME WInv, PackRdlength
  PROVE  WInv'
<1> DEFINE rr == src.records[rec]
           num == at - (OwnerEnd + 10)
           fixed == [Plain(OwnerEnd, OwnerEnd + 10, "fixed") EXCEPT !.num = num, !.type = rr.type]
           whole == Plain(begin, at, "record")
           l == <<>>
<1>1. /\ pk = "field" /\ fields = <<>> /\ pk' = "rr"
      /\ written' = written \cup {fixed, whole}
      /\ UNCHANGED <<src, room, at, rec, begin, fields, compression>>
  BY DEF PackRdlength
<1>2. /\ at \in Nat /\ begin \in Nat /\ rec \in Nat /\ rec > 0
      /\ src \in Messages /\ rec <= Len(src.records)
      /\ written \subseteq Item
      /\ Names(begin) # {} /\ \A w \in Names(begin) : w.end + 10 <= at /\ w.at < w.end
  BY <1>1 DEF WInv, Source, Laid, Names
<1>3. PICK w \in Names(begin) : OwnerEnd = w.end
  BY <1>2 DEF OwnerEnd, Names
<1>4. /\ OwnerEnd \in Nat /\ OwnerEnd + 10 <= at /\ begin < OwnerEnd
  <2>1. w.end \in Nat /\ w.at = begin
    BY <1>2 DEF Names, Item
  <2> QED
    BY <1>2, <1>3, <2>1
<1>5. num \in Nat /\ OwnerEnd + 10 \in Nat /\ OwnerEnd <= OwnerEnd + 10 /\ begin < at
  BY <1>2, <1>4
<1>6. rr.type \in RRType
  <2>1. rec \in 1 .. Len(src.records)
    <3>1. Len(src.records) \in Nat
      BY <1>2, LensFacts
    <3> QED
      BY <1>2, <3>1
  <2>2. rr \in ToSet(src.records)
    BY <1>2, <2>1, MessageFacts
  <2> QED
    BY <1>2, <2>2, RecordFacts
<1>7. /\ fixed = [at |-> OwnerEnd, end |-> OwnerEnd + 10, kind |-> "fixed", counts |-> l,
                  labels |-> l, num |-> num, type |-> rr.type]
      /\ Shape(whole, begin, at, "record", l, 0)
  <2>1. fixed = [at |-> OwnerEnd, end |-> OwnerEnd + 10, kind |-> "fixed", counts |-> l,
                 labels |-> l, num |-> num, type |-> rr.type]
    <3> DEFINE e == OwnerEnd
               f == OwnerEnd + 10
               t == rr.type
    <3> HIDE DEF e, f, t, num
    <3>1. [Plain(e, f, "fixed") EXCEPT !.num = num, !.type = t]
            = [at |-> e, end |-> f, kind |-> "fixed", counts |-> l, labels |-> l, num |-> num,
               type |-> t]
      BY FixedIs, ZenonT(30) DEF l
    <3> QED
      BY <3>1 DEF e, f, t
  <2>2. Shape(whole, begin, at, "record", l, 0)
    BY PlainIs
  <2> QED
    BY <2>1, <2>2
<1>8. l \in Seq(Nat) /\ l \in Seq(Label)
  OBVIOUS
<1> HIDE DEF num, fixed, whole, l, rr
<1>9. fixed \in Item /\ fixed.end = OwnerEnd + 10 /\ fixed.kind = "fixed" /\ fixed.num = num
  <2> DEFINE e == OwnerEnd
             f == OwnerEnd + 10
             t == rr.type
  <2>1. e \in Nat /\ f \in Nat /\ e <= f /\ t \in RRType /\ t \in RRType \cup OptionCode \cup {"none"}
    BY <1>4, <1>5, <1>6
  <2>2. "fixed" \in ItemKind
    BY DEF ItemKind
  <2> HIDE DEF e, f, t
  <2>3. [at |-> e, end |-> f, kind |-> "fixed", counts |-> l, labels |-> l, num |-> num,
         type |-> t] \in Item
    BY <1>5, <1>8, <2>1, <2>2, ItemBuilt
  <2> QED
    BY <1>7, <2>3 DEF e, f, t
<1>10. whole \in Item /\ whole.end = at /\ whole.kind = "record" /\ whole.num = 0
  BY <1>2, <1>5, <1>7, <1>8, ShapeBuilt
<1>11. Laid' /\ Pointable'
  <2> DEFINE extra == {fixed, whole}
  <2>1. /\ extra \subseteq Item /\ \A x \in extra : x.end <= at' /\ x.kind # "name"
        /\ \E b \in Nat : \A x \in extra : x.num <= b
    BY <1>1, <1>2, <1>4, <1>5, <1>9, <1>10
  <2>2. /\ written' = written \cup extra /\ compression' = compression /\ begin' = begin
        /\ at' \in Nat /\ at <= at' /\ pk' \in {"field", "rr"}
    BY <1>1, <1>2
  <2> HIDE DEF extra
  <2> QED
    BY <1>1, <2>1, <2>2, DataIsLaid
<1>12. Source'
  BY <1>1, <1>2 DEF WInv, Source
<1>13. FairUpTo(rec) => at <= LenUpTo(src, rec)
  <2>1. Costs(fields) = <<>>
    BY <1>1 DEF Costs
  <2>2. Sum(Costs(fields)) = 0
    BY <2>1, SumEmpty
  <2>3. FairUpTo(rec) => at + Sum(Costs(fields)) <= LenUpTo(src, rec)
    BY <1>1 DEF WInv, Budget
  <2> QED
    BY <1>2, <2>2, <2>3
<1>14. Budget'
  BY <1>1, <1>13 DEF WInv, Budget, FairUpTo
<1>15. Overrun'
  BY <1>1 DEF Overrun
<1> QED
  BY <1>11, <1>12, <1>14, <1>15 DEF WInv

LEMMA RdlengthRefusedKeeps ==
  ASSUME WInv, RdlengthRefused
  PROVE  WInv'
<1>1. /\ pk = "field" /\ pk' = "refused"
      /\ UNCHANGED <<src, room, at, rec, begin, fields, compression, written>>
  BY DEF RdlengthRefused
<1> QED
  BY <1>1 DEF WInv, Source, Laid, Pointable, Budget, Overrun, Names

LEMMA PackedKeeps ==
  ASSUME WInv, Packed
  PROVE  WInv'
<1>1. /\ pk = "rr" /\ pk' = "packed"
      /\ UNCHANGED <<src, room, at, rec, begin, fields, compression, written>>
  BY DEF Packed
<1> QED
  BY <1>1 DEF WInv, Source, Laid, Pointable, Budget, Overrun, Names

LEMMA WriterKeeps ==
  ASSUME WInv, PackNext
  PROVE  WInv'
  BY PackHeaderKeeps, PackQuestionKeeps, PackOwnerKeeps, PackNameKeeps, PackDataKeeps,
     PackDataFailsKeeps, PackRdlengthKeeps, RdlengthRefusedKeeps, PackedKeeps DEF PackNext

LEMMA WriterIdles ==
  ASSUME WInv, UNCHANGED packVars
  PROVE  WInv'
  BY DEF WInv, Source, Laid, Pointable, Budget, Overrun, FairUpTo, Names, packVars

-----------------------------------------------------------------------------
(* The writer and the reader together.                                     *)

LEMMA DeliveryIsStep ==
  ASSUME WInv, Send \/ Stranger
  PROVE  UnpackStep /\ UNCHANGED packVars
<1>1. CASE Send
  <2>1. PICK b \in Buffers :
          Deliver(Least(at, b), {w \in written : w.at < Least(at, b) \/ w.end <= Least(at, b)},
                  src.tc)
    BY <1>1 DEF Send
  <2>2. Least(at, b) \in Nat
    BY WireAssumption DEF WInv, Source, Least
  <2>3. {w \in written : w.at < Least(at, b) \/ w.end <= Least(at, b)} \in SUBSET Item
    BY DEF WInv, Laid
  <2>4. src.tc \in BOOLEAN
    <3>1. src \in Messages
      BY <1>1 DEF Send, WInv, Source
    <3> QED
      BY <3>1, MessageFacts
  <2>5. UNCHANGED packVars
    BY <1>1 DEF Send
  <2> QED
    BY <2>1, <2>2, <2>3, <2>4, <2>5 DEF UnpackStep
<1>2. CASE Stranger
  <2>1. PICK n \in Sizes, t \in BOOLEAN : Deliver(n, {}, t)
    BY <1>2 DEF Stranger
  <2>2. n \in Nat /\ {} \in SUBSET Item
    BY WireAssumption
  <2>3. UNCHANGED packVars
    BY <1>2 DEF Stranger
  <2> QED
    BY <2>1, <2>2, <2>3 DEF UnpackStep
<1> QED
  BY <1>1, <1>2

(* Each step is one of the writer or one of the reader.                    *)
LEMMA WireSteps ==
  ASSUME WInv, [Next]_<<packVars, unpackVars>>
  PROVE  /\ PackNext \/ UNCHANGED packVars
         /\ [UnpackStep]_unpackVars
  BY DeliveryIsStep DEF Next, UnpackStep

LEMMA WireStepKeeps ==
  ASSUME WInv, [Next]_<<packVars, unpackVars>>
  PROVE  WInv'
  BY WireSteps, WriterKeeps, WriterIdles

(* What has been written and what is left of a message take together what  *)
(* the len functions counted for it; every item is well formed, and every  *)
(* offset in the compression map lies in a name that has been written.     *)
THEOREM WriterInvariant == Spec => []WInv
<1>1. Init => WInv
  BY WriterStarts DEF Init
<1> QED
  BY <1>1, WireStepKeeps, PTL DEF Spec

(* What the reader does with the messages of the writer, and with those of *)
(* strangers, it does on its own: Unpack is proved about for any message.  *)
THEOREM ReadsAsAlone == Spec => UnpackSpec
<1>1. Init => UnpackInit
  BY DEF Init
<1>2. WInv /\ [Next]_<<packVars, unpackVars>> => [UnpackStep]_unpackVars
  BY WireSteps
<1> QED
  BY <1>1, <1>2, WriterInvariant, PTL DEF Spec, UnpackSpec

(* The writer, the buffer and the reader keep their types, for any         *)
(* messages, any layout of the types and any buffer it is read into.       *)
THEOREM WireTypeCorrect == Spec => []TypeOK
<1>1. WInv /\ UnpackTypeOK => TypeOK
  BY DEF WInv, Source, Laid, Pointable, TypeOK
<1> QED
  BY <1>1, WriterInvariant, ReadsAsAlone, UnpackTypeCorrect, PTL

(* No option is cut before too little has been counted.                    *)
TornBehind == (\E w \in Fresh({"opt"}) : w.num = Torn) => ~FairUpTo(rec)

LEMMA TornKeeps ==
  ASSUME TornBehind, src' = src, rec \in Nat, rec' \in {rec, rec + 1},
         NEW N, written' = written \cup N,
         \A w \in N : w.kind = "opt" /\ w.num = Torn => ~FairUpTo(rec)
  PROVE  TornBehind'
<1>1. FairUpTo(rec)' => FairUpTo(rec)
  <2>1. 1 .. rec \subseteq 1 .. rec'
    OBVIOUS
  <2> QED
    BY <2>1 DEF FairUpTo, Miscounted
<1>2. ASSUME NEW w \in Fresh({"opt"})', w.num = Torn
      PROVE  ~FairUpTo(rec)
  <2>1. w \in written \cup N /\ w.kind = "opt"
    BY <1>2 DEF Fresh
  <2>2. CASE w \in written
    <3>1. w \in Fresh({"opt"})
      BY <2>1, <2>2 DEF Fresh
    <3> QED
      BY <1>2, <3>1 DEF TornBehind
  <2>3. CASE w \in N
    BY <1>2, <2>1, <2>3
  <2> QED
    BY <2>1, <2>2, <2>3
<1> QED
  BY <1>1, <1>2 DEF TornBehind

LEMMA NamesKeepTorn ==
  ASSUME WInv, TornBehind, src' = src, rec' \in {rec, rec + 1},
         NEW labels \in Seq(Label), NEW compress \in BOOLEAN, NEW N, \A w \in N : w.kind # "opt",
         written' = written \cup NameWritten(labels, at, compress) \cup N
  PROVE  TornBehind'
<1> DEFINE M == NameWritten(labels, at, compress) \cup N
<1>1. Laid /\ Pointable /\ at \in Nat /\ rec \in Nat
  BY DEF WInv, Source
<1>2. \A w \in NameWritten(labels, at, compress) : w.kind \in {"label", "pointer", "root", "name"}
  BY <1>1, NameWrittenFacts
<1>3. \A w \in M : w.kind # "opt"
  BY <1>2
<1>4. written' = written \cup M
  OBVIOUS
<1> HIDE DEF M
<1> QED
  BY <1>1, <1>3, <1>4, TornKeeps

LEMMA DataKeepsTorn ==
  ASSUME WInv, TornBehind, PackData
  PROVE  TornBehind'
<1> DEFINE kind == Head(fields)[1]
           says == Head(fields)[2]
           v == Cut(kind, says)
           s == Pieces(kind, v)
           a(i) == DataItem(kind, v, at, i)
           extra == {a(i) : i \in 1 .. Len(s)}
<1>1. AtData /\ rec \in Nat
  BY DEF PackData, WInv, Source
<1>2. /\ kind \in NotNames /\ says \in Says(kind)
      /\ FairUpTo(rec) => v = says
  BY <1>1, DataHere
<1>3. written' = written \cup extra /\ src' = src /\ rec' = rec
  BY DEF PackData, DataItem
<1>4. ASSUME NEW i \in 1 .. Len(s), a(i).kind = "opt", a(i).num = Torn
      PROVE  ~FairUpTo(rec)
  <2> SUFFICES ASSUME FairUpTo(rec)
               PROVE  FALSE
    OBVIOUS
  <2>1. v = says
    BY <1>2
  <2>2. a(i).kind = kind /\ (kind = "opt" => a(i).num = v[i][3])
    BY DataItemIs
  <2>3. kind = "opt"
    BY <1>4, <2>2
  <2>4. v \in Seq(Option) /\ s = [j \in 1 .. Len(v) |-> v[j][2] + 4]
    BY <1>2, <2>1, <2>3, SizeFacts DEF Says, Pieces
  <2>5. v[i] \in Option
    <3>1. Len(v) \in Nat
      BY <2>4
    <3>2. Len(s) = Len(v)
      <4> HIDE DEF s, v
      <4> QED
        BY <2>4, <3>1
    <3>3. i \in 1 .. Len(v)
      BY <3>2
    <3> QED
      BY <2>4, <3>3
  <2>6. v[i][3] # Torn
    BY <2>5 DEF Option, Sound, Unread, Unfit, Torn
  <2> QED
    BY <1>4, <2>2, <2>3, <2>6
<1>5. \A w \in extra : w.kind = "opt" /\ w.num = Torn => ~FairUpTo(rec)
  BY <1>4
<1> HIDE DEF extra
<1> QED
  BY <1>1, <1>3, <1>5, TornKeeps

LEMMA WriterKeepsTorn ==
  ASSUME WInv, TornBehind, PackNext
  PROVE  TornBehind'
<1>1. rec \in Nat
  BY DEF WInv, Source
<1>2. ASSUME written' = written, src' = src, rec' = rec
      PROVE  TornBehind'
  BY <1>2 DEF TornBehind, Fresh, FairUpTo, Miscounted
<1>3. CASE PackHeader
  <2>1. PICK m \in Messages :
          written' = {[Plain(0, 12, "header") EXCEPT !.counts = SectionCounts(m)]}
    BY <1>3 DEF PackHeader
  <2>2. \A w \in written' : w.kind = "header"
    BY <2>1 DEF Plain
  <2> QED
    BY <2>2 DEF TornBehind, Fresh
<1>4. CASE PackQuestion
  <2> DEFINE labels == src.question[1]
             e == NameEndsAt(labels, at, src.compress)
             q == Plain(e, e + 4, "question")
             N == {q}
  <2>1. pk = "question" /\ src \in Messages /\ Len(src.question) = 1
    BY <1>4 DEF PackQuestion, WInv, Source
  <2>2. labels \in Seq(Label) /\ src.compress \in BOOLEAN
    BY <2>1, LensFacts, MessageFacts
  <2>3. q.kind = "question"
    BY DEF Plain
  <2>4. \/ written' = written /\ src' = src /\ rec' = rec
        \/ /\ written' = written \cup NameWritten(labels, at, src.compress) \cup N
           /\ src' = src /\ rec' = rec
    BY <1>4 DEF PackQuestion, Overflow
  <2> HIDE DEF labels, q
  <2>5. \A w \in N : w.kind # "opt"
    BY <2>3
  <2> HIDE DEF N
  <2> QED
    BY <1>2, <2>2, <2>4, <2>5, NamesKeepTorn
<1>5. CASE PackOwner
  <2> DEFINE labels == src.records[rec + 1].owner
  <2>1. pk = "rr" /\ src \in Messages /\ rec < Len(src.records)
    BY <1>5 DEF PackOwner, WInv, Source
  <2>2. labels \in Seq(Label) /\ src.compress \in BOOLEAN
    <3>1. rec + 1 \in 1 .. Len(src.records)
      <4>1. Len(src.records) \in Nat
        BY <2>1, LensFacts
      <4> QED
        BY <1>1, <2>1, <4>1
    <3>2. src.records[rec + 1] \in ToSet(src.records) /\ src.compress \in BOOLEAN
      BY <2>1, <3>1, MessageFacts
    <3> QED
      BY <2>1, <3>2, RecordFacts
  <2>3. \/ written' = written /\ src' = src /\ rec' = rec
        \/ /\ written' = written \cup NameWritten(labels, at, src.compress) \cup {}
           /\ src' = src /\ rec' = rec + 1
    BY <1>5 DEF PackOwner, Overflow
  <2>4. rec + 1 \in {rec, rec + 1}
    OBVIOUS
  <2> HIDE DEF labels
  <2>5. PICK compress \in BOOLEAN, N \in {{}} : compress = src.compress /\ N = {}
    BY <2>2
  <2>6. CASE written' = written /\ src' = src /\ rec' = rec
    BY <1>2, <2>6
  <2>7. CASE /\ written' = written \cup NameWritten(labels, at, src.compress) \cup {}
             /\ src' = src /\ rec' = rec + 1
    <3>1. /\ src' = src /\ rec' \in {rec, rec + 1}
          /\ written' = written \cup NameWritten(labels, at, compress) \cup N
          /\ \A w \in N : w.kind # "opt"
      BY <2>4, <2>5, <2>7
    <3> QED
      BY ONLY WInv, TornBehind, <2>2, <3>1, compress \in BOOLEAN, NamesKeepTorn
  <2> QED
    BY <2>3, <2>6, <2>7
<1>6. CASE PackName
  <2> DEFINE labels == Head(fields)[2]
             compress == src.compress /\ Head(fields)[1] = "cname"
  <2>1. pk = "field" /\ fields # <<>> /\ Head(fields)[1] \in {"name", "cname"}
    BY <1>6 DEF PackName, AtKind
  <2>2. labels \in Seq(Label) /\ compress \in BOOLEAN
    <3>1. Head(fields) \in Entry /\ src.compress \in BOOLEAN
      BY <2>1, HeadFacts
    <3> QED
      BY <2>1, <3>1, EntryCost
  <2>3. \/ written' = written /\ src' = src /\ rec' = rec
        \/ /\ written' = written \cup NameWritten(labels, at, compress) \cup {}
           /\ src' = src /\ rec' = rec
    BY <1>6 DEF PackName, Overflow
  <2> HIDE DEF labels, compress
  <2> QED
    BY <1>2, <2>2, <2>3, NamesKeepTorn
<1>7. CASE PackData
  BY <1>7, DataKeepsTorn
<1>8. CASE PackRdlength
  <2> DEFINE a == OwnerEnd
             b == OwnerEnd + 10
             n == at - (OwnerEnd + 10)
             ty == src.records[rec].type
             fixed == [Plain(a, b, "fixed") EXCEPT !.num = n, !.type = ty]
             whole == Plain(begin, at, "record")
             N == {fixed, whole}
  <2>1. written' = written \cup N /\ src' = src /\ rec' = rec
    BY <1>8 DEF PackRdlength
  <2>2. whole.kind = "record"
    BY DEF Plain
  <2> HIDE DEF a, b, n, ty
  <2>3. fixed.kind = "fixed"
    <3> DEFINE l == <<>>
    <3>1. fixed = [at |-> a, end |-> b, kind |-> "fixed", counts |-> l, labels |-> l, num |-> n,
                   type |-> ty]
      BY FixedIs, ZenonT(30) DEF l
    <3> HIDE DEF l, fixed
    <3> QED
      BY <3>1
  <2> HIDE DEF fixed, whole
  <2>4. \A w \in N : w.kind # "opt"
    BY <2>2, <2>3
  <2> HIDE DEF N
  <2> QED
    BY <1>1, <2>1, <2>4, TornKeeps
<1>9. CASE PackDataFails \/ RdlengthRefused \/ Packed
  BY <1>2, <1>9 DEF PackDataFails, RdlengthRefused, Packed
<1> QED
  BY <1>3, <1>4, <1>5, <1>6, <1>7, <1>8, <1>9 DEF PackNext

(* The buffer, as long as the len functions count, holds what the pack     *)
(* functions write (msg.go:914), with or without compression: Pack fails   *)
(* for want of room, panics or cuts an option (msg_helpers.go:478-497)     *)
(* only in or behind a bitmap for which too little is counted.             *)
THEOREM BufferHolds == Spec => []PackFits
<1>1. Init => TornBehind
  BY DEF Init, PackInit, TornBehind, Fresh
<1>2. WInv /\ TornBehind /\ [Next]_<<packVars, unpackVars>> => TornBehind'
  <2> SUFFICES ASSUME WInv, TornBehind, [Next]_<<packVars, unpackVars>>
               PROVE  TornBehind'
    OBVIOUS
  <2>1. PackNext \/ UNCHANGED packVars
    BY WireSteps
  <2>2. UNCHANGED packVars => TornBehind'
    BY DEF TornBehind, Fresh, FairUpTo, Miscounted, packVars
  <2> QED
    BY <2>1, <2>2, WriterKeepsTorn
<1>3. WInv /\ TornBehind => PackFits
  BY DEF WInv, Overrun, TornBehind, FairUpTo, PackFits
<1> QED
  BY <1>1, <1>2, <1>3, WriterInvariant, PTL DEF Spec

-----------------------------------------------------------------------------
(* What is written of a name, again: item by item.                         *)

Class(kind) == IF kind \in NameItems THEN "octets" ELSE kind

LabelItem(labels, o, i) ==
  [Plain(o + 2 * (i - 1), o + 2 * i, "label") EXCEPT !.labels = <<labels[i]>>]

LEMMA ShapeIs ==
  ASSUME NEW w, NEW a, NEW e, NEW k, NEW l, NEW n, Shape(w, a, e, k, l, n)
  PROVE  w.at = a /\ w.end = e /\ w.kind = k /\ w.labels = l /\ w.num = n
  BY DEF Shape

LEMMA NameShapes ==
  ASSUME Laid, Pointable, NEW labels \in Seq(Label), NEW o \in Nat, NEW compress \in BOOLEAN
  PROVE  LET p  == Pointed(labels, compress)
             e  == NameEndsAt(labels, o, compress)
             ws == NameWritten(labels, o, compress)
         IN  /\ \A i \in 1 .. p - 1 :
                  /\ LabelItem(labels, o, i) \in ws
                  /\ Shape(LabelItem(labels, o, i), o + 2 * (i - 1), o + 2 * i, "label",
                           <<labels[i]>>, 0)
             /\ LastItem(labels, o, p) \in ws
             /\ LastItem(labels, o, p).at = o + 2 * (p - 1)
             /\ LastItem(labels, o, p).end = e
             /\ p <= Len(labels) =>
                  /\ LastItem(labels, o, p).kind = "pointer"
                  /\ LastItem(labels, o, p).num = compression[Suffix(labels, p)]
                  /\ e = o + 2 * (p - 1) + 2
             /\ ~(p <= Len(labels)) =>
                  LastItem(labels, o, p).kind = "root" /\ e = o + 2 * (p - 1) + 1
             /\ NameItem(labels, o, compress) \in ws
             /\ NameItem(labels, o, compress).at = o
             /\ NameItem(labels, o, compress).end = e
             /\ NameItem(labels, o, compress).kind = "name"
             /\ NameItem(labels, o, compress).labels = labels
             /\ \A w \in ws : \/ w = NameItem(labels, o, compress)
                              \/ w = LastItem(labels, o, p)
                              \/ \E i \in 1 .. p - 1 : w = LabelItem(labels, o, i)
<1> DEFINE p == Pointed(labels, compress)
           n == Len(labels)
           e == NameEndsAt(labels, o, compress)
           ws == NameWritten(labels, o, compress)
           to == compression[Suffix(labels, p)]
<1>1. p \in 1 .. n + 1 /\ n \in Nat
  BY PointedFacts
<1>2. e = o + 2 * (p - 1) + IF p <= n THEN 2 ELSE 1
  BY DEF NameEndsAt
<1>3. ws = LabelItems(labels, o, p) \cup {LastItem(labels, o, p)} \cup {NameItem(labels, o, compress)}
  BY NameWrittenParts
<1>4. LabelItems(labels, o, p) = {LabelItem(labels, o, i) : i \in 1 .. p - 1}
  BY Zenon DEF LabelItems, LabelItem
<1>5. \A i \in 1 .. p - 1 : Shape(LabelItem(labels, o, i), o + 2 * (i - 1), o + 2 * i, "label",
                                 <<labels[i]>>, 0)
  BY PlainIs DEF LabelItem
<1> HIDE DEF p, n, e, ws, to
<1>6. LastItem(labels, o, p) = IF p <= n THEN [Plain(o + 2 * (p - 1), o + 2 * (p - 1) + 2, "pointer")
                                               EXCEPT !.num = to]
                               ELSE Plain(o + 2 * (p - 1), o + 2 * (p - 1) + 1, "root")
  BY DEF LastItem, n, to
<1>7. /\ LastItem(labels, o, p).at = o + 2 * (p - 1) /\ LastItem(labels, o, p).end = e
      /\ p <= n => LastItem(labels, o, p).kind = "pointer" /\ LastItem(labels, o, p).num = to
      /\ ~(p <= n) => LastItem(labels, o, p).kind = "root"
  <2> DEFINE a == o + 2 * (p - 1)
             b == o + 2 * (p - 1) + 2
             c == o + 2 * (p - 1) + 1
             w == [Plain(a, b, "pointer") EXCEPT !.num = to]
             v == Plain(a, c, "root")
             l == <<>>
  <2>1. Shape(w, a, b, "pointer", l, to) /\ Shape(v, a, c, "root", l, 0)
    BY PlainIs
  <2>2. LastItem(labels, o, p) = IF p <= n THEN w ELSE v
    BY <1>6
  <2>3. e = IF p <= n THEN b ELSE c
    BY <1>1, <1>2
  <2> HIDE DEF a, b, c, v, w, l
  <2>4. /\ w.at = a /\ w.end = b /\ w.kind = "pointer" /\ w.num = to
        /\ v.at = a /\ v.end = c /\ v.kind = "root"
    BY <2>1, ShapeIs
  <2> QED
    BY <2>2, <2>3, <2>4 DEF a
<1>8. /\ NameItem(labels, o, compress).at = o /\ NameItem(labels, o, compress).end = e
      /\ NameItem(labels, o, compress).kind = "name" /\ NameItem(labels, o, compress).labels = labels
  <2> DEFINE k == IF p <= n THEN 1 + Depth(to) ELSE 0
             w == NameItem(labels, o, compress)
  <2>1. w = [Plain(o, e, "name") EXCEPT !.labels = labels, !.num = k]
    BY DEF NameItem, e, n, to, p
  <2> HIDE DEF k, w
  <2>2. Shape([Plain(o, e, "name") EXCEPT !.labels = labels, !.num = k], o, e, "name", labels, k)
    BY PlainIs
  <2>3. Shape(w, o, e, "name", labels, k)
    BY <2>1, <2>2, Zenon
  <2>4. w.at = o /\ w.end = e /\ w.kind = "name" /\ w.labels = labels
    BY <2>3, ShapeIs
  <2> QED
    BY <2>4 DEF w
<1>9. /\ \A i \in 1 .. p - 1 : LabelItem(labels, o, i) \in ws
      /\ LastItem(labels, o, p) \in ws /\ NameItem(labels, o, compress) \in ws
      /\ \A w \in ws : \/ w = NameItem(labels, o, compress) \/ w = LastItem(labels, o, p)
                       \/ \E i \in 1 .. p - 1 : w = LabelItem(labels, o, i)
  BY <1>3, <1>4
<1> QED
  BY <1>1, <1>2, <1>5, <1>7, <1>8, <1>9 DEF p, n, e, ws, to

LEMMA NameItemIs ==
  ASSUME Laid, Pointable, NEW labels \in Seq(Label), NEW o \in Nat, NEW compress \in BOOLEAN
  PROVE  /\ NameItem(labels, o, compress) \in NameWritten(labels, o, compress)
         /\ NameItem(labels, o, compress).at = o
         /\ NameItem(labels, o, compress).end = NameEndsAt(labels, o, compress)
         /\ NameItem(labels, o, compress).kind = "name"
  BY NameShapes

(* No two of them are of a class and begin at the same offset, and none is *)
(* empty.                                                                  *)
LEMMA NameApart ==
  ASSUME Laid, Pointable, NEW labels \in Seq(Label), NEW o \in Nat, NEW compress \in BOOLEAN
  PROVE  /\ \A v, w \in NameWritten(labels, o, compress) :
              v.at = w.at /\ Class(v.kind) = Class(w.kind) => v = w
         /\ \A w \in NameWritten(labels, o, compress) :
              w.at < w.end /\ o <= w.at /\ w.kind \in NameItems \cup {"name"}
<1> DEFINE p == Pointed(labels, compress)
           n == Len(labels)
           e == NameEndsAt(labels, o, compress)
           ws == NameWritten(labels, o, compress)
           last == LastItem(labels, o, p)
           whole == NameItem(labels, o, compress)
           part(i) == LabelItem(labels, o, i)
<1>1. p \in 1 .. n + 1 /\ n \in Nat /\ e \in Nat /\ o + 2 * (p - 1) < e
  <2>1. p \in 1 .. n + 1 /\ n \in Nat
    BY PointedFacts
  <2>2. e \in Nat /\ o + 2 * (p - 1) < e
    BY NameEndFacts
  <2> QED
    BY <2>1, <2>2
<1>2. /\ \A i \in 1 .. p - 1 : part(i).at = o + 2 * (i - 1) /\ part(i).end = o + 2 * i
                               /\ part(i).kind = "label"
  <2>1. \A i \in 1 .. p - 1 : Shape(part(i), o + 2 * (i - 1), o + 2 * i, "label", <<labels[i]>>, 0)
    BY NameShapes
  <2> QED
    BY <2>1 DEF Shape
<1>3. /\ last.at = o + 2 * (p - 1) /\ last.end = e /\ last.kind \in {"pointer", "root"}
      /\ whole.at = o /\ whole.end = e /\ whole.kind = "name"
      /\ \A w \in ws : w = whole \/ w = last \/ \E i \in 1 .. p - 1 : w = part(i)
  BY NameShapes
<1> HIDE DEF p, n, e, ws, last, whole, part
<1>4. /\ Class("name") = "name" /\ Class("label") = "octets" /\ Class(last.kind) = "octets"
  BY <1>3 DEF Class, NameItems
<1>5. \A w \in ws : w.at < w.end /\ o <= w.at /\ w.kind \in NameItems \cup {"name"}
  BY <1>1, <1>2, <1>3 DEF NameItems
<1>6. ASSUME NEW v \in ws, NEW w \in ws, v.at = w.at, Class(v.kind) = Class(w.kind)
      PROVE  v = w
  <2>1. CASE v = whole
    BY <1>2, <1>3, <1>4, <1>6, <2>1
  <2>2. CASE v = last
    BY <1>1, <1>2, <1>3, <1>4, <1>6, <2>2
  <2>3. CASE \E i \in 1 .. p - 1 : v = part(i)
    BY <1>1, <1>2, <1>3, <1>4, <1>6, <2>3
  <2> QED
    BY <1>3, <2>1, <2>2, <2>3
<1> QED
  BY <1>5, <1>6 DEF ws

-----------------------------------------------------------------------------
(* Where in the message the items lie: what is not part of another item is *)
(* apart from it, and whatever begins does so where something else ended.  *)

Active == pk \in {"question", "rr", "field", "packed"}

Whole(kind) == kind \notin NameItems \cup {"record"}

Abreast(v, w) == v.end <= w.at \/ w.end <= v.at

(* What the reader may refuse though it came whole.                        *)
Judged == {"name", "opt"}

InOrder ==
  /\ 12 <= at
  /\ \A w \in written : /\ w.kind # "header" => 12 <= w.at
                        /\ w.kind = "fixed" => w.end = w.at + 10
  /\ \A n, w \in written : n.kind \in Judged /\ Whole(w.kind) /\ n # w => Abreast(n, w)

Separate ==
  /\ \A r, s \in Fresh({"record"}) : r # s => Abreast(r, s)
  /\ \A q \in Fresh({"question"}), r \in Fresh({"record"}) : q.end <= r.at

(* The record that is being written: before it is all that came before,    *)
(* and no name where its fixed part will be.                               *)
Begun ==
  pk = "field" =>
    /\ 12 <= begin
    /\ \A w \in Fresh({"question", "record"}) : w.end <= begin
    /\ \A o \in Names(begin), n \in Fresh(Judged) : n.end <= o.end \/ o.end + 10 <= n.at

Questioned ==
  IF pk = "question" \/ src.question = <<>> THEN Fresh({"question"}) = {}
  ELSE \E q \in written, n \in Names(12) :
         Fresh({"question"}) = {q} /\ q.at = n.end /\ q.end = n.end + 4

Numbered ==
  /\ IsFiniteSet(Fresh({"record"}))
  /\ Cardinality(Fresh({"record"})) = IF pk = "field" THEN rec - 1 ELSE rec
  /\ pk = "packed" => rec = Len(src.records)

Behind(o) == o = 12 \/ \E w \in Fresh({"question", "record"}) : w.end = o

Linked ==
  pk # "question" => /\ Behind(IF pk = "field" THEN begin ELSE at)
                     /\ \A r \in Fresh({"record"}) : Behind(r.at)

Placed == InOrder /\ Separate /\ Begun /\ Questioned /\ Numbered /\ Linked

PInv == Active => Placed

LEMMA Bounded ==
  ASSUME WInv
  PROVE  /\ at \in Nat /\ rec \in Nat /\ begin \in Nat
         /\ \A w \in written : w.at \in Nat /\ w.end \in Nat /\ w.at <= w.end /\ w.end <= at
  BY DEF WInv, Source, Laid, Item

(* Items written behind all others.                                        *)
LEMMA OrderGrows ==
  ASSUME WInv, InOrder, at' \in Nat, at <= at', NEW N, written' = written \cup N,
         \A w \in N : /\ w.at \in Nat /\ w.end \in Nat /\ at <= w.at
                      /\ w.kind # "fixed",
         \A n, w \in N : n.kind \in Judged /\ Whole(w.kind) /\ n # w => Abreast(n, w)
  PROVE  InOrder'
<1>1. /\ at \in Nat /\ \A w \in written : w.at \in Nat /\ w.end \in Nat /\ w.end <= at
  BY Bounded
<1>2. 12 <= at'
  BY <1>1 DEF InOrder
<1>3. \A w \in written' : /\ w.kind # "header" => 12 <= w.at
                          /\ w.kind = "fixed" => w.end = w.at + 10
  BY <1>1 DEF InOrder
<1>4. ASSUME NEW n \in written', NEW w \in written', n.kind \in Judged, Whole(w.kind), n # w
      PROVE  Abreast(n, w)
  <2>1. CASE n \in written /\ w \in written
    BY <1>4, <2>1 DEF InOrder
  <2>2. CASE n \in written /\ w \in N
    BY <1>1, <2>2 DEF Abreast
  <2>3. CASE n \in N /\ w \in written
    BY <1>1, <2>3 DEF Abreast
  <2>4. CASE n \in N /\ w \in N
    BY <1>4, <2>4
  <2> QED
    BY <2>1, <2>2, <2>3, <2>4
<1> QED
  BY <1>2, <1>3, <1>4 DEF InOrder

(* Where no question and no record is written, those there stay.           *)
LEMMA FreshStays ==
  ASSUME NEW N, written' = written \cup N, NEW kinds, \A w \in N : w.kind \notin kinds
  PROVE  Fresh(kinds)' = Fresh(kinds)
  BY DEF Fresh

(* What is written of a name is apart from all others.                     *)
LEMMA NameIsPlaced ==
  ASSUME WInv, InOrder, NEW labels \in Seq(Label), NEW compress \in BOOLEAN,
         at' \in Nat, NameEndsAt(labels, at, compress) <= at',
         written' = written \cup NameWritten(labels, at, compress)
  PROVE  /\ InOrder' /\ at <= at'
         /\ \A kinds \in SUBSET {"question", "record"} : Fresh(kinds)' = Fresh(kinds)
         /\ \A w \in written' : w.kind \in Judged =>
              w \in written \/ (w.at = at /\ w.end = NameEndsAt(labels, at, compress))
<1> DEFINE e == NameEndsAt(labels, at, compress)
           ws == NameWritten(labels, at, compress)
<1>1. at \in Nat /\ Laid /\ Pointable
  BY DEF WInv, Source
<1>2. /\ ws \subseteq Item
      /\ \A w \in ws : /\ at <= w.at /\ w.end <= e
                       /\ w.kind = "name" => w.at = at /\ w.end = e
                       /\ w.kind \in {"label", "pointer", "root", "name"}
  BY <1>1, NameWrittenFacts
<1>3. e \in Nat /\ at + 2 * (Pointed(labels, compress) - 1) < e
  BY <1>1, NameEndFacts
<1>4. Pointed(labels, compress) \in 1 .. Len(labels) + 1 /\ Len(labels) \in Nat
  BY PointedFacts
<1>5. at < e
  <2> HIDE DEF e
  <2> QED
    BY <1>1, <1>3, <1>4
<1>6. \A v, w \in ws : v.kind = "name" /\ w.kind = "name" => v = w
  <2>1. \A v, w \in ws : v.at = w.at /\ Class(v.kind) = Class(w.kind) => v = w
    BY <1>1, NameApart
  <2> QED
    BY <1>2, <2>1
<1>7. \A w \in Item : w.at \in Nat /\ w.end \in Nat
  BY DEF Item
<1> HIDE DEF e, ws
<1>8. at <= at' /\ written' = written \cup ws
  BY <1>1, <1>3, <1>5 DEF e, ws
<1>9. InOrder'
  <2>1. \A w \in ws : /\ w.at \in Nat /\ w.end \in Nat /\ at <= w.at
                      /\ w.kind # "fixed"
    BY <1>2, <1>7
  <2>2. \A n, w \in ws : n.kind \in Judged /\ Whole(w.kind) /\ n # w => Abreast(n, w)
    BY <1>2, <1>6 DEF Whole, NameItems, Judged
  <2> QED
    BY <1>8, <2>1, <2>2, OrderGrows
<1>10. \A kinds \in SUBSET {"question", "record"} : Fresh(kinds)' = Fresh(kinds)
  <2> TAKE kinds \in SUBSET {"question", "record"}
  <2>1. \A w \in ws : w.kind \notin kinds
    BY <1>2
  <2> QED
    BY <1>8, <2>1, FreshStays
<1>11. \A w \in written' : w.kind \in Judged => w \in written \/ (w.at = at /\ w.end = e)
  <2>1. \A w \in ws : w.kind \in Judged => w.at = at /\ w.end = e
    BY <1>2 DEF Judged
  <2> QED
    BY <1>8, <2>1
<1> QED
  BY <1>8, <1>9, <1>10, <1>11 DEF e

LEMMA HeaderIsPlaced ==
  ASSUME WInv, PackHeader
  PROVE  Placed'
<1>1. PICK m \in Messages :
        /\ src' = m /\ at' = 12 /\ pk' = IF m.question = <<>> THEN "rr" ELSE "question"
        /\ written' = {[Plain(0, 12, "header") EXCEPT !.counts = SectionCounts(m)]}
  BY DEF PackHeader
<1>2. rec' = 0
  BY DEF PackHeader, WInv, Source
<1>3. \A w \in written' : w.kind = "header"
  BY <1>1 DEF Plain
<1>4. \A kinds \in SUBSET {"question", "record"} : Fresh(kinds)' = {}
  BY <1>3 DEF Fresh
<1>5. InOrder'
  BY <1>1, <1>3 DEF InOrder, Judged
<1>6. Separate' /\ Begun'
  BY <1>1, <1>4 DEF Separate, Begun
<1>7. Questioned'
  BY <1>1, <1>4 DEF Questioned
<1>8. Numbered'
  <2>1. IsFiniteSet(Fresh({"record"})') /\ Cardinality(Fresh({"record"})') = 0
    BY <1>4, FS_EmptySet
  <2> QED
    BY <1>1, <1>2, <2>1 DEF Numbered
<1>9. Linked'
  BY <1>1, <1>4 DEF Linked, Behind
<1> QED
  BY <1>5, <1>6, <1>7, <1>8, <1>9 DEF Placed

LEMMA QuestionIsPlaced ==
  ASSUME WInv, Placed, PackQuestion, pk' # "overflow"
  PROVE  Placed'
<1> DEFINE labels == src.question[1]
           e == NameEndsAt(labels, at, src.compress)
           q == Plain(e, e + 4, "question")
           ws == NameWritten(labels, at, src.compress)
<1>1. /\ pk = "question" /\ src \in Messages /\ rec = 0 /\ at = 12 /\ Len(src.question) = 1
      /\ Laid /\ Pointable
  BY DEF PackQuestion, WInv, Source, Budget
<1>2. labels \in Seq(Label) /\ src.compress \in BOOLEAN
  BY <1>1, LensFacts, MessageFacts
<1>3. /\ at' = e + 4 /\ pk' = "rr" /\ rec' = rec /\ src' = src
      /\ written' = written \cup ws \cup {q}
  BY DEF PackQuestion, Overflow
<1>4. q.at = e /\ q.end = e + 4 /\ q.kind = "question"
  BY DEF Plain
<1>5. /\ e \in Nat /\ at < e
  <2>1. e \in Nat /\ at + 2 * (Pointed(labels, src.compress) - 1) < e
    BY <1>1, <1>2, NameEndFacts
  <2>2. Pointed(labels, src.compress) \in 1 .. Len(labels) + 1 /\ Len(labels) \in Nat
    BY <1>2, PointedFacts
  <2> HIDE DEF e
  <2> QED
    BY <1>1, <2>1, <2>2
<1>6. /\ ws \subseteq Item
      /\ \A w \in ws : /\ at <= w.at /\ w.end <= e
                       /\ w.kind = "name" => w.at = at /\ w.end = e
                       /\ w.kind \in {"label", "pointer", "root", "name"}
      /\ \E w \in ws : w.kind = "name"
  BY <1>1, <1>2, NameWrittenFacts
<1>7. \A v, w \in ws : v.kind = "name" /\ w.kind = "name" => v = w
  <2>1. \A v, w \in ws : v.at = w.at /\ Class(v.kind) = Class(w.kind) => v = w
    BY <1>1, <1>2, NameApart
  <2> QED
    BY <1>6, <2>1
<1>8. \A w \in Item : w.at \in Nat /\ w.end \in Nat
  BY DEF Item
<1>9. Fresh({"question"}) = {} /\ Fresh({"record"}) = {}
  <2>1. Fresh({"question"}) = {}
    BY <1>1 DEF Placed, Questioned
  <2>2. IsFiniteSet(Fresh({"record"})) /\ Cardinality(Fresh({"record"})) = 0
    BY <1>1 DEF Placed, Numbered
  <2> QED
    BY <2>1, <2>2, FS_EmptySet
<1> HIDE DEF e, q, ws, labels
<1>10. Fresh({"question"})' = {q} /\ Fresh({"record"})' = {}
  <2>1. \A w \in written : w.kind \notin {"question", "record"}
    BY <1>9 DEF Fresh
  <2> QED
    BY <1>3, <1>4, <1>6, <2>1 DEF Fresh
<1>11. InOrder'
  <2> DEFINE N == ws \cup {q}
  <2>1. written' = written \cup N /\ at' \in Nat /\ at <= at'
    BY <1>1, <1>3, <1>5
  <2>2. \A w \in N : /\ w.at \in Nat /\ w.end \in Nat /\ at <= w.at
                      /\ w.kind # "fixed"
    BY <1>1, <1>4, <1>5, <1>6, <1>8
  <2>3. \A n, w \in N : n.kind \in Judged /\ Whole(w.kind) /\ n # w => Abreast(n, w)
    <3> TAKE n, w \in N
    <3> HAVE n.kind \in Judged /\ Whole(w.kind) /\ n # w
    <3>1. n \in ws /\ n.kind = "name"
      BY <1>4, <1>6 DEF Judged
    <3>2. CASE w \in ws
      BY <1>6, <1>7, <3>1, <3>2 DEF Whole, NameItems
    <3>3. CASE w = q
      BY <1>4, <1>6, <3>1, <3>3 DEF Abreast
    <3> QED
      BY <3>2, <3>3
  <2> HIDE DEF N
  <2> QED
    BY <2>1, <2>2, <2>3, OrderGrows DEF Placed
<1>12. Separate' /\ Begun'
  BY <1>3, <1>10 DEF Separate, Begun
<1>13. Questioned'
  <2>1. PICK n \in ws : n.kind = "name" /\ n.at = at /\ n.end = e
    BY <1>6
  <2>2. n \in Names(12)' /\ q \in written'
    BY <1>1, <1>3, <2>1 DEF Names
  <2>3. src'.question # <<>>
    <3>1. Len(src.question) # 0
      BY <1>1
    <3> QED
      BY <1>3, <3>1
  <2> QED
    BY <1>3, <1>4, <1>10, <2>1, <2>2, <2>3 DEF Questioned
<1>14. Numbered'
  <2>1. IsFiniteSet(Fresh({"record"})') /\ Cardinality(Fresh({"record"})') = 0
    BY <1>10, FS_EmptySet
  <2> QED
    BY <1>1, <1>3, <2>1 DEF Numbered
<1>15. Linked'
  <2>1. q \in written'
    BY <1>3
  <2> QED
    BY <1>3, <1>4, <1>10, <2>1 DEF Linked, Behind, Fresh
<1> QED
  BY <1>11, <1>12, <1>13, <1>14, <1>15 DEF Placed

LEMMA OwnerIsPlaced ==
  ASSUME WInv, Placed, PackOwner, pk' # "overflow"
  PROVE  Placed'
<1> DEFINE rr == src.records[rec + 1]
           e == NameEndsAt(rr.owner, at, src.compress)
<1>1. /\ pk = "rr" /\ src \in Messages /\ rec \in Nat /\ rec < Len(src.records)
      /\ at \in Nat /\ Laid
  BY DEF PackOwner, WInv, Source
<1>2. rr.owner \in Seq(Label) /\ src.compress \in BOOLEAN
  <2>1. Len(src.records) \in Nat
    BY <1>1, LensFacts
  <2>2. rec + 1 \in 1 .. Len(src.records)
    BY <1>1, <2>1
  <2>3. rr \in ToSet(src.records) /\ src.compress \in BOOLEAN
    BY <1>1, <2>2, MessageFacts
  <2> QED
    BY <1>1, <2>3, RecordFacts
<1>3. /\ at' = e + 10 /\ begin' = at /\ rec' = rec + 1 /\ pk' = "field" /\ src' = src
      /\ written' = written \cup NameWritten(rr.owner, at, src.compress)
  BY DEF PackOwner, Overflow
<1>4. e \in Nat
  BY <1>1, <1>2, NameEndFacts
<1>5. /\ InOrder' /\ Fresh({"question"})' = Fresh({"question"})
      /\ Fresh({"record"})' = Fresh({"record"})
      /\ Fresh({"question", "record"})' = Fresh({"question", "record"})
      /\ \A w \in written' : w.kind \in Judged => w \in written \/ (w.at = at /\ w.end = e)
  <2> DEFINE labels == rr.owner
  <2> HIDE DEF labels
  <2>1. /\ labels \in Seq(Label) /\ e = NameEndsAt(labels, at, src.compress)
        /\ written' = written \cup NameWritten(labels, at, src.compress)
        /\ at' \in Nat /\ e <= at'
    BY <1>2, <1>3, <1>4 DEF labels
  <2> HIDE DEF e
  <2>2. /\ InOrder' /\ at <= at'
        /\ \A kinds \in SUBSET {"question", "record"} : Fresh(kinds)' = Fresh(kinds)
        /\ \A w \in written' : w.kind \in Judged => w \in written \/ (w.at = at /\ w.end = e)
    BY <1>2, <2>1, NameIsPlaced DEF Placed
  <2> QED
    BY <2>2
<1> HIDE DEF rr, e
<1>6. Separate'
  BY <1>5 DEF Placed, Separate
<1>7. \A w \in written : w.at \in Nat /\ w.end \in Nat /\ w.at <= w.end /\ w.end <= at
  BY Bounded
<1>8. Begun'
  <2>1. 12 <= at
    BY DEF Placed, InOrder
  <2>2. \A w \in Fresh({"question", "record"})' : w.end <= at
    BY <1>5, <1>7 DEF Fresh
  <2>3. ASSUME NEW o \in Names(begin)'
        PROVE  o.end = e
    <3>1. o \in written' /\ o.kind = "name" /\ o.at = at
      BY <1>3 DEF Names
    <3>2. o \notin written
      <4>1. o \in written => o.at < o.end
        BY <1>1, <3>1 DEF Laid
      <4> QED
        BY <1>1, <1>7, <3>1, <4>1
    <3> QED
      BY <1>5, <3>1, <3>2 DEF Judged
  <2>4. ASSUME NEW o \in Names(begin)', NEW n \in Fresh(Judged)'
        PROVE  n.end <= o.end
    <3>1. n \in written' /\ n.kind \in Judged
      BY DEF Fresh
    <3>2. o \in written' /\ o.at = at /\ o.at <= o.end /\ o.end = e
      <4>1. o \in written' /\ o.at = at
        BY <1>3 DEF Names
      <4>2. Laid'
        BY WriterKeeps DEF WInv, PackNext
      <4>3. o.at <= o.end
        BY <4>1, <4>2 DEF Laid, Item
      <4> QED
        BY <2>3, <4>1, <4>3
    <3>3. n \in written \/ n.end = e
      BY <1>5, <3>1
    <3> QED
      BY <1>1, <1>4, <1>7, <3>2, <3>3
  <2> QED
    BY <1>3, <2>1, <2>2, <2>4 DEF Begun
<1>9. Questioned'
  <2>1. Names(12) \subseteq Names(12)' /\ written \subseteq written'
    BY <1>3 DEF Names
  <2> QED
    BY <1>1, <1>3, <1>5, <2>1 DEF Placed, Questioned
<1>10. Numbered'
  BY <1>1, <1>3, <1>5 DEF Placed, Numbered
<1>11. Linked'
  BY <1>1, <1>3, <1>5 DEF Placed, Linked, Behind
<1> QED
  BY <1>5, <1>6, <1>8, <1>9, <1>10, <1>11 DEF Placed

(* A field of the record being written.                                    *)
LEMMA FieldIsPlaced ==
  ASSUME WInv, Placed, pk = "field", UNCHANGED <<src, pk, rec, begin>>,
         written \subseteq written', InOrder',
         Fresh({"question"})' = Fresh({"question"}),
         Fresh({"record"})' = Fresh({"record"}),
         Fresh({"question", "record"})' = Fresh({"question", "record"}),
         \A w \in written' : w.at \in Nat /\ (w.kind \in Judged => w \in written \/ at <= w.at)
  PROVE  Placed'
<1>1. /\ at \in Nat /\ begin \in Nat /\ Names(begin) # {}
      /\ \A w \in Names(begin) : w.at < w.end /\ w.end + 10 <= at
  BY DEF WInv, Source, Laid, Names
<1>2. \A w \in written : w.at \in Nat /\ w.end \in Nat /\ w.at <= w.end /\ w.end <= at
  BY Bounded
<1>3. Names(begin)' = Names(begin)
  <2>1. begin < at
    <3>1. PICK w \in Names(begin) : w.at < w.end /\ w.end + 10 <= at
      BY <1>1
    <3>2. w.at = begin /\ w \in written
      BY DEF Names
    <3> QED
      BY <1>1, <1>2, <3>1, <3>2
  <2>2. \A w \in written' : w.kind = "name" /\ w.at = begin => w \in written
    BY <1>1, <2>1 DEF Judged
  <2> QED
    BY <2>2 DEF Names
<1>4. Begun'
  <2>1. ASSUME NEW o \in Names(begin), NEW n \in Fresh(Judged)'
        PROVE  n.end <= o.end \/ o.end + 10 <= n.at
    <3>1. n \in written' /\ n.kind \in Judged
      BY DEF Fresh
    <3>2. CASE n \in written
      BY <3>1, <3>2 DEF Placed, Begun, Fresh
    <3>3. CASE at <= n.at
      <4>1. o.end + 10 <= at /\ o.end \in Nat
        BY <1>1, <1>2 DEF Names
      <4>2. n.at \in Nat
        BY <3>1
      <4> QED
        BY <1>1, <3>3, <4>1, <4>2
    <3> QED
      BY <3>1, <3>2, <3>3
  <2> QED
    BY <1>3, <2>1 DEF Placed, Begun
<1>5. Separate'
  BY DEF Placed, Separate
<1>6. Questioned'
  <2>1. Names(12) \subseteq Names(12)'
    BY DEF Names
  <2> QED
    BY <2>1 DEF Placed, Questioned
<1>7. Numbered'
  BY DEF Placed, Numbered
<1>8. Linked'
  BY DEF Placed, Linked, Behind
<1> QED
  BY <1>4, <1>5, <1>6, <1>7, <1>8 DEF Placed

LEMMA NameFieldIsPlaced ==
  ASSUME WInv, Placed, PackName, pk' # "overflow"
  PROVE  Placed'
<1> DEFINE labels == Head(fields)[2]
           compress == src.compress /\ Head(fields)[1] = "cname"
           e == NameEndsAt(labels, at, compress)
<1>1. /\ pk = "field" /\ fields # <<>> /\ Head(fields)[1] \in {"name", "cname"}
      /\ at \in Nat
  BY DEF PackName, AtKind, WInv, Source
<1>2. labels \in Seq(Label) /\ compress \in BOOLEAN
  <2>1. Head(fields) \in Entry /\ src.compress \in BOOLEAN
    BY <1>1, HeadFacts
  <2> QED
    BY <1>1, <2>1, EntryCost
<1>3. /\ at' = e /\ UNCHANGED <<src, pk, rec, begin>>
      /\ written' = written \cup NameWritten(labels, at, compress)
  BY DEF PackName, Overflow
<1> HIDE DEF labels, compress
<1>4. e \in Nat
  BY <1>1, <1>2, NameEndFacts
<1>5. /\ InOrder' /\ at <= at'
      /\ \A kinds \in SUBSET {"question", "record"} : Fresh(kinds)' = Fresh(kinds)
      /\ \A w \in written' : w.kind \in Judged => w \in written \/ (w.at = at /\ w.end = e)
  <2>1. at' \in Nat /\ e <= at'
    BY <1>3, <1>4
  <2> QED
    BY <1>2, <1>3, <2>1, NameIsPlaced DEF Placed
<1>6. \A w \in written' : w.at \in Nat /\ (w.kind \in Judged => w \in written \/ at <= w.at)
  <2>1. Laid'
    BY WriterKeeps DEF WInv, PackNext
  <2>2. \A w \in written' : w.at \in Nat
    BY <2>1 DEF Laid, Item
  <2> QED
    BY <1>1, <1>5, <2>2
<1>7. written \subseteq written'
  BY <1>3
<1> QED
  BY <1>1, <1>3, <1>5, <1>6, <1>7, FieldIsPlaced

LEMMA SumsGrow ==
  ASSUME NEW s \in Seq(Nat), NEW i \in 0 .. Len(s), NEW j \in 0 .. Len(s), i <= j
  PROVE  Sum(SubSeq(s, 1, i)) <= Sum(SubSeq(s, 1, j))
<1> DEFINE t == SubSeq(s, 1, j)
           u == SubSeq(t, 1, i)
           r == SubSeq(s, 1, i)
<1>1. t \in Seq(Nat) /\ Len(t) = j /\ \A k \in 1 .. j : t[k] = s[k]
  OBVIOUS
<1>2. r \in Seq(Nat) /\ Len(r) = i /\ \A k \in 1 .. i : r[k] = s[k]
  OBVIOUS
<1> HIDE DEF t, r
<1>3. i \in 0 .. Len(t)
  BY <1>1
<1>4. u \in Seq(Nat) /\ Len(u) = i /\ \A k \in 1 .. i : u[k] = t[k]
  BY <1>1, <1>3
<1>5. Sum(u) <= Sum(t)
  BY <1>1, <1>3, SumUpTo
<1> HIDE DEF u
<1>6. \A k \in 1 .. i : u[k] = r[k]
  <2> TAKE k \in 1 .. i
  <2>1. k \in 1 .. j
    OBVIOUS
  <2> QED
    BY <1>1, <1>2, <1>4, <2>1
<1>7. u = r
  <2>1. i \in Nat
    OBVIOUS
  <2> QED
    BY <1>2, <1>4, <1>6, <2>1, SeqEqual
<1> QED
  BY <1>5, <1>7 DEF t, r

LEMMA DataIsPlaced ==
  ASSUME WInv, Placed, PackData
  PROVE  Placed'
<1> DEFINE kind == Head(fields)[1]
           v == Cut(kind, Head(fields)[2])
           s == Pieces(kind, v)
           a(i) == DataItem(kind, v, at, i)
           extra == {a(i) : i \in 1 .. Len(s)}
<1>1. AtData /\ pk = "field" /\ at \in Nat
  BY DEF PackData, AtData, WInv, Source
<1>2. kind \in NotNames /\ s \in Seq(Nat) /\ Sum(s) \in Nat
  BY <1>1, DataHere
<1>3. /\ written' = written \cup extra /\ UNCHANGED <<src, pk, rec, begin>>
      /\ at' = at + Sum(SubSeq(s, 1, Len(s)))
  BY DEF PackData, DataItem
<1>4. kind \notin {"name", "question", "record", "fixed", "header"} \cup NameItems
  BY <1>2, SizeFacts DEF NotNames, PackKind, NameItems
<1>5. Laid' /\ at' \in Nat
  <2>1. WInv'
    BY WriterKeeps DEF PackNext
  <2> QED
    BY <2>1 DEF WInv, Source
<1>6. at' = at + Sum(s)
  <2> HIDE DEF s
  <2> QED
    BY <1>2, <1>3, SumWhole
<1> DEFINE sum(i) == Sum(SubSeq(s, 1, i))
<1>7. \A i \in 1 .. Len(s) : a(i).kind = kind /\ a(i).at = at + sum(i - 1) /\ a(i).end = at + sum(i)
  BY DataItemIs
<1> HIDE DEF a, extra, s, kind, v
<1>8. /\ \A i \in 0 .. Len(s) : sum(i) \in Nat
      /\ \A i, j \in 0 .. Len(s) : i <= j => sum(i) <= sum(j)
  BY <1>2, SumUpTo, SumsGrow
<1> HIDE DEF sum
<1>9. \A i \in 1 .. Len(s) : /\ i \in 0 .. Len(s) /\ i - 1 \in 0 .. Len(s)
                             /\ sum(i) \in Nat /\ sum(i - 1) \in Nat
  <2> TAKE i \in 1 .. Len(s)
  <2>1. Len(s) \in Nat
    BY <1>2
  <2>2. i \in 0 .. Len(s) /\ i - 1 \in 0 .. Len(s)
    BY <2>1
  <2> QED
    BY <1>8, <2>2
<1>10. \A w \in extra : \E i \in 1 .. Len(s) : w = a(i)
  BY DEF extra
<1>11. \A w \in extra : w.at \in Nat /\ w.end \in Nat /\ at <= w.at /\ w.kind = kind
  <2> TAKE w \in extra
  <2>1. PICK i \in 1 .. Len(s) : w = a(i)
    BY <1>10
  <2> QED
    BY <1>1, <1>7, <1>9, <2>1
<1>12. \A v_, w \in extra : v_ # w => Abreast(v_, w)
  <2> SUFFICES ASSUME NEW i \in 1 .. Len(s), NEW j \in 1 .. Len(s), a(i) # a(j)
               PROVE  Abreast(a(i), a(j))
    BY <1>10
  <2>1. Len(s) \in Nat
    BY <1>2
  <2>2. ASSUME NEW k \in 1 .. Len(s), NEW l \in 1 .. Len(s), k < l
        PROVE  a(k).end <= a(l).at
    <3>1. k \in 0 .. Len(s) /\ l - 1 \in 0 .. Len(s) /\ k <= l - 1
      BY <2>1, <2>2
    <3>2. sum(k) <= sum(l - 1) /\ sum(k) \in Nat /\ sum(l - 1) \in Nat
      BY <1>8, <3>1
    <3>3. a(k).end = at + sum(k) /\ a(l).at = at + sum(l - 1)
      BY <1>7
    <3> QED
      BY <1>1, <3>2, <3>3
  <2>3. i < j \/ j < i
    BY <2>1
  <2> QED
    BY <2>2, <2>3 DEF Abreast
<1>13. written \subseteq written' /\ at <= at'
  BY <1>1, <1>2, <1>3, <1>6
<1>14. InOrder'
  <2>1. \A w \in extra : /\ w.at \in Nat /\ w.end \in Nat /\ at <= w.at
                         /\ w.kind # "fixed"
    BY <1>4, <1>11
  <2>2. \A n, w \in extra : n.kind \in Judged /\ Whole(w.kind) /\ n # w => Abreast(n, w)
    BY <1>12
  <2> QED
    BY <1>3, <1>5, <1>13, <2>1, <2>2, OrderGrows DEF Placed
<1>15. /\ Fresh({"question"})' = Fresh({"question"})
       /\ Fresh({"record"})' = Fresh({"record"})
       /\ Fresh({"question", "record"})' = Fresh({"question", "record"})
  <2>1. \A w \in extra : w.kind \notin {"question"} /\ w.kind \notin {"record"}
                         /\ w.kind \notin {"question", "record"}
    BY <1>4, <1>11
  <2> QED
    BY <1>3, <2>1, FreshStays
<1>16. \A w \in written' : w.at \in Nat /\ (w.kind \in Judged => w \in written \/ at <= w.at)
  BY <1>3, <1>5, <1>11 DEF Laid, Item
<1> QED
  BY <1>1, <1>3, <1>13, <1>14, <1>15, <1>16, FieldIsPlaced

LEMMA RdlengthIsPlaced ==
  ASSUME WInv, Placed, PackRdlength
  PROVE  Placed'
<1> DEFINE rr == src.records[rec]
           num == at - (OwnerEnd + 10)
           fixed == [Plain(OwnerEnd, OwnerEnd + 10, "fixed") EXCEPT !.num = num, !.type = rr.type]
           whole == Plain(begin, at, "record")
           e == OwnerEnd
<1>1. /\ pk = "field" /\ pk' = "rr" /\ written' = written \cup {fixed, whole}
      /\ UNCHANGED <<src, at, rec, begin>>
  BY DEF PackRdlength
<1>2. /\ at \in Nat /\ begin \in Nat /\ rec \in Nat /\ rec > 0 /\ Names(begin) # {}
      /\ \A w \in Names(begin) : w.at < w.end /\ w.end + 10 <= at
  BY <1>1 DEF WInv, Source, Laid, Names
<1>3. \A w \in written : w.at \in Nat /\ w.end \in Nat /\ w.at <= w.end /\ w.end <= at
  BY Bounded
<1>4. PICK o \in Names(begin) : e = o.end
  BY <1>2 DEF OwnerEnd, Names
<1>5. e \in Nat /\ begin < e /\ e + 10 <= at /\ 12 <= begin
  <2>1. o \in written /\ o.at = begin
    BY DEF Names
  <2> QED
    BY <1>1, <1>2, <1>3, <1>4, <2>1 DEF Placed, Begun
<1>6. /\ fixed.at = e /\ fixed.end = e + 10 /\ fixed.kind = "fixed"
      /\ whole.at = begin /\ whole.end = at /\ whole.kind = "record"
  <2> DEFINE a == OwnerEnd
             b == OwnerEnd + 10
             t == rr.type
             l == <<>>
  <2> HIDE DEF a, b, t, num
  <2>1. [Plain(a, b, "fixed") EXCEPT !.num = num, !.type = t]
          = [at |-> a, end |-> b, kind |-> "fixed", counts |-> l, labels |-> l, num |-> num,
             type |-> t]
    BY FixedIs, ZenonT(30) DEF l
  <2> DEFINE f == [Plain(a, b, "fixed") EXCEPT !.num = num, !.type = t]
  <2> HIDE DEF l
  <2>2. f.at = a /\ f.end = b /\ f.kind = "fixed"
    BY <2>1
  <2>3. fixed = f
    BY DEF a, b, t
  <2> HIDE DEF f
  <2> QED
    BY <2>2, <2>3 DEF a, b, Plain
<1> HIDE DEF rr, num, fixed, whole, e
<1>7. Fresh({"question"})' = Fresh({"question"})
  BY <1>1, <1>6 DEF Fresh
<1>8. /\ Fresh({"record"})' = Fresh({"record"}) \cup {whole}
      /\ Fresh({"question", "record"})' = Fresh({"question", "record"}) \cup {whole}
  BY <1>1, <1>6 DEF Fresh
<1>9. \A w \in Fresh({"question", "record"}) : w.end <= begin
  BY <1>1 DEF Placed, Begun
<1>10. \A n \in written' : n.kind \in Judged => n \in written /\ Abreast(n, fixed)
  <2> TAKE n \in written'
  <2> HAVE n.kind \in Judged
  <2>1. n \in written /\ n \in Fresh(Judged)
    BY <1>1, <1>6 DEF Fresh, Judged
  <2>2. n.end <= e \/ e + 10 <= n.at
    BY <1>1, <1>4, <2>1 DEF Placed, Begun
  <2> QED
    BY <1>6, <2>1, <2>2 DEF Abreast
<1>11. InOrder'
  <2>1. 12 <= at'
    BY <1>1 DEF Placed, InOrder
  <2>2. \A w \in written' : /\ w.kind # "header" => 12 <= w.at
                            /\ w.kind = "fixed" => w.end = w.at + 10
    <3>1. \A w \in written : /\ w.kind # "header" => 12 <= w.at
                             /\ w.kind = "fixed" => w.end = w.at + 10
      BY DEF Placed, InOrder
    <3> QED
      BY <1>1, <1>2, <1>5, <1>6, <3>1
  <2>3. ASSUME NEW n \in written', NEW w \in written', n.kind \in Judged, Whole(w.kind), n # w
        PROVE  Abreast(n, w)
    <3>1. n \in written /\ Abreast(n, fixed)
      BY <1>10, <2>3
    <3>2. w # whole
      BY <1>6, <2>3 DEF Whole
    <3>3. CASE w \in written
      BY <2>3, <3>1, <3>3 DEF Placed, InOrder
    <3> QED
      BY <1>1, <3>1, <3>2, <3>3
  <2> QED
    BY <2>1, <2>2, <2>3 DEF InOrder
<1>12. Separate'
  <2>1. /\ \A r, s \in Fresh({"record"}) : r # s => Abreast(r, s)
        /\ \A q \in Fresh({"question"}), r \in Fresh({"record"}) : q.end <= r.at
    BY DEF Placed, Separate
  <2>2. \A w \in Fresh({"question"}) \cup Fresh({"record"}) : w.end <= begin
    BY <1>9 DEF Fresh
  <2>3. \A r \in Fresh({"record"}) : Abreast(r, whole) /\ Abreast(whole, r)
    BY <1>6, <2>2 DEF Abreast
  <2>4. \A r, s \in Fresh({"record"})' : r # s => Abreast(r, s)
    BY <1>8, <2>1, <2>3
  <2>5. \A q \in Fresh({"question"})', r \in Fresh({"record"})' : q.end <= r.at
    BY <1>6, <1>7, <1>8, <2>1, <2>2
  <2> QED
    BY <2>4, <2>5 DEF Separate
<1>13. Begun'
  BY <1>1 DEF Begun
<1>14. Questioned'
  <2>1. Names(12) \subseteq Names(12)' /\ written \subseteq written'
    BY <1>1 DEF Names
  <2> QED
    BY <1>1, <1>7, <2>1 DEF Placed, Questioned
<1>15. Numbered'
  <2>1. whole \notin Fresh({"record"})
    <3>1. whole \in Fresh({"record"}) => whole.end <= begin
      BY <1>9 DEF Fresh
    <3> QED
      BY <1>2, <1>5, <1>6, <3>1
  <2>2. /\ IsFiniteSet(Fresh({"record"}))
        /\ Cardinality(Fresh({"record"})) = rec - 1
    BY <1>1 DEF Placed, Numbered
  <2>3. /\ IsFiniteSet(Fresh({"record"}) \cup {whole})
        /\ Cardinality(Fresh({"record"}) \cup {whole}) = Cardinality(Fresh({"record"})) + 1
    BY <2>1, <2>2, FS_AddElement
  <2>4. Cardinality(Fresh({"record"})') = rec
    BY <1>2, <1>8, <2>2, <2>3
  <2> QED
    BY <1>1, <1>8, <2>3, <2>4 DEF Numbered
<1>16. Linked'
  <2>1. Behind(begin) /\ \A r \in Fresh({"record"}) : Behind(r.at)
    BY <1>1 DEF Placed, Linked
  <2>2. \A k : Behind(k) => Behind(k)'
    BY <1>8 DEF Behind
  <2>3. Behind(at)'
    <3>1. whole \in Fresh({"question", "record"})'
      BY <1>8
    <3> QED
      BY <1>1, <1>6, <3>1 DEF Behind
  <2>4. \A r \in Fresh({"record"})' : Behind(r.at)'
    BY <1>6, <1>8, <2>1, <2>2
  <2> QED
    BY <1>1, <2>3, <2>4 DEF Linked
<1> QED
  BY <1>11, <1>12, <1>13, <1>14, <1>15, <1>16 DEF Placed

LEMMA WriterPlaces ==
  ASSUME WInv, PInv, PackNext
  PROVE  PInv'
<1>1. CASE PackHeader
  BY <1>1, HeaderIsPlaced DEF PInv
<1>2. CASE PackQuestion
  <2>1. pk = "question"
    BY <1>2 DEF PackQuestion
  <2> QED
    BY <1>2, <2>1, QuestionIsPlaced DEF PInv, Active
<1>3. CASE PackOwner
  <2>1. pk = "rr"
    BY <1>3 DEF PackOwner
  <2> QED
    BY <1>3, <2>1, OwnerIsPlaced DEF PInv, Active
<1>4. CASE PackName
  <2>1. pk = "field"
    BY <1>4 DEF PackName, AtKind
  <2> QED
    BY <1>4, <2>1, NameFieldIsPlaced DEF PInv, Active
<1>5. CASE PackData
  <2>1. pk = "field"
    BY <1>5 DEF PackData, AtData
  <2> QED
    BY <1>5, <2>1, DataIsPlaced DEF PInv, Active
<1>6. CASE PackRdlength
  <2>1. pk = "field"
    BY <1>6 DEF PackRdlength
  <2> QED
    BY <1>6, <2>1, RdlengthIsPlaced DEF PInv, Active
<1>7. CASE RdlengthRefused
  BY <1>7 DEF RdlengthRefused, PInv, Active
<1>8. CASE Packed
  <2>1. /\ pk = "rr" /\ rec = Len(src.records) /\ pk' = "packed"
        /\ UNCHANGED <<src, room, at, rec, begin, fields, compression, written>>
    BY <1>8 DEF Packed
  <2>2. Placed
    BY <2>1 DEF PInv, Active
  <2> QED
    BY <2>1, <2>2 DEF PInv, Placed, InOrder, Separate, Begun, Questioned, Numbered, Linked, Behind,
                      Fresh, Names
<1>9. CASE PackDataFails
  <2>1. pk' \notin {"question", "rr", "field", "packed"}
    BY <1>9 DEF PackDataFails
  <2> QED
    BY <2>1 DEF PInv, Active
<1> QED
  BY <1>1, <1>2, <1>3, <1>4, <1>5, <1>6, <1>7, <1>8, <1>9 DEF PackNext

LEMMA PlacedStays ==
  ASSUME PInv, UNCHANGED packVars
  PROVE  PInv'
  BY DEF packVars, PInv, Active, Placed, InOrder, Separate, Begun, Questioned, Numbered, Linked,
         Behind, Fresh, Names

-----------------------------------------------------------------------------
(* The message as it has been written, for the reader: what stands where,  *)
(* what the names spell, and which field is behind which.                  *)

(* No two items of a class begin at the same offset, so that what stands   *)
(* there is found; only some may be empty.                                 *)
Unique == \A v, w \in written : v.at = w.at /\ Class(v.kind) = Class(w.kind) => v = w
Filled == \A w \in written : w.kind \notin Hollow => w.at < w.end
Sized  == \A w \in written : w.kind \in DOMAIN Size => w.end = w.at + Size[w.kind]

(* In W stand from offset p on, along d pointers, the labels s; what       *)
(* stands at p itself ends before e, and a pointer leads to what ended     *)
(* before it.                                                              *)
Spelt(W, R, p, s, e, d) ==
  \/ s = <<>> /\ e = p + 1 /\ d = 0 /\ \E w \in W : w.at = p /\ w.kind = "root"
  \/ s # <<>> /\ \E w \in W : /\ w.at = p /\ w.end = p + 2 /\ w.kind = "label"
                              /\ w.labels = <<Head(s)>> /\ <<w.end, Tail(s), e, d>> \in R
  \/ s # <<>> /\ e = p + 2 /\
       \E w \in W : /\ w.at = p /\ w.kind = "pointer"
                    /\ \E f, c \in Nat : f <= p /\ d = c + 1 /\ <<w.num, s, f, c>> \in R

SpellsIn(W, C, R) ==
  /\ R \subseteq Nat \X Seq(Label) \X Nat \X Nat
  /\ \A p, s, e, d : <<p, s, e, d>> \in R => p < e /\ Spelt(W, R, p, s, e, d)
  /\ \A w \in W : w.kind = "name" => <<w.at, w.labels, w.end, w.num>> \in R
  /\ \A s \in DOMAIN C : \E e \in Nat, n \in W :
       /\ n.kind = "name" /\ n.at <= C[s] /\ C[s] < n.end /\ e <= n.end
       /\ <<C[s], s, e, n.num>> \in R

Spells(R) == SpellsIn(written, compression, R)

LEMMA SuffixIs ==
  ASSUME NEW labels \in Seq(Label), NEW i \in 1 .. Len(labels) + 1
  PROVE  /\ Suffix(labels, i) \in Seq(Label) /\ Len(Suffix(labels, i)) = Len(labels) - i + 1
         /\ i <= Len(labels) =>
              /\ Suffix(labels, i) # <<>> /\ Head(Suffix(labels, i)) = labels[i]
              /\ Tail(Suffix(labels, i)) = Suffix(labels, i + 1)
         /\ i = Len(labels) + 1 => Suffix(labels, i) = <<>>
         /\ i = 1 => Suffix(labels, i) = labels
<1> DEFINE n == Len(labels)
           s == Suffix(labels, i)
<1>1. n \in Nat /\ i \in Nat /\ i > 0
  OBVIOUS
<1>2. s \in Seq(Label) /\ Len(s) = n - i + 1 /\ \A j \in 1 .. n - i + 1 : s[j] = labels[i + j - 1]
  BY DEF Suffix
<1>3. ASSUME i <= n
      PROVE  s # <<>> /\ Head(s) = labels[i] /\ Tail(s) = Suffix(labels, i + 1)
  <2>1. s # <<>> /\ Head(s) = s[1] /\ s[1] = labels[i]
    BY <1>1, <1>2, <1>3
  <2>2. Tail(s) = Suffix(labels, i + 1)
    <3> DEFINE t == Suffix(labels, i + 1)
    <3>1. t \in Seq(Label) /\ Len(t) = n - i /\ \A j \in 1 .. n - i : t[j] = labels[i + j]
      BY <1>3 DEF Suffix
    <3> DEFINE u == Tail(s)
    <3>2. u \in Seq(Label) /\ Len(u) = n - i /\ \A j \in 1 .. n - i : u[j] = s[j + 1]
      BY <1>1, <1>2, <1>3, <2>1
    <3> HIDE DEF s, t, u
    <3>3. \A j \in 1 .. n - i : s[j + 1] = labels[i + j]
      <4> TAKE j \in 1 .. n - i
      <4>1. j + 1 \in 1 .. n - i + 1 /\ i + (j + 1) - 1 = i + j
        BY <1>1
      <4> QED
        BY <1>2, <4>1
    <3>4. \A j \in 1 .. n - i : u[j] = t[j]
      BY <3>1, <3>2, <3>3
    <3>5. u = t
      BY <1>1, <3>1, <3>2, <3>4, SeqEqual
    <3> QED
      BY <3>5 DEF t, u
  <2> QED
    BY <2>1, <2>2
<1>4. i = n + 1 => s = <<>>
  BY <1>1, <1>2, EmptySeq
<1>5. i = 1 => s = labels
  <2>1. ASSUME i = 1
        PROVE  s = labels
    <3>1. Len(s) = n /\ \A j \in 1 .. n : s[j] = labels[j]
      BY <1>1, <1>2, <2>1
    <3> HIDE DEF s
    <3> QED
      BY <1>2, <3>1, SeqEqual
  <2> QED
    BY <2>1
<1> QED
  BY <1>2, <1>3, <1>4, <1>5

LEMMA SpeltMore ==
  ASSUME NEW R, NEW S, R \subseteq S, NEW V, NEW W, V \subseteq W, NEW p, NEW s, NEW e, NEW d,
         Spelt(V, R, p, s, e, d)
  PROVE  Spelt(W, S, p, s, e, d)
  BY DEF Spelt

LEMMA SpellsStay ==
  ASSUME NEW R, Spells(R), compression' = compression, written \subseteq written',
         \A w \in written' : w.kind = "name" => w \in written
  PROVE  \E S : Spells(S)'
<1>1. /\ R \subseteq Nat \X Seq(Label) \X Nat \X Nat
      /\ \A w \in written : w.kind = "name" => <<w.at, w.labels, w.end, w.num>> \in R
      /\ \A s \in DOMAIN compression : \E e \in Nat, n \in written :
           /\ n.kind = "name" /\ n.at <= compression[s] /\ compression[s] < n.end /\ e <= n.end
           /\ <<compression[s], s, e, n.num>> \in R
  BY DEF Spells, SpellsIn
<1>2. ASSUME NEW p, NEW s, NEW e, NEW d, <<p, s, e, d>> \in R
      PROVE  p < e /\ Spelt(written', R, p, s, e, d)
  <2>1. p < e /\ Spelt(written, R, p, s, e, d)
    BY <1>2 DEF Spells, SpellsIn
  <2> QED
    BY <2>1, SpeltMore
<1>3. SpellsIn(written', compression', R)
  BY <1>1, <1>2 DEF SpellsIn
<1> QED
  BY <1>3, Zenon DEF Spells

(* A pointer leads into one name only.                                     *)
LEMMA DepthIs ==
  ASSUME Laid, Pointable, InOrder, NEW s \in DOMAIN compression, NEW n \in written,
         n.kind = "name", n.at <= compression[s], compression[s] < n.end
  PROVE  Depth(compression[s]) = n.num
<1> DEFINE to == compression[s]
           M == {m \in written : m.kind = "name" /\ m.at <= to /\ to < m.end}
           S == {w.num : w \in M}
<1>1. to \in Nat /\ \A w \in written : w.at \in Nat /\ w.end \in Nat /\ w.num \in Nat
  BY DEF Pointable, Laid, Item
<1>2. ASSUME NEW m \in M
      PROVE  m = n
  <2>1. m # n => Abreast(n, m)
    BY DEF InOrder, Judged, Whole, NameItems
  <2> QED
    BY <1>1, <2>1 DEF Abreast
<1>3. n \in M
  OBVIOUS
<1>4. S = {n.num}
  BY <1>2, <1>3
<1>5. Depth(to) = Max(S)
  BY DEF Depth
<1> DEFINE k == n.num
<1>6. S = {k} /\ k \in Nat
  BY <1>1, <1>4
<1> HIDE DEF S, k
<1>7. Max(S) \in S
  <2>1. S \subseteq Nat /\ S # {} /\ \A i \in S : i <= k
    BY <1>6
  <2> QED
    BY <1>6, <2>1, MaxFacts
<1> QED
  BY <1>5, <1>6, <1>7 DEF k

(* A name that is written adds what it spells from each of its labels on.  *)
LEMMA NameSpells ==
  ASSUME Laid, Pointable, InOrder, at \in Nat, NEW R, Spells(R),
         NEW labels \in Seq(Label), NEW compress \in BOOLEAN,
         NEW extra, \A w \in extra : w.kind # "name",
         written' = written \cup NameWritten(labels, at, compress) \cup extra,
         compression' = Learnt(labels, at, compress)
  PROVE  \E S : Spells(S)'
<1> DEFINE p == Pointed(labels, compress)
           n == Len(labels)
           e == NameEndsAt(labels, at, compress)
           ws == NameWritten(labels, at, compress)
           last == LastItem(labels, at, p)
           whole == NameItem(labels, at, compress)
           d == whole.num
           new(i) == <<at + 2 * (i - 1), Suffix(labels, i), e, d>>
           S == R \cup {new(i) : i \in 1 .. p}
           part(i) == LabelItem(labels, at, i)
<1>1. /\ p \in 1 .. n + 1 /\ n \in Nat /\ e \in Nat
      /\ p <= n => Suffix(labels, p) \in DOMAIN compression
      /\ at + 2 * (p - 1) < e
  <2>1. /\ p \in 1 .. n + 1 /\ n \in Nat
        /\ p <= n => Suffix(labels, p) \in DOMAIN compression
    BY PointedFacts
  <2>2. e \in Nat /\ at + 2 * (p - 1) < e
    BY NameEndFacts
  <2> QED
    BY <2>1, <2>2
<1>2. \A i \in 1 .. p :
        /\ Suffix(labels, i) \in Seq(Label) /\ Len(Suffix(labels, i)) = n - i + 1
        /\ i <= n => /\ Suffix(labels, i) # <<>> /\ Head(Suffix(labels, i)) = labels[i]
                     /\ Tail(Suffix(labels, i)) = Suffix(labels, i + 1)
        /\ i = n + 1 => Suffix(labels, i) = <<>>
        /\ i = 1 => Suffix(labels, i) = labels
  <2> TAKE i \in 1 .. p
  <2>1. i \in 1 .. Len(labels) + 1
    BY <1>1
  <2> QED
    BY <2>1, SuffixIs
<1>3. /\ \A i \in 1 .. p - 1 :
           /\ part(i) \in ws /\ part(i).at = at + 2 * (i - 1) /\ part(i).end = at + 2 * i
           /\ part(i).kind = "label" /\ part(i).labels = <<labels[i]>>
      /\ last \in ws /\ last.at = at + 2 * (p - 1)
      /\ p <= n => /\ last.kind = "pointer" /\ last.num = compression[Suffix(labels, p)]
                   /\ e = at + 2 * (p - 1) + 2
      /\ ~(p <= n) => last.kind = "root" /\ e = at + 2 * (p - 1) + 1
      /\ whole \in ws /\ whole.at = at /\ whole.end = e /\ whole.kind = "name"
      /\ whole.labels = labels
      /\ \A w \in ws : w = whole \/ w = last \/ \E i \in 1 .. p - 1 : w = part(i)
  <2>1. \A i \in 1 .. p - 1 : /\ part(i) \in ws
                              /\ Shape(part(i), at + 2 * (i - 1), at + 2 * i, "label",
                                       <<labels[i]>>, 0)
    BY NameShapes
  <2>2. \A i \in 1 .. p - 1 :
           /\ part(i) \in ws /\ part(i).at = at + 2 * (i - 1) /\ part(i).end = at + 2 * i
           /\ part(i).kind = "label" /\ part(i).labels = <<labels[i]>>
    BY <2>1 DEF Shape
  <2>3. /\ last \in ws /\ last.at = at + 2 * (p - 1)
        /\ p <= n => /\ last.kind = "pointer" /\ last.num = compression[Suffix(labels, p)]
                     /\ e = at + 2 * (p - 1) + 2
        /\ ~(p <= n) => last.kind = "root" /\ e = at + 2 * (p - 1) + 1
        /\ whole \in ws /\ whole.at = at /\ whole.end = e /\ whole.kind = "name"
        /\ whole.labels = labels
        /\ \A w \in ws : w = whole \/ w = last \/ \E i \in 1 .. p - 1 : w = part(i)
    BY NameShapes
  <2> QED
    BY <2>2, <2>3
<1>4. compression' = [s \in DOMAIN compression \cup
                        {Suffix(labels, i) : i \in {j \in 1 .. (p - 1) :
                           Suffix(labels, j) \notin DOMAIN compression /\ at + 2 * (j - 1) < MaxOffset}} |->
                        IF s \in {Suffix(labels, i) : i \in {j \in 1 .. (p - 1) :
                           Suffix(labels, j) \notin DOMAIN compression /\ at + 2 * (j - 1) < MaxOffset}}
                        THEN at + 2 * (n - Len(s)) ELSE compression[s]]
  BY DEF Learnt
<1>5. d = (IF p <= n THEN 1 + Depth(compression[Suffix(labels, p)]) ELSE 0) /\ d \in Nat
  <2>1. d = IF p <= n THEN 1 + Depth(compression[Suffix(labels, p)]) ELSE 0
    <3> DEFINE k == IF p <= n THEN 1 + Depth(compression[Suffix(labels, p)]) ELSE 0
    <3>1. whole = [Plain(at, e, "name") EXCEPT !.labels = labels, !.num = k]
      BY DEF NameItem
    <3> HIDE DEF k, e, p, n, whole
    <3>2. Shape([Plain(at, e, "name") EXCEPT !.labels = labels, !.num = k], at, e, "name", labels, k)
      BY PlainIs
    <3>3. Shape(whole, at, e, "name", labels, k)
      BY <3>1, <3>2, Zenon
    <3>4. whole.num = k
      BY <3>3, ShapeIs
    <3> QED
      BY <3>4 DEF k
  <2>2. p <= n => Depth(compression[Suffix(labels, p)]) \in Nat
    BY <1>1, DepthFacts
  <2> HIDE DEF d, p, n
  <2> QED
    BY <2>1, <2>2
<1> HIDE DEF p, n, e, ws, last, whole, part, d
<1>6. S \subseteq Nat \X Seq(Label) \X Nat \X Nat
  <2>1. ASSUME NEW i \in 1 .. p
        PROVE  new(i) \in Nat \X Seq(Label) \X Nat \X Nat
    <3>1. at + 2 * (i - 1) \in Nat
      BY <1>1
    <3>2. Suffix(labels, i) \in Seq(Label)
      BY <1>2
    <3> QED
      BY <1>1, <1>5, <3>1, <3>2
  <2> QED
    BY <2>1 DEF Spells, SpellsIn
<1>7. R \subseteq S /\ written \subseteq written' /\ ws \subseteq written'
  BY DEF ws
<1>8. ASSUME NEW i \in 1 .. p
      PROVE  at + 2 * (i - 1) < e /\ Spelt(written', S, at + 2 * (i - 1), Suffix(labels, i), e, d)
  <2>1. CASE i # p
    <3>1. i \in 1 .. p - 1 /\ i <= n /\ i + 1 \in 1 .. p /\ at + 2 * i = at + 2 * ((i + 1) - 1)
          /\ at + 2 * i = at + 2 * (i - 1) + 2 /\ at + 2 * (i - 1) < e
      BY <1>1, <2>1
    <3>2. <<at + 2 * i, Suffix(labels, i + 1), e, d>> \in S
      BY <3>1
    <3>3. /\ part(i) \in written' /\ part(i).at = at + 2 * (i - 1) /\ part(i).kind = "label"
          /\ part(i).labels = <<labels[i]>> /\ part(i).end = at + 2 * i
      BY <1>3, <1>7, <3>1
    <3>4. /\ Suffix(labels, i) # <<>> /\ Head(Suffix(labels, i)) = labels[i]
          /\ Tail(Suffix(labels, i)) = Suffix(labels, i + 1)
      BY <1>2, <3>1
    <3> HIDE DEF S
    <3> QED
      BY <3>1, <3>2, <3>3, <3>4 DEF Spelt
  <2>2. CASE i = p /\ p <= n
    <3> DEFINE s == Suffix(labels, i)
               o == at + 2 * (i - 1)
    <3>1. s \in DOMAIN compression /\ s # <<>>
      BY <1>1, <1>2, <2>2
    <3>2. PICK f \in Nat, m \in written :
            /\ m.kind = "name" /\ m.at <= compression[s] /\ compression[s] < m.end /\ f <= m.end
            /\ <<compression[s], s, f, m.num>> \in R
      BY <3>1 DEF Spells, SpellsIn
    <3>3. /\ last \in written' /\ last.at = o /\ last.kind = "pointer"
          /\ last.num = compression[s] /\ e = o + 2
      BY <1>3, <1>7, <2>2
    <3>4. Depth(compression[s]) = m.num
      BY <3>1, <3>2, DepthIs
    <3>5. m.num \in Nat /\ m.end \in Nat /\ m.end <= at
      BY DEF Laid, Item
    <3>6. d = m.num + 1
      BY <1>5, <2>2, <3>4, <3>5
    <3>7. o \in Nat /\ f <= o /\ o < e
      BY <1>1, <2>2, <3>2, <3>5
    <3>8. <<last.num, s, f, m.num>> \in S
      BY <1>7, <3>2, <3>3
    <3> HIDE DEF S, s, o
    <3>9. Spelt(written', S, o, s, e, d)
      BY <3>1, <3>3, <3>5, <3>6, <3>7, <3>8 DEF Spelt
    <3> QED
      BY <3>7, <3>9 DEF s, o
  <2>3. CASE i = p /\ ~(p <= n)
    <3>1. i = n + 1
      BY <1>1, <2>3
    <3>2. Suffix(labels, i) = <<>>
      BY <1>2, <3>1
    <3>3. /\ last \in written' /\ last.at = at + 2 * (i - 1) /\ last.kind = "root"
          /\ e = at + 2 * (i - 1) + 1 /\ d = 0 /\ at + 2 * (i - 1) < e
      BY <1>1, <1>3, <1>5, <1>7, <2>3
    <3> QED
      BY <3>2, <3>3 DEF Spelt
  <2> QED
    BY <2>1, <2>2, <2>3
<1>9. ASSUME NEW q, NEW s, NEW f, NEW c, <<q, s, f, c>> \in S
      PROVE  q < f /\ Spelt(written', S, q, s, f, c)
  <2>1. CASE <<q, s, f, c>> \in R
    <3>1. q < f /\ Spelt(written, R, q, s, f, c)
      BY <2>1 DEF Spells, SpellsIn
    <3> HIDE DEF S
    <3> QED
      BY <1>7, <3>1, SpeltMore
  <2>2. CASE <<q, s, f, c>> \notin R
    <3>1. PICK i \in 1 .. p : <<q, s, f, c>> = new(i)
      BY <1>9, <2>2
    <3>2. q = at + 2 * (i - 1) /\ s = Suffix(labels, i) /\ f = e /\ c = d
      BY <3>1
    <3> HIDE DEF S
    <3> QED
      BY <1>8, <3>2
  <2> QED
    BY <2>1, <2>2
<1>10. ASSUME NEW w \in written', w.kind = "name"
      PROVE  <<w.at, w.labels, w.end, w.num>> \in S
  <2>1. CASE w \in written
    BY <1>10, <2>1 DEF Spells, SpellsIn
  <2>2. CASE w \notin written
    <3>1. w = whole
      <4>1. w \in ws
        BY <1>10, <2>2 DEF ws
      <4> QED
        BY <1>3, <1>10, <4>1
    <3>2. 1 \in 1 .. p /\ at + 2 * (1 - 1) = at
      BY <1>1
    <3>3. Suffix(labels, 1) = labels
      BY <1>2, <3>2
    <3>4. new(1) = <<at, labels, e, d>>
      BY <3>2, <3>3
    <3>5. w.num = d
      BY <3>1 DEF d
    <3> QED
      BY <1>3, <3>1, <3>2, <3>4, <3>5
  <2> QED
    BY <2>1, <2>2
<1>11. ASSUME NEW s \in DOMAIN compression'
       PROVE  \E f \in Nat, m \in written' :
                /\ m.kind = "name" /\ m.at <= compression'[s] /\ compression'[s] < m.end
                /\ f <= m.end /\ <<compression'[s], s, f, m.num>> \in S
  <2> DEFINE news == {Suffix(labels, i) : i \in {j \in 1 .. (p - 1) :
               Suffix(labels, j) \notin DOMAIN compression /\ at + 2 * (j - 1) < MaxOffset}}
  <2>1. CASE s \in news
    <3>1. PICK i \in 1 .. p - 1 : s = Suffix(labels, i)
      BY <2>1
    <3>2. compression'[s] = at + 2 * (n - Len(s))
      BY <1>4, <2>1
    <3>3. i \in 1 .. p /\ Len(s) = n - i + 1
      <4>1. i \in 1 .. p
        BY <1>1
      <4>2. Len(Suffix(labels, i)) = n - i + 1
        BY <1>2, <4>1
      <4> QED
        BY <3>1, <4>1, <4>2
    <3>4. n - Len(s) = i - 1
      BY <1>1, <3>3
    <3>5. <<compression'[s], s, e, d>> = new(i) /\ compression'[s] = at + 2 * (i - 1)
      BY <3>1, <3>2, <3>4
    <3>6. whole \in written' /\ whole.num = d
      BY <1>3, <1>7 DEF d
    <3>7. at <= at + 2 * (i - 1) /\ at + 2 * (i - 1) < e /\ e <= e
      BY <1>1, <3>3
    <3>8. new(i) \in S
      BY <3>3
    <3> HIDE DEF S
    <3>9. <<compression'[s], s, e, whole.num>> \in S
      BY <3>5, <3>6, <3>8
    <3>10. whole.kind = "name" /\ whole.at = at /\ whole.end = e /\ e \in Nat
      BY <1>1, <1>3
    <3>11. /\ whole.at <= compression'[s] /\ compression'[s] < whole.end
           /\ e <= whole.end
      BY <3>5, <3>7, <3>10
    <3> QED
      BY <3>6, <3>9, <3>10, <3>11, Zenon
  <2>2. CASE s \notin news
    <3>1. s \in DOMAIN compression /\ compression'[s] = compression[s]
      BY <1>4, <2>2
    <3> QED
      BY <1>7, <3>1 DEF Spells, SpellsIn
  <2> QED
    BY <2>1, <2>2
<1> HIDE DEF S
<1>12. SpellsIn(written', compression', S)
  BY <1>6, <1>9, <1>10, <1>11 DEF SpellsIn
<1> QED
  BY <1>12, Zenon DEF Spells

-----------------------------------------------------------------------------
(* The fields that are left to write, and those that are left to read.     *)

After(T) == IF Head(T) \in Repeated THEN T ELSE Tail(T)

(* Of these a record may have none, and they come last.                    *)
Absent == Repeated \cup {"a", "aaaa"}
Closing(T) == T = <<>> \/ Head(T) \in Absent

Agree(fs, T) ==
  /\ \A j \in 1 .. Len(fs) : T # <<>> /\ ItemOf(fs[j][1]) = Written(T[Least(j, Len(T))])
  /\ \A j \in 1 .. Len(T) - 1 : T[j] \notin Final
  /\ Len(fs) > Len(T) => T[Len(T)] = "names"
  /\ Len(fs) < Len(T) => Len(fs) = Len(T) - 1 /\ T[Len(T)] \in Absent

(* Two fields that may be empty and are written alike are kept apart, and  *)
(* so are those left from an empty one that stands where they begin.       *)
Spaced(fs) ==
  \A i, j \in 1 .. Len(fs) : i < j /\ fs[i][1] = fs[j][1] /\ fs[i][1] \in Hollow =>
    \E k \in 1 .. Len(fs) : i < k /\ k < j /\ fs[k][1] \in Solid
Clear(W, o, fs) ==
  \A w \in W, j \in 1 .. Len(fs) : w.at = o /\ fs[j][1] = w.kind =>
    \E k \in 1 .. Len(fs) : k < j /\ fs[k][1] \in Solid

LEMMA TailIs ==
  ASSUME NEW S, NEW s \in Seq(S), s # <<>>
  PROVE  /\ Len(s) \in Nat /\ Len(s) > 0 /\ Head(s) = s[1] /\ Head(s) \in S
         /\ Tail(s) \in Seq(S) /\ Len(Tail(s)) = Len(s) - 1
         /\ \A j \in 1 .. Len(s) - 1 : Tail(s)[j] = s[j + 1]
<1>1. Len(s) \in Nat /\ Len(s) > 0
  BY EmptySeq
<1> QED
  BY <1>1

LEMMA AgreeStep ==
  ASSUME NEW S, NEW fs \in Seq(S), NEW T \in Seq(Kind), fs # <<>>, Agree(fs, T)
  PROVE  /\ T # <<>> /\ ItemOf(Head(fs)[1]) = Written(Head(T))
         /\ Head(T) \in Kind /\ After(T) \in Seq(Kind)
         /\ Agree(Tail(fs), After(T))
         /\ Head(T) \in Final \ {"names"} => Tail(fs) = <<>>
         /\ Head(T) \in Final => Len(T) = 1
<1> DEFINE n == Len(fs)
           m == Len(T)
           gs == Tail(fs)
           h == Head(T)
<1>1. /\ n \in Nat /\ n > 0 /\ Head(fs) = fs[1] /\ Len(gs) = n - 1
      /\ gs \in Seq(S) /\ \A j \in 1 .. n - 1 : gs[j] = fs[j + 1]
  BY TailIs
<1>2. T # <<>>
  BY <1>1 DEF Agree
<1>3. /\ m \in Nat /\ m > 0 /\ h = T[1] /\ Len(Tail(T)) = m - 1 /\ h \in Kind
      /\ Tail(T) \in Seq(Kind) /\ \A j \in 1 .. m - 1 : Tail(T)[j] = T[j + 1]
  BY <1>2, TailIs
<1>4. /\ \A j \in 1 .. n : ItemOf(fs[j][1]) = Written(T[Least(j, m)])
      /\ \A j \in 1 .. m - 1 : T[j] \notin Final
      /\ n > m => T[m] = "names"
      /\ n < m => n = m - 1 /\ T[m] \in Absent
  BY DEF Agree
<1> HIDE DEF n, m, gs, h
<1>5. ItemOf(Head(fs)[1]) = Written(h)
  <2>1. Least(1, m) = 1 /\ 1 \in 1 .. n
    BY <1>1, <1>3 DEF Least
  <2> QED
    BY <1>1, <1>3, <1>4, <2>1
<1>6. h \in Final => m = 1
  <2>1. m > 1 => 1 \in 1 .. m - 1
    BY <1>3
  <2> QED
    BY <1>3, <1>4, <2>1
<1>7. CASE h \in Repeated
  <2>1. m = 1 /\ After(T) = T
    BY <1>6, <1>7 DEF Final, After, h
  <2>2. \A j \in 1 .. n - 1 : ItemOf(gs[j][1]) = Written(T[Least(j, m)])
    <3> TAKE j \in 1 .. n - 1
    <3>1. j + 1 \in 1 .. n /\ Least(j + 1, m) = 1 /\ Least(j, m) = 1
      BY <1>1, <2>1 DEF Least
    <3> QED
      BY <1>1, <1>4, <3>1
  <2>3. n - 1 > m => T[m] = "names"
    BY <1>1, <1>3, <1>4
  <2>9. n - 1 < m => n - 1 = m - 1 /\ T[m] \in Absent
    BY <1>1, <1>3, <1>7, <2>1 DEF Absent
  <2>4. Agree(gs, T)
    BY <1>1, <1>2, <1>4, <2>2, <2>3, <2>9 DEF Agree, m
  <2>5. h # "names" => n - 1 = 0
    BY <1>1, <1>3, <1>4, <2>1
  <2>6. h # "names" => gs = <<>>
    BY <1>1, <2>5, EmptySeq
  <2> QED
    BY <1>2, <1>3, <1>5, <1>6, <2>1, <2>4, <2>6 DEF h, gs, m
<1>8. CASE h \notin Repeated
  <2>1. After(T) = Tail(T)
    BY <1>8 DEF After, h
  <2>2. m = 1 => n = 1
    <3>1. "names" \in Repeated
      BY DEF Repeated
    <3> QED
      BY <1>1, <1>3, <1>4, <1>8, <3>1
  <2> DEFINE U == Tail(T)
  <2>3. \A j \in 1 .. n - 1 : U # <<>> /\ ItemOf(gs[j][1]) = Written(U[Least(j, m - 1)])
    <3> TAKE j \in 1 .. n - 1
    <3>1. j + 1 \in 1 .. n /\ m > 1
      BY <1>1, <1>3, <2>2
    <3>2. Least(j, m - 1) \in 1 .. m - 1 /\ Least(j + 1, m) = Least(j, m - 1) + 1
      BY <1>1, <1>3, <3>1 DEF Least
    <3>3. U[Least(j, m - 1)] = T[Least(j + 1, m)]
      BY <1>3, <3>2
    <3>4. U # <<>>
      <4>1. U \in Seq(Kind) /\ Len(U) # 0
        BY <1>1, <1>3, <3>1
      <4> HIDE DEF U
      <4> QED
        BY <4>1, EmptySeq
    <3> QED
      BY <1>1, <1>4, <3>1, <3>3, <3>4
  <2>4. \A j \in 1 .. (m - 1) - 1 : U[j] \notin Final
    <3> TAKE j \in 1 .. (m - 1) - 1
    <3>1. j \in 1 .. m - 1 /\ j + 1 \in 1 .. m - 1
      BY <1>3
    <3> QED
      BY <1>3, <1>4, <3>1
  <2>5. n - 1 > m - 1 => U[m - 1] = "names"
    <3>1. ASSUME n - 1 > m - 1
          PROVE  U[m - 1] = "names"
      <4>1. n > m /\ m > 1 /\ m - 1 \in 1 .. m - 1 /\ (m - 1) + 1 = m
        BY <1>1, <1>3, <2>2, <3>1
      <4> QED
        BY <1>3, <1>4, <4>1
    <3> QED
      BY <3>1
  <2>9. n - 1 < m - 1 => n - 1 = (m - 1) - 1 /\ U[m - 1] \in Absent
    <3>1. ASSUME n - 1 < m - 1
          PROVE  n - 1 = (m - 1) - 1 /\ U[m - 1] \in Absent
      <4>1. n < m /\ m > 1 /\ m - 1 \in 1 .. m - 1 /\ (m - 1) + 1 = m
        BY <1>1, <1>3, <3>1
      <4> QED
        BY <1>1, <1>3, <1>4, <4>1
    <3> QED
      BY <3>1
  <2> HIDE DEF U
  <2>6. Len(U) = m - 1 /\ U \in Seq(Kind)
    BY <1>3 DEF U
  <2>7. Agree(gs, U)
    BY <1>1, <2>3, <2>4, <2>5, <2>6, <2>9 DEF Agree
  <2>8. h \in Final => gs = <<>>
    <3>1. h \in Final => Len(gs) = 0
      BY <1>1, <1>6, <2>2
    <3> QED
      BY <1>1, <3>1, EmptySeq
  <2> QED
    BY <1>2, <1>3, <1>5, <1>6, <2>1, <2>6, <2>7, <2>8 DEF h, gs, U, m
<1> QED
  BY <1>7, <1>8

LEMMA SpacedTail ==
  ASSUME NEW S, NEW fs \in Seq(S), fs # <<>>, Spaced(fs)
  PROVE  Spaced(Tail(fs))
<1> DEFINE n == Len(fs)
           gs == Tail(fs)
<1>1. n \in Nat /\ Len(gs) = n - 1 /\ \A j \in 1 .. n - 1 : gs[j] = fs[j + 1]
  BY TailIs
<1>2. \A i, j \in 1 .. n : i < j /\ fs[i][1] = fs[j][1] /\ fs[i][1] \in Hollow =>
        \E k \in 1 .. n : i < k /\ k < j /\ fs[k][1] \in Solid
  BY DEF Spaced
<1> HIDE DEF n, gs
<1>3. ASSUME NEW i \in 1 .. n - 1, NEW j \in 1 .. n - 1, i < j, gs[i][1] = gs[j][1],
             gs[i][1] \in Hollow
      PROVE  \E k \in 1 .. n - 1 : i < k /\ k < j /\ gs[k][1] \in Solid
  <2>1. i + 1 \in 1 .. n /\ j + 1 \in 1 .. n /\ i + 1 < j + 1
    BY <1>1, <1>3
  <2>2. fs[i + 1][1] = fs[j + 1][1] /\ fs[i + 1][1] \in Hollow
    BY <1>1, <1>3
  <2>3. PICK k \in 1 .. n : i + 1 < k /\ k < j + 1 /\ fs[k][1] \in Solid
    BY <1>2, <2>1, <2>2
  <2>4. k - 1 \in 1 .. n - 1 /\ (k - 1) + 1 = k /\ i < k - 1 /\ k - 1 < j
    BY <1>1, <2>3
  <2>5. gs[k - 1] = fs[k]
    BY <1>1, <2>4
  <2> QED
    BY <2>3, <2>4, <2>5
<1> QED
  BY <1>1, <1>3 DEF Spaced, gs

(* An empty field has been written.                                        *)
LEMMA ClearTail ==
  ASSUME NEW S, NEW fs \in Seq(S), fs # <<>>, Spaced(fs), NEW W, NEW V, NEW o, Clear(W, o, fs),
         Head(fs)[1] \notin Solid, \A w \in V \ W : w.kind = Head(fs)[1] /\ w.kind \in Hollow
  PROVE  Clear(V, o, Tail(fs))
<1> DEFINE n == Len(fs)
           gs == Tail(fs)
<1>1. /\ n \in Nat /\ n > 0 /\ Head(fs) = fs[1]
      /\ Len(gs) = n - 1 /\ \A j \in 1 .. n - 1 : gs[j] = fs[j + 1]
  BY TailIs
<1>2. /\ \A i, j \in 1 .. n : i < j /\ fs[i][1] = fs[j][1] /\ fs[i][1] \in Hollow =>
           \E k \in 1 .. n : i < k /\ k < j /\ fs[k][1] \in Solid
      /\ \A w \in W, j \in 1 .. n : w.at = o /\ fs[j][1] = w.kind =>
           \E k \in 1 .. n : k < j /\ fs[k][1] \in Solid
  BY DEF Spaced, Clear
<1>3. fs[1][1] \notin Solid
  BY <1>1
<1> HIDE DEF n, gs
<1>4. ASSUME NEW w \in V, NEW j \in 1 .. n - 1, w.at = o, gs[j][1] = w.kind
      PROVE  \E k \in 1 .. n - 1 : k < j /\ gs[k][1] \in Solid
  <2>1. 1 \in 1 .. n /\ j + 1 \in 1 .. n /\ 1 < j + 1 /\ fs[j + 1][1] = w.kind
    BY <1>1, <1>4
  <2>2. PICK k \in 1 .. n : k < j + 1 /\ fs[k][1] \in Solid /\ k # 1
    <3>1. CASE w \in W
      <4>1. PICK k \in 1 .. n : k < j + 1 /\ fs[k][1] \in Solid
        BY <1>2, <1>4, <2>1, <3>1
      <4> QED
        BY <1>3, <4>1
    <3>2. CASE w \notin W
      <4>1. fs[1][1] = fs[j + 1][1] /\ fs[1][1] \in Hollow
        BY <1>1, <1>4, <2>1, <3>2
      <4>2. PICK k \in 1 .. n : 1 < k /\ k < j + 1 /\ fs[k][1] \in Solid
        BY <1>2, <2>1, <4>1
      <4> QED
        BY <4>2
    <3> QED
      BY <3>1, <3>2
  <2>3. k - 1 \in 1 .. n - 1 /\ (k - 1) + 1 = k /\ k - 1 < j
    BY <1>1, <2>2
  <2>4. gs[k - 1] = fs[k]
    BY <1>1, <2>3
  <2> QED
    BY <2>2, <2>3, <2>4
<1> QED
  BY <1>1, <1>4 DEF Clear, gs

-----------------------------------------------------------------------------
(* The fields of a record, each where its layout has it.                   *)

LEMMA FlattenIndex ==
  ASSUME NEW X, NEW n \in Nat, n > 0, NEW ss, ss \in Seq(Seq(X)), Len(ss) = n,
         \A i \in 1 .. n - 1 : Len(ss[i]) = 1
  PROVE  /\ Len(FlattenSeq(ss)) = n - 1 + Len(ss[n])
         /\ \A j \in 1 .. Len(FlattenSeq(ss)) :
              FlattenSeq(ss)[j] = IF j < n THEN ss[j][1] ELSE ss[n][j - (n - 1)]
<1>1. PICK f : /\ f[1] = ss[1] /\ FlattenSeq(ss) = f[n]
               /\ \A i \in 2 .. n : f[i] = f[i - 1] \o ss[i]
  BY FlattenSteps
<1>2. \A i \in 1 .. n : ss[i] \in Seq(X) /\ Len(ss[i]) \in Nat
  OBVIOUS
<1> DEFINE T == {k \in 1 .. n - 1 :
                  ~(f[k] \in Seq(X) /\ Len(f[k]) = k /\ \A j \in 1 .. k : f[k][j] = ss[j][1])}
<1>3. ASSUME T # {}
      PROVE  FALSE
  <2>1. T \subseteq Nat
    OBVIOUS
  <2>2. PICK k \in T : \A j \in T : k <= j
    BY <1>3, <2>1, LeastNatural
  <2>3. k \in 1 .. n - 1
    OBVIOUS
  <2>4. CASE k = 1
    <3>1. f[1] \in Seq(X) /\ Len(f[1]) = 1 /\ \A j \in 1 .. 1 : f[1][j] = ss[j][1]
      BY <1>1, <1>2, <2>3, <2>4
    <3> QED
      BY <2>4, <3>1
  <2>5. CASE k # 1
    <3>1. k - 1 \in 1 .. n - 1 /\ k - 1 \notin T /\ k \in 2 .. n /\ k \in 1 .. n
      <4> HIDE DEF T
      <4> QED
        BY <2>1, <2>2, <2>3, <2>5
    <3> DEFINE a == f[k - 1]
               b == ss[k]
    <3>2. a \in Seq(X) /\ Len(a) = k - 1 /\ \A j \in 1 .. k - 1 : a[j] = ss[j][1]
      BY <3>1
    <3>3. b \in Seq(X) /\ Len(b) = 1 /\ f[k] = a \o b
      BY <1>1, <1>2, <2>3, <3>1
    <3> HIDE DEF a, b, T
    <3>4. /\ f[k] \in Seq(X) /\ Len(f[k]) = Len(a) + Len(b)
          /\ \A i \in 1 .. Len(a) + Len(b) : f[k][i] = IF i <= Len(a) THEN a[i] ELSE b[i - Len(a)]
      <4> DEFINE d == f[k]
      <4>1. d = a \o b /\ a \in Seq(X) /\ b \in Seq(X)
        BY <3>2, <3>3
      <4> HIDE DEF d
      <4>2. /\ d \in Seq(X) /\ Len(d) = Len(a) + Len(b)
            /\ \A i \in 1 .. Len(a) + Len(b) : d[i] = IF i <= Len(a) THEN a[i] ELSE b[i - Len(a)]
        BY <4>1, ConcatProperties
      <4> QED
        BY <4>2 DEF d
    <3>5. Len(f[k]) = k /\ \A j \in 1 .. k : f[k][j] = ss[j][1]
      <4>1. Len(f[k]) = k
        BY <2>3, <3>2, <3>3, <3>4
      <4>2. ASSUME NEW j \in 1 .. k
            PROVE  f[k][j] = ss[j][1]
        <5>1. j \in 1 .. Len(a) + Len(b)
          BY <2>3, <3>2, <3>3
        <5>2. CASE j <= k - 1
          BY <2>3, <3>2, <3>4, <5>1, <5>2
        <5>3. CASE ~(j <= k - 1)
          <6>1. j = k /\ j - Len(a) = 1
            BY <2>3, <3>2, <5>3
          <6>2. f[k][j] = b[1]
            BY <2>3, <3>2, <3>4, <5>1, <5>3, <6>1
          <6> QED
            BY <6>1, <6>2 DEF b
        <5> QED
          BY <5>2, <5>3
      <4> QED
        BY <4>1, <4>2
    <3> QED
      BY <3>4, <3>5 DEF T
  <2> QED
    BY <2>4, <2>5
<1> DEFINE g == FlattenSeq(ss)
           c == ss[n]
<1>4. c \in Seq(X) /\ Len(c) \in Nat
  BY <1>2
<1>5. CASE n = 1
  <2>1. g = c
    BY <1>1, <1>5
  <2> HIDE DEF g, c
  <2>2. Len(g) = n - 1 + Len(c) /\ \A j \in 1 .. Len(g) : g[j] = c[j - (n - 1)] /\ ~(j < n)
    BY <1>4, <1>5, <2>1
  <2> QED
    BY <2>2 DEF g, c
<1>6. CASE n # 1
  <2> DEFINE a == f[n - 1]
  <2>1. n - 1 \in 1 .. n - 1 /\ n \in 2 .. n
    BY <1>6
  <2>2. a \in Seq(X) /\ Len(a) = n - 1 /\ \A j \in 1 .. n - 1 : a[j] = ss[j][1]
    BY <1>3, <2>1
  <2>3. g = a \o c
    BY <1>1, <2>1
  <2> HIDE DEF a, c, g, T
  <2>4. /\ Len(g) = Len(a) + Len(c)
        /\ \A i \in 1 .. Len(a) + Len(c) : g[i] = IF i <= Len(a) THEN a[i] ELSE c[i - Len(a)]
    BY <1>4, <2>2, <2>3, ConcatProperties
  <2>5. Len(g) = n - 1 + Len(c)
    BY <2>2, <2>4
  <2>6. \A j \in 1 .. Len(g) : g[j] = IF j < n THEN ss[j][1] ELSE c[j - (n - 1)]
    <3> TAKE j \in 1 .. Len(g)
    <3>1. CASE j < n
      BY <1>4, <2>2, <2>4, <3>1
    <3>2. CASE ~(j < n)
      BY <1>4, <2>2, <2>4, <3>2
    <3> QED
      BY <3>1, <3>2
  <2> QED
    BY <2>5, <2>6 DEF g, c
<1> QED
  BY <1>5, <1>6

LEMMA FieldIndex ==
  ASSUME LayoutsAgree, NEW m \in Messages, NEW rr \in ToSet(m.records)
  PROVE  LET L == PackLayout[rr.type]
             fs == Fields(rr)
         IN  /\ Len(L) \in Nat /\ Len(fs) \in Nat
             /\ Len(fs) > Len(L) => Len(L) > 0 /\ L[Len(L)] = "names"
             /\ Len(fs) < Len(L) => Len(fs) = Len(L) - 1 /\ L[Len(L)] = "names"
             /\ \A j \in 1 .. Len(fs) :
                  /\ Len(L) > 0
                  /\ fs[j][1] = IF L[Least(j, Len(L))] = "names" THEN "name"
                                ELSE L[Least(j, Len(L))]
<1> DEFINE X == Own(rr)
           n == Len(rr.data)
           L == PackLayout[rr.type]
           group(i) == IF L[i] = "names"
                       THEN [j \in 1 .. Len(rr.data[i]) |-> <<"name", rr.data[i][j]>>]
                       ELSE << <<L[i], rr.data[i]>> >>
           ss == [i \in 1 .. n |-> group(i)]
<1>1. n \in Nat /\ n = Len(L) /\ \A i \in 1 .. n : rr.data[i] \in Says(L[i])
  BY RecordFacts
<1>2. Fields(rr) = FlattenSeq(ss) /\ Fields(rr) \in Seq(X)
  <2>1. Fields(rr) = FlattenSeq(ss)
    BY Zenon DEF Fields
  <2>2. Fields(rr) \in Seq(X)
    BY FieldsFacts
  <2> QED
    BY <2>1, <2>2
<1>3. CASE n = 0
  <2>1. ss = <<>>
    BY <1>3
  <2>2. FlattenSeq(ss) = <<>>
    BY <2>1 DEF FlattenSeq
  <2>3. Len(Fields(rr)) = 0
    BY <1>2, <2>2
  <2> QED
    BY <1>1, <1>3, <2>3
<1>4. CASE n > 0
  <2>1. \A i \in 1 .. n - 1 : L[i] # "names"
    <3>1. rr.type \in RRType
      BY RecordFacts
    <3>2. \A i \in 1 .. n : /\ Layout[rr.type][i] = "names" <=> L[i] = "names"
                            /\ Layout[rr.type][i] \in Final => i = n
      BY <1>1, <3>1, Zenon DEF LayoutsAgree
    <3>3. "names" \in Final
      BY DEF Final, Repeated
    <3>4. \A i \in 1 .. n - 1 : i \in 1 .. n /\ i # n
      BY <1>1
    <3> QED
      BY <3>2, <3>3, <3>4
  <2>2. \A i \in 1 .. n : /\ L[i] # "names" => group(i) = << <<L[i], rr.data[i]>> >>
                          /\ L[i] = "names" =>
                               group(i) = [j \in 1 .. Len(rr.data[i]) |-> <<"name", rr.data[i][j]>>]
    OBVIOUS
  <2>3. L[n] = "names" => Len(rr.data[n]) \in Nat
    <3>1. n \in 1 .. n
      BY <1>1, <1>4
    <3>2. L[n] = "names" => rr.data[n] \in Seq(Seq(Label))
      BY <1>1, <3>1, SizeFacts DEF Says
    <3> QED
      BY <3>2
  <2> DEFINE Y == UNION {{group(i)[j] : j \in DOMAIN group(i)} : i \in 1 .. n}
  <2>4. \A i \in 1 .. n : group(i) \in Seq(Y) /\ (L[i] # "names" => Len(group(i)) = 1)
    <3> TAKE i \in 1 .. n
    <3>1. CASE L[i] # "names"
      <4> DEFINE e == <<L[i], rr.data[i]>>
      <4>1. group(i) = <<e>>
        BY <2>2, <3>1
      <4> HIDE DEF e, group
      <4>2. DOMAIN group(i) = {1} /\ group(i)[1] = e
        BY <4>1
      <4>3. e \in Y
        BY <4>2
      <4> HIDE DEF Y
      <4> QED
        BY <3>1, <4>1, <4>3
    <3>2. CASE L[i] = "names"
      <4>1. i = n
        BY <1>1, <2>1, <3>2
      <4> DEFINE k == Len(rr.data[i])
      <4>2. k \in Nat
        BY <2>3, <3>2, <4>1
      <4>3. group(i) = [j \in 1 .. k |-> <<"name", rr.data[i][j]>>]
        BY <2>2, <3>2
      <4> HIDE DEF group, k
      <4>4. DOMAIN group(i) = 1 .. k
        BY <4>3
      <4>5. \A j \in 1 .. k : group(i)[j] \in Y
        <5> TAKE j \in 1 .. k
        <5>1. j \in DOMAIN group(i)
          BY <4>4
        <5> DEFINE G == {group(i)[q] : q \in DOMAIN group(i)}
        <5>2. group(i)[j] \in G
          BY <5>1
        <5>3. G \in {{group(h)[q] : q \in DOMAIN group(h)} : h \in 1 .. n}
          OBVIOUS
        <5> HIDE DEF G
        <5> QED
          BY <5>2, <5>3
      <4>6. group(i) = [j \in 1 .. k |-> group(i)[j]]
        BY <4>3
      <4> HIDE DEF Y
      <4>7. group(i) \in Seq(Y)
        BY <4>2, <4>5, <4>6
      <4> QED
        BY <3>2, <4>7
    <3> QED
      BY <3>1, <3>2
  <2> HIDE DEF Y
  <2>5. ss \in Seq(Seq(Y)) /\ Len(ss) = n /\ \A i \in 1 .. n : ss[i] = group(i)
    <3> HIDE DEF group, n
    <3> QED
      BY <1>1, <2>4
  <2>6. \A i \in 1 .. n - 1 : Len(ss[i]) = 1
    <3> TAKE i \in 1 .. n - 1
    <3>1. i \in 1 .. n
      BY <1>1
    <3> HIDE DEF group, ss, n
    <3> QED
      BY <2>1, <2>4, <2>5, <3>1
  <2> DEFINE fs == FlattenSeq(ss)
  <2> HIDE DEF ss, fs
  <2>7. /\ Len(fs) = n - 1 + Len(ss[n])
        /\ \A j \in 1 .. Len(fs) : fs[j] = IF j < n THEN ss[j][1] ELSE ss[n][j - (n - 1)]
    <3> HIDE DEF n, L, group
    <3> QED
      BY <1>1, <1>4, <2>5, <2>6, FlattenIndex DEF fs
  <2>8. n \in 1 .. n
    BY <1>1, <1>4
  <2>9. L[n] # "names" => Len(ss[n]) = 1 /\ Len(fs) = n
    <3> HIDE DEF n, L, group
    <3>1. L[n] # "names" => Len(ss[n]) = 1
      BY <2>4, <2>5, <2>8
    <3> QED
      <4>1. Len(fs) = n - 1 + Len(ss[n]) /\ n \in Nat
        BY <1>1, <2>7
      <4> DEFINE k == Len(ss[n])
                 l == Len(fs)
      <4>2. k = 1 => l = n
        <5> HIDE DEF k
        <5> QED
          BY <4>1 DEF k
      <4> QED
        BY <3>1, <4>2
  <2>10. L[n] = "names" => /\ Len(ss[n]) \in Nat
                           /\ \A i \in 1 .. Len(ss[n]) : ss[n][i][1] = "name"
    <3> DEFINE k == Len(rr.data[n])
    <3>1. ASSUME L[n] = "names"
          PROVE  ss[n] = [j \in 1 .. k |-> <<"name", rr.data[n][j]>>] /\ k \in Nat
      BY <2>2, <2>3, <2>5, <2>8, <3>1
    <3> HIDE DEF k
    <3> QED
      BY <3>1
  <2>11. \A j \in 1 .. n : L[j] # "names" => ss[j][1][1] = L[j]
    <3> TAKE j \in 1 .. n
    <3>1. L[j] # "names" => ss[j] = << <<L[j], rr.data[j]>> >>
      BY <2>2, <2>5
    <3> QED
      BY <3>1
  <2>12. ASSUME NEW j \in 1 .. Len(fs)
         PROVE  fs[j][1] = IF L[Least(j, n)] = "names" THEN "name" ELSE L[Least(j, n)]
    <3> HIDE DEF L, n
    <3>0. Len(fs) \in Nat
      BY <1>1, <1>4, <2>7, <2>9, <2>10
    <3>1. CASE j < n
      <4>1. Least(j, n) = j /\ j \in 1 .. n - 1 /\ j \in 1 .. n
        BY <1>1, <3>0, <3>1 DEF Least
      <4> QED
        BY <2>1, <2>7, <2>11, <3>1, <4>1
    <3>2. CASE ~(j < n)
      <4>1. Least(j, n) = n
        BY <1>1, <3>0, <3>2 DEF Least
      <4>2. fs[j] = ss[n][j - (n - 1)]
        BY <2>7, <3>2
      <4>3. CASE L[n] = "names"
        <5>1. j - (n - 1) \in 1 .. Len(ss[n])
          BY <1>1, <2>7, <2>10, <3>0, <3>2, <4>3
        <5> QED
          BY <2>10, <4>1, <4>2, <4>3, <5>1
      <4>4. CASE L[n] # "names"
        <5>1. j = n /\ j - (n - 1) = 1
          BY <1>1, <2>9, <3>0, <3>2, <4>4
        <5> QED
          BY <2>8, <2>11, <4>1, <4>2, <4>4, <5>1
      <4> QED
        BY <4>3, <4>4
    <3> QED
      BY <3>1, <3>2
  <2>13. Len(fs) \in Nat /\ (Len(fs) > n => L[n] = "names")
         /\ (Len(fs) < n => Len(fs) = n - 1 /\ L[n] = "names")
    <3> HIDE DEF L, n
    <3> QED
      BY <1>1, <1>4, <2>7, <2>9, <2>10
  <2> HIDE DEF L, n
  <2>14. Fields(rr) = fs
    BY <1>2 DEF fs
  <2> QED
    BY <1>1, <1>4, <2>12, <2>13, <2>14 DEF L
<1> QED
  BY <1>1, <1>3, <1>4

(* The writer's fields of a record agree with the reader's layout.         *)
LEMMA FieldsAgree ==
  ASSUME LayoutsAgree, NEW m \in Messages, NEW rr \in ToSet(m.records)
  PROVE  /\ rr.type \in RRType /\ Layout[rr.type] \in Seq(Kind)
         /\ Agree(Fields(rr), Layout[rr.type]) /\ Spaced(Fields(rr))
<1> DEFINE L == PackLayout[rr.type]
           T == Layout[rr.type]
           fs == Fields(rr)
           n == Len(L)
           least(j) == Least(j, n)
<1>1. rr.type \in RRType /\ T \in Seq(Kind)
  BY RecordFacts, LayoutRead
<1>2. /\ n \in Nat /\ Len(fs) \in Nat /\ (Len(fs) > n => n > 0 /\ L[n] = "names")
      /\ (Len(fs) < n => Len(fs) = n - 1 /\ L[n] = "names")
      /\ \A j \in 1 .. Len(fs) :
           n > 0 /\ fs[j][1] = IF L[least(j)] = "names" THEN "name" ELSE L[least(j)]
  BY FieldIndex
<1>3. /\ Len(T) = n
      /\ \A i \in 1 .. n : /\ Written(T[i]) = ItemOf(L[i])
                           /\ T[i] = "names" <=> L[i] = "names"
                           /\ T[i] \in Final => i = n
      /\ \A i, j \in 1 .. n : i < j /\ L[i] = L[j] /\ L[i] \in Hollow =>
           \E k \in (i + 1) .. (j - 1) : L[k] \in Solid
  BY <1>1, Zenon DEF LayoutsAgree
<1> HIDE DEF L, T, fs, n
<1>4. \A j \in 1 .. Len(fs) : /\ least(j) \in 1 .. n /\ (j <= n => least(j) = j)
                              /\ (~(j <= n) => least(j) = n)
  <2> TAKE j \in 1 .. Len(fs)
  <2>1. n > 0 /\ j \in Nat /\ j > 0 /\ n \in Nat
    BY <1>2
  <2> QED
    BY <2>1 DEF Least
<1>5. Agree(fs, T)
  <2>1. ASSUME NEW j \in 1 .. Len(fs)
        PROVE  T # <<>> /\ ItemOf(fs[j][1]) = Written(T[least(j)])
    <3>1. n > 0 /\ least(j) \in 1 .. n
      BY <1>2, <1>4
    <3>2. T # <<>>
      <4>1. Len(T) # 0
        BY <1>2, <1>3, <3>1
      <4> QED
        BY <4>1
    <3>3. ItemOf(fs[j][1]) = ItemOf(L[least(j)])
      BY <1>2 DEF ItemOf
    <3>4. Written(T[least(j)]) = ItemOf(L[least(j)])
      BY <1>3, <3>1
    <3> QED
      BY <3>2, <3>3, <3>4
  <2>2. \A j \in 1 .. n - 1 : T[j] \notin Final
    <3>1. \A j \in 1 .. n - 1 : j \in 1 .. n /\ j # n
      BY <1>2
    <3> QED
      BY <1>3, <3>1
  <2>3. Len(fs) > n => T[n] = "names"
    <3>1. n > 0 => n \in 1 .. n
      BY <1>2
    <3> QED
      BY <1>2, <1>3, <3>1
  <2>4. Len(fs) < n => Len(fs) = n - 1 /\ T[n] \in Absent
    <3>1. Len(fs) < n => n \in 1 .. n
      BY <1>2
    <3> QED
      BY <1>2, <1>3, <3>1 DEF Absent, Repeated
  <2> QED
    BY <1>3, <2>1, <2>2, <2>3, <2>4 DEF Agree
<1>6. Spaced(fs)
  <2> SUFFICES ASSUME NEW i \in 1 .. Len(fs), NEW j \in 1 .. Len(fs), i < j,
                      fs[i][1] = fs[j][1], fs[i][1] \in Hollow
               PROVE  \E k \in 1 .. Len(fs) : i < k /\ k < j /\ fs[k][1] \in Solid
    BY DEF Spaced
  <2>1. "name" \notin Hollow /\ "names" \notin Solid
    BY SizeFacts DEF Hollow, Solid
  <2>2. L[least(i)] # "names" /\ L[least(j)] # "names"
    BY <1>2, <2>1
  <2>3. \A l \in 1 .. Len(fs) : L[least(l)] # "names" => l <= n
    <3> TAKE l \in 1 .. Len(fs)
    <3>1. ~(l <= n) => Len(fs) > n
      BY <1>2
    <3> QED
      BY <1>2, <1>4, <3>1
  <2>4. i <= n /\ j <= n
    BY <2>2, <2>3
  <2>5. i \in 1 .. n /\ j \in 1 .. n /\ L[i] = L[j] /\ L[i] \in Hollow
    BY <1>2, <1>4, <2>2, <2>4
  <2>6. PICK k \in (i + 1) .. (j - 1) : L[k] \in Solid
    BY <1>3, <2>5
  <2>7. k \in 1 .. Len(fs) /\ i < k /\ k < j /\ k <= n
    BY <1>2, <2>4
  <2>8. fs[k][1] = L[k]
    BY <1>2, <1>4, <2>1, <2>6, <2>7
  <2> QED
    BY <2>6, <2>7, <2>8
<1> QED
  BY <1>1, <1>5, <1>6 DEF T, fs

-----------------------------------------------------------------------------
(* The writer's invariant for the reader.                                  *)

(* A record stands at o, or what is written next does.                     *)
Reached(o) == \/ \E r \in written : r.kind = "record" /\ r.at = o
              \/ o = IF pk = "field" THEN begin ELSE at

(* In W the record begun at b ends at p, with nothing left or with fields  *)
(* that may be missing; or there is a field there, read as T says, and     *)
(* behind it what F has.                                                   *)
Ends(W, p, b) == \E r \in W : r.kind = "record" /\ r.at = b /\ r.end = p
Follows(W, F, p, T, b) ==
  T # <<>> /\ \E w \in W : w.at = p /\ w.kind = Written(Head(T)) /\ <<w.end, After(T), b>> \in F
AtFront(p, T, b) == pk = "field" /\ p = at /\ b = begin /\ Agree(fields, T)
Inside(W, o, p, b) == p <= o /\ \A r \in W : r.kind = "record" /\ r.at = b => p <= r.end

(* A record: its owner, its fixed part, its fields.                        *)
Framed(W, F, r) ==
  \E n, f \in W : /\ n.kind = "name" /\ n.at = r.at /\ f.kind = "fixed" /\ f.at = n.end
                  /\ f.type \in RRType /\ n.end + 10 + f.num = r.end
                  /\ <<n.end + 10, Layout[f.type], r.at>> \in F

Lays(F) ==
  /\ F \subseteq Nat \X Seq(Kind) \X Nat
  /\ \A p, T, b : <<p, T, b>> \in F =>
       \/ Ends(written, p, b) /\ Closing(T)
       \/ Follows(written, F, p, T, b)
       \/ AtFront(p, T, b)
  /\ \A p, T, b : <<p, T, b>> \in F => Inside(written, at, p, b)
  /\ \A r \in written : r.kind = "record" => Framed(written, F, r)
  /\ pk = "field" => \E n \in Names(begin) :
                       <<n.end + 10, Layout[src.records[rec].type], begin>> \in F

Chained ==
  /\ \E h \in written : h.at = 0 /\ h.kind = "header" /\ h.counts = SectionCounts(src)
  /\ \A r \in written : r.kind = "record" => pk # "question" /\ Reached(r.end)
  /\ pk = "question" => src.question # <<>>
  /\ pk # "question" => IF src.question = <<>> THEN Reached(12)
                        ELSE \E n \in Names(12) : Reached(n.end + 4)

Apart ==
  /\ Unique /\ Filled /\ Sized
  /\ pk = "field" =>
       /\ \A w \in written : w.kind \in {"record", "fixed"} => w.end <= begin
       /\ Spaced(fields) /\ Clear(written, at, fields)

SInv == Active => Apart /\ (\E R : Spells(R)) /\ (\E F : Lays(F)) /\ Chained

-----------------------------------------------------------------------------
LEMMA ItemsAre ==
  ASSUME Laid, NEW w \in written
  PROVE  w.at \in Nat /\ w.end \in Nat /\ w.num \in Nat /\ w.at <= w.end /\ w.end <= at
         /\ w.labels \in Seq(Label) /\ w.kind \in ItemKind
  BY DEF Laid, Item

(* New items apart from each other and from the old ones.                  *)
LEMMA UniqueGrows ==
  ASSUME Unique, NEW N, written' = written \cup N,
         \A v, w \in N : v.at = w.at /\ Class(v.kind) = Class(w.kind) => v = w,
         \A v \in written, w \in N : v.at = w.at => Class(v.kind) # Class(w.kind)
  PROVE  Unique'
<1> SUFFICES ASSUME NEW v \in written', NEW w \in written', v.at = w.at,
                    Class(v.kind) = Class(w.kind)
             PROVE  v = w
  BY DEF Unique
<1>1. v \in written \cup N /\ w \in written \cup N
  OBVIOUS
<1> QED
  BY <1>1 DEF Unique

(* What stands before "at" is hollow if it reaches to "at" or behind it.   *)
LEMMA OldIsBefore ==
  ASSUME Laid, Filled, at \in Nat, NEW v \in written, NEW o \in Nat, at <= o, v.at = o
  PROVE  o = at /\ v.kind \in Hollow /\ v.end = at
<1>1. v.at \in Nat /\ v.end \in Nat /\ v.at <= v.end /\ v.end <= at
  BY ItemsAre
<1>2. v.at = at /\ v.end = at
  BY <1>1
<1>3. ~(v.at < v.end)
  BY <1>2
<1> QED
  BY <1>2, <1>3 DEF Filled

LEMMA FollowsMore ==
  ASSUME NEW V, NEW W, V \subseteq W, NEW F, NEW G, F \subseteq G
  PROVE  /\ \A p, b : Ends(V, p, b) => Ends(W, p, b)
         /\ \A p, T, b : Follows(V, F, p, T, b) => Follows(W, G, p, T, b)
         /\ \A r : Framed(V, F, r) => Framed(W, G, r)
  BY DEF Ends, Follows, Framed

LEMMA ReachedStays ==
  ASSUME NEW o, Reached(o), written \subseteq written',
         IF pk = "field" THEN IF pk' = "field" THEN begin' = begin
                              ELSE \E r \in written' : r.kind = "record" /\ r.at = begin
         ELSE IF pk' = "field" THEN begin' = at ELSE at' = at
  PROVE  Reached(o)'
  BY DEF Reached

LEMMA KindsApart ==
  /\ Hollow \cap NameItems = {} /\ "octets" \notin Hollow /\ "name" \notin Hollow
  /\ "octets" \notin ItemKind /\ Hollow \cap DOMAIN Size = {}
  /\ \A k : k \in Hollow \cup {"name", "question", "record", "fixed", "header"} => Class(k) = k
  /\ \A k : k \in NameItems => Class(k) = "octets"
  /\ NameItems \cap DOMAIN Size = {}
  /\ {"name", "question", "record", "fixed", "header"} \cap (Hollow \cup DOMAIN Size) = {}
  BY SizeFacts DEF Hollow, NameItems, ItemKind, Class

(* A record that ends by o begins before.                                  *)
LEMMA RecordIsBehind ==
  ASSUME Laid, Filled, NEW o \in Nat, NEW r \in written, r.kind = "record", r.end <= o
  PROVE  r.at # o
<1>1. r.at \in Nat /\ r.end \in Nat
  BY ItemsAre
<1>2. r.at < r.end
  BY KindsApart DEF Filled
<1> QED
  BY <1>1, <1>2

(* Items written where the message ends, or behind.                        *)
LEMMA ApartGrows ==
  ASSUME Laid, at \in Nat, Unique, Filled, Sized, NEW N, written' = written \cup N,
         \A w \in N : /\ w.at \in Nat /\ at <= w.at
                      /\ w.kind \notin Hollow => w.at < w.end
                      /\ w.kind \in DOMAIN Size => w.end = w.at + Size[w.kind]
                      /\ w.kind \in Hollow => \A v \in written : v.at = w.at => v.kind # w.kind,
         \A v, w \in N : v.at = w.at /\ Class(v.kind) = Class(w.kind) => v = w
  PROVE  Unique' /\ Filled' /\ Sized'
<1>1. ASSUME NEW v \in written, NEW w \in N, v.at = w.at
      PROVE  Class(v.kind) # Class(w.kind)
  <2>1. v.kind \in Hollow
    BY <1>1, OldIsBefore
  <2>2. Class(v.kind) = v.kind
    BY <2>1, KindsApart
  <2>3. CASE w.kind \in Hollow
    <3>1. Class(w.kind) = w.kind
      BY <2>3, KindsApart
    <3> QED
      BY <1>1, <2>2, <2>3, <3>1
  <2>4. CASE w.kind \notin Hollow
    <3>1. Class(w.kind) = w.kind \/ Class(w.kind) = "octets"
      BY DEF Class
    <3> QED
      BY <2>1, <2>2, <2>4, <3>1, KindsApart
  <2> QED
    BY <2>3, <2>4
<1>2. Unique'
  BY <1>1, UniqueGrows
<1>3. Filled'
  BY DEF Filled
<1>4. Sized'
  BY DEF Sized
<1> QED
  BY <1>2, <1>3, <1>4

(* A name where the message ends, and perhaps a question behind it.        *)
LEMMA NameKeepsApart ==
  ASSUME Laid, Pointable, at \in Nat, Unique, Filled, Sized,
         NEW labels \in Seq(Label), NEW compress \in BOOLEAN,
         NEW extra, \A w \in extra : /\ w.at = NameEndsAt(labels, at, compress) /\ w.at < w.end
                                     /\ w.kind = "question",
         \A v, w \in extra : v = w,
         written' = written \cup NameWritten(labels, at, compress) \cup extra
  PROVE  Unique' /\ Filled' /\ Sized'
<1> DEFINE e == NameEndsAt(labels, at, compress)
           ws == NameWritten(labels, at, compress)
           N == ws \cup extra
<1>1. /\ \A v, w \in ws : v.at = w.at /\ Class(v.kind) = Class(w.kind) => v = w
      /\ \A w \in ws : w.at < w.end /\ at <= w.at /\ w.kind \in NameItems \cup {"name"}
  BY NameApart
<1>2. ws \subseteq Item /\ e \in Nat /\ at < e
  <2>1. ws \subseteq Item
    BY NameWrittenFacts
  <2>2. e \in Nat /\ at + 2 * (Pointed(labels, compress) - 1) < e
    BY NameEndFacts
  <2>3. Pointed(labels, compress) \in 1 .. Len(labels) + 1 /\ Len(labels) \in Nat
    BY PointedFacts
  <2> HIDE DEF e, ws
  <2> QED
    BY <2>1, <2>2, <2>3
<1> HIDE DEF e, ws
<1>3. \A w \in extra : w.at = e /\ w.at < w.end /\ w.kind = "question"
  BY DEF e
<1>4. \A w \in ws : w.at \in Nat
  BY <1>2 DEF Item
<1>5. \A w \in N : /\ w.at \in Nat /\ at <= w.at
                   /\ w.kind \notin Hollow => w.at < w.end
                   /\ w.kind \in DOMAIN Size => w.end = w.at + Size[w.kind]
                   /\ w.kind \in Hollow => \A v \in written : v.at = w.at => v.kind # w.kind
  <2> TAKE w \in N
  <2>1. CASE w \in ws
    <3>1. w.kind \notin Hollow /\ w.kind \notin DOMAIN Size
      BY <1>1, <2>1, KindsApart
    <3> QED
      BY <1>1, <1>4, <2>1, <3>1
  <2>2. CASE w \in extra
    <3>1. w.kind \notin Hollow /\ w.kind \notin DOMAIN Size
      BY <1>3, <2>2, KindsApart
    <3> QED
      BY <1>2, <1>3, <2>2, <3>1
  <2> QED
    BY <2>1, <2>2
<1>6. ASSUME NEW v \in N, NEW w \in N, v.at = w.at, Class(v.kind) = Class(w.kind)
      PROVE  v = w
  <2>1. \A x \in ws : Class(x.kind) \in {"octets", "name"}
    BY <1>1, KindsApart
  <2>2. \A x \in extra : Class(x.kind) = "question"
    BY <1>3, KindsApart
  <2> QED
    BY <1>1, <1>6, <2>1, <2>2
<1>7. written' = written \cup N
  BY DEF ws
<1> HIDE DEF N
<1>8. \A v, w \in N : v.at = w.at /\ Class(v.kind) = Class(w.kind) => v = w
  BY <1>6
<1> QED
  BY ONLY Laid, at \in Nat, Unique, Filled, Sized, <1>5, <1>7, <1>8, ApartGrows

LEMMA LaysGrow ==
  ASSUME NEW F, Lays(F), NEW G, F \subseteq G, G \subseteq Nat \X Seq(Kind) \X Nat,
         written \subseteq written', at \in Nat, at' \in Nat, at <= at',
         \A p, T, b : <<p, T, b>> \in G \ F =>
           Follows(written', G, p, T, b) \/ AtFront(p, T, b)',
         \A p, T, b : <<p, T, b>> \in G \ F => Inside(written', at', p, b),
         \A p, T, b : <<p, T, b>> \in F /\ AtFront(p, T, b) =>
           \/ Ends(written', p, b) /\ Closing(T)
           \/ Follows(written', G, p, T, b)
           \/ AtFront(p, T, b)',
         \A r \in written' \ written : r.kind = "record" => Framed(written', G, r) /\ r.end = at,
         pk' = "field" => \E n \in Names(begin)' :
           <<n.end + 10, Layout[src'.records[rec'].type], begin'>> \in G
  PROVE  Lays(G)'
<1>1. ASSUME NEW p, NEW T, NEW b, <<p, T, b>> \in G
      PROVE  \/ Ends(written', p, b) /\ Closing(T)
             \/ Follows(written', G, p, T, b)
             \/ AtFront(p, T, b)'
  <2>1. CASE <<p, T, b>> \in F
    <3>1. \/ Ends(written, p, b) /\ Closing(T)
          \/ Follows(written, F, p, T, b)
          \/ AtFront(p, T, b)
      BY <2>1 DEF Lays
    <3>2. Ends(written, p, b) => Ends(written', p, b)
      BY FollowsMore
    <3>3. Follows(written, F, p, T, b) => Follows(written', G, p, T, b)
      BY FollowsMore
    <3> QED
      BY <2>1, <3>1, <3>2, <3>3
  <2>2. CASE <<p, T, b>> \notin F
    BY <1>1, <2>2
  <2> QED
    BY <2>1, <2>2
<1>2. ASSUME NEW r \in written', r.kind = "record"
      PROVE  Framed(written', G, r)
  <2>1. CASE r \in written
    <3>1. Framed(written, F, r)
      BY <1>2, <2>1 DEF Lays
    <3> QED
      BY <3>1, FollowsMore
  <2> QED
    BY <1>2, <2>1
<1>3. ASSUME NEW p, NEW T, NEW b, <<p, T, b>> \in G
      PROVE  Inside(written', at', p, b)
  <2>1. CASE <<p, T, b>> \in F
    <3>1. Inside(written, at, p, b) /\ p \in Nat
      BY <2>1 DEF Lays
    <3>2. p <= at'
      BY <3>1 DEF Inside
    <3>3. ASSUME NEW r \in written', r.kind = "record", r.at = b
          PROVE  p <= r.end
      BY <3>1, <3>3 DEF Inside
    <3> QED
      BY <3>2, <3>3 DEF Inside
  <2>2. CASE <<p, T, b>> \notin F
    BY <1>3, <2>2
  <2> QED
    BY <2>1, <2>2
<1> QED
  BY <1>1, <1>2, <1>3 DEF Lays

LEMMA HeaderShows ==
  ASSUME WInv, PackHeader, LayoutsAgree
  PROVE  SInv'
<1>1. PICK m \in Messages :
        /\ src' = m /\ at' = 12 /\ pk' = IF m.question = <<>> THEN "rr" ELSE "question"
        /\ written' = {[Plain(0, 12, "header") EXCEPT !.counts = SectionCounts(m)]}
  BY DEF PackHeader
<1>2. /\ DOMAIN compression = {} /\ compression' = compression
  BY DEF PackHeader, WInv, Source, Pointable
<1> DEFINE c == SectionCounts(m)
           w == [Plain(0, 12, "header") EXCEPT !.counts = c]
<1>3. w.at = 0 /\ w.end = 12 /\ w.kind = "header" /\ w.counts = c
  <2> HIDE DEF c
  <2> QED
    BY DEF Plain
<1>4. written' = {w}
  BY <1>1
<1> HIDE DEF w, c
<1>5. Apart'
  <2>1. Unique'
    BY <1>4 DEF Unique
  <2>2. Filled' /\ Sized'
    BY <1>3, <1>4, KindsApart DEF Filled, Sized
  <2> QED
    BY <1>1, <2>1, <2>2 DEF Apart
<1>6. \E R : Spells(R)'
  <2>1. SpellsIn(written', compression', {})
    BY <1>2, <1>3, <1>4 DEF SpellsIn
  <2> QED
    BY <2>1 DEF Spells
<1>7. \E F : Lays(F)'
  <2>1. Lays({})'
    BY <1>1, <1>3, <1>4 DEF Lays
  <2> QED
    BY <2>1
<1>8. Chained'
  <2>1. \E h \in written' : h.at = 0 /\ h.kind = "header" /\ h.counts = SectionCounts(src')
    BY <1>1, <1>3, <1>4 DEF c
  <2>2. m.question = <<>> => Reached(12)'
    BY <1>1 DEF Reached
  <2> QED
    BY <1>1, <1>3, <1>4, <2>1, <2>2 DEF Chained
<1> QED
  BY <1>5, <1>6, <1>7, <1>8 DEF SInv

(* A name with nothing behind it.                                          *)
LEMMA NameAlone ==
  ASSUME Laid, Pointable, InOrder, at \in Nat, Unique, Filled, Sized, \E R : Spells(R),
         NEW labels \in Seq(Label), NEW compress \in BOOLEAN,
         written' = written \cup NameWritten(labels, at, compress),
         compression' = Learnt(labels, at, compress)
  PROVE  Unique' /\ Filled' /\ Sized' /\ \E S : Spells(S)'
<1>1. PICK extra : extra = {}
  OBVIOUS
<1>2. written' = written \cup NameWritten(labels, at, compress) \cup extra
  BY <1>1
<1>3. /\ \A w \in extra : /\ w.at = NameEndsAt(labels, at, compress) /\ w.at < w.end
                           /\ w.kind = "question"
      /\ \A v, w \in extra : v = w
      /\ \A w \in extra : w.kind # "name"
  BY <1>1
<1>4. Unique' /\ Filled' /\ Sized'
  BY <1>2, <1>3, NameKeepsApart
<1>5. \E S : Spells(S)'
  <2>1. PICK R : Spells(R)
    OBVIOUS
  <2> QED
    BY <1>2, <1>3, <2>1, NameSpells
<1> QED
  BY <1>4, <1>5

LEMMA QuestionShows ==
  ASSUME WInv, InOrder, PackQuestion, SInv
  PROVE  SInv'
<1> DEFINE labels == src.question[1]
           e == NameEndsAt(labels, at, src.compress)
           q == Plain(e, e + 4, "question")
           extra == {q}
<1>1. /\ pk = "question" /\ src \in Messages /\ at = 12 /\ at \in Nat /\ Len(src.question) = 1
      /\ Laid /\ Pointable
  BY DEF PackQuestion, WInv, Source, Budget
<1>2. labels \in Seq(Label) /\ src.compress \in BOOLEAN
  BY <1>1, LensFacts, MessageFacts
<1>3. CASE pk' = "overflow"
  BY <1>3 DEF SInv, Active
<1>4. CASE pk' # "overflow"
  <2>1. /\ at' = e + 4 /\ pk' = "rr"
        /\ written' = written \cup NameWritten(labels, at, src.compress) \cup extra
        /\ compression' = Learnt(labels, at, src.compress)
        /\ UNCHANGED <<src, rec, begin, fields>>
    BY <1>4 DEF PackQuestion, Overflow
  <2>2. Apart /\ (\E R : Spells(R)) /\ (\E F : Lays(F)) /\ Chained
    BY <1>1 DEF SInv, Active
  <2>3. e \in Nat /\ at < e
    <3>1. e \in Nat /\ at + 2 * (Pointed(labels, src.compress) - 1) < e
      BY <1>1, <1>2, NameEndFacts
    <3>2. Pointed(labels, src.compress) \in 1 .. Len(labels) + 1 /\ Len(labels) \in Nat
      BY <1>2, PointedFacts
    <3> HIDE DEF e
    <3> QED
      BY <1>1, <3>1, <3>2
  <2>4. q.at = e /\ q.end = e + 4 /\ q.kind = "question"
    BY DEF Plain
  <2>5. NameItem(labels, at, src.compress) \in NameWritten(labels, at, src.compress)
        /\ NameItem(labels, at, src.compress).at = at /\ NameItem(labels, at, src.compress).end = e
        /\ NameItem(labels, at, src.compress).kind = "name"
    <3> HIDE DEF labels, q, extra
    <3> QED
      BY <1>1, <1>2, NameItemIs, Zenon DEF e
  <2>6. \A w \in NameWritten(labels, at, src.compress) : w.kind \in NameItems \cup {"name"}
    BY <1>1, <1>2, NameApart
  <2> HIDE DEF q
  <2>7. extra = {q} /\ \A w \in extra : w.at = e /\ w.at < w.end /\ w.kind = "question"
    BY <2>3, <2>4
  <2> DEFINE n == NameItem(labels, at, src.compress)
             ws == NameWritten(labels, at, src.compress)
  <2> HIDE DEF extra
  <2>8. Apart'
    <3>1. Unique /\ Filled /\ Sized
      BY <2>2 DEF Apart
    <3>2. \A v, w \in extra : v = w
      BY <2>7
    <3> HIDE DEF labels
    <3>3. Unique' /\ Filled' /\ Sized'
      BY <1>1, <1>2, <2>1, <2>7, <3>1, <3>2, NameKeepsApart DEF e
    <3> QED
      BY <2>1, <3>3 DEF Apart
  <2>9. \E S : Spells(S)'
    <3>1. PICK R : Spells(R)
      BY <2>2
    <3>2. \A w \in extra : w.kind # "name"
      BY <2>7
    <3> HIDE DEF labels
    <3> QED
      BY <1>1, <1>2, <2>1, <3>1, <3>2, NameSpells
  <2> HIDE DEF n, ws, labels, e
  <2>10. written \subseteq written' /\ \A w \in written' \ written : w.kind # "record"
    BY <2>1, <2>6, <2>7 DEF NameItems, ws
  <2>11. n \in written' /\ n.kind = "name" /\ n.at = 12 /\ n.end = e
    BY <1>1, <2>1, <2>5 DEF n, ws
  <2>12. \E F : Lays(F)'
    <3>1. PICK F : Lays(F)
      BY <2>2
    <3>2. F \subseteq Nat \X Seq(Kind) \X Nat
      BY <3>1 DEF Lays
    <3>3. \A p, T, b : ~AtFront(p, T, b)
      BY <1>1 DEF AtFront
    <3>4. at' \in Nat /\ at <= at'
      BY <1>1, <2>1, <2>3
    <3>5. Lays(F)'
      BY <1>1, <2>1, <2>10, <3>1, <3>2, <3>3, <3>4, LaysGrow
    <3> QED
      BY <3>5
  <2>13. Chained'
    <3>1. \A r \in written' : r.kind # "record"
      BY <1>1, <2>2, <2>10 DEF Chained
    <3>2. src.question # <<>>
      BY <1>1, <2>2 DEF Chained
    <3>3. \E h \in written' : h.at = 0 /\ h.kind = "header" /\ h.counts = SectionCounts(src')
      BY <2>1, <2>2, <2>10 DEF Chained
    <3>4. PICK x : x = n
      OBVIOUS
    <3>5. x \in Names(12)' /\ x.end + 4 = at' /\ pk' = "rr"
      BY <2>1, <2>11, <3>4 DEF Names
    <3>6. Reached(x.end + 4)'
      BY <3>5 DEF Reached
    <3>7. src' = src /\ written \subseteq written'
      BY <2>1
    <3> QED
      BY <3>1, <3>2, <3>3, <3>5, <3>6, <3>7 DEF Chained
  <2> QED
    BY <2>8, <2>9, <2>12, <2>13 DEF SInv
<1> QED
  BY <1>3, <1>4

(* From one step to the next, if no new record is begun before its time.   *)
LEMMA ChainedStays ==
  ASSUME Chained, pk # "question", pk' # "question", src' = src, written \subseteq written',
         \A o : Reached(o) => Reached(o)',
         \A r \in written' \ written : r.kind = "record" => Reached(r.end)'
  PROVE  Chained'
<1>1. \E h \in written' : h.at = 0 /\ h.kind = "header" /\ h.counts = SectionCounts(src')
  BY DEF Chained
<1>2. \A r \in written' : r.kind = "record" => Reached(r.end)'
  <2> SUFFICES ASSUME NEW r \in written', r.kind = "record"
               PROVE  Reached(r.end)'
    OBVIOUS
  <2>1. CASE r \in written
    BY <2>1 DEF Chained
  <2> QED
    BY <2>1
<1>3. IF src'.question = <<>> THEN Reached(12)' ELSE \E n \in Names(12)' : Reached(n.end + 4)'
  <2>1. CASE src.question = <<>>
    BY <2>1 DEF Chained
  <2>2. CASE src.question # <<>>
    <3>1. PICK n \in Names(12) : Reached(n.end + 4)
      BY <2>2 DEF Chained
    <3>2. n \in Names(12)'
      BY DEF Names
    <3> QED
      BY <2>2, <3>1, <3>2
  <2> QED
    BY <2>1, <2>2
<1> QED
  BY <1>1, <1>2, <1>3 DEF Chained

LEMMA OwnerShows ==
  ASSUME WInv, InOrder, PackOwner, SInv, LayoutsAgree
  PROVE  SInv'
<1> DEFINE rr == src.records[rec + 1]
           e == NameEndsAt(rr.owner, at, src.compress)
           n == NameItem(rr.owner, at, src.compress)
           ws == NameWritten(rr.owner, at, src.compress)
<1>1. /\ pk = "rr" /\ src \in Messages /\ rec \in Nat /\ at \in Nat /\ rec < Len(src.records)
      /\ Laid /\ Pointable
  BY DEF PackOwner, WInv, Source
<1>2. rr \in ToSet(src.records) /\ src.compress \in BOOLEAN
  <2>1. Len(src.records) \in Nat
    BY <1>1, LensFacts
  <2>2. rec + 1 \in 1 .. Len(src.records)
    BY <1>1, <2>1
  <2> QED
    BY <1>1, <2>2, MessageFacts
<1>3. rr.owner \in Seq(Label)
  BY <1>1, <1>2, RecordFacts
<1>4. /\ rr.type \in RRType /\ Layout[rr.type] \in Seq(Kind)
      /\ Agree(Fields(rr), Layout[rr.type]) /\ Spaced(Fields(rr))
  BY <1>1, <1>2, FieldsAgree
<1>5. CASE pk' = "overflow"
  BY <1>5 DEF SInv, Active
<1>6. CASE pk' # "overflow"
  <2>1. /\ at' = e + 10 /\ begin' = at /\ rec' = rec + 1 /\ pk' = "field" /\ src' = src
        /\ fields' = Fields(rr)
        /\ written' = written \cup ws
        /\ compression' = Learnt(rr.owner, at, src.compress)
    BY <1>6 DEF PackOwner, Overflow
  <2>2. Apart /\ (\E R : Spells(R)) /\ (\E F : Lays(F)) /\ Chained
    BY <1>1 DEF SInv, Active
  <2>3. e \in Nat /\ at < e
    <3>1. e \in Nat /\ at + 2 * (Pointed(rr.owner, src.compress) - 1) < e
      BY <1>1, <1>2, <1>3, NameEndFacts
    <3> DEFINE q == Pointed(rr.owner, src.compress)
    <3>2. q \in 1 .. Len(rr.owner) + 1 /\ Len(rr.owner) \in Nat
      BY <1>2, <1>3, PointedFacts
    <3>3. q \in Nat /\ 1 <= q
      BY <3>2
    <3>4. at \in Nat
      BY <1>1
    <3>5. e \in Nat /\ at + 2 * (q - 1) < e
      BY <3>1
    <3> HIDE DEF e, q
    <3> QED
      BY <3>3, <3>4, <3>5
  <2>4. /\ n \in ws /\ n.at = at /\ n.end = e /\ n.kind = "name"
    <3>1. /\ rr.owner \in Seq(Label) /\ at \in Nat /\ src.compress \in BOOLEAN
          /\ Laid /\ Pointable
      BY <1>1, <1>2, <1>3
    <3> QED
      BY <3>1, NameItemIs
  <2>5. \A w \in ws : w.at < w.end /\ at <= w.at /\ w.kind \in NameItems \cup {"name"}
    BY <1>1, <1>2, <1>3, NameApart
  <2>6. \A w \in ws : w.end <= e /\ w \in Item
    BY <1>1, <1>2, <1>3, NameWrittenFacts
  <2>7. Unique' /\ Filled' /\ Sized'
    BY <1>1, <1>2, <1>3, <2>1, <2>2, NameAlone DEF Apart
  <2>8. \E S : Spells(S)'
    BY <1>1, <1>2, <1>3, <2>1, <2>2, NameAlone DEF Apart
  <2> HIDE DEF n, ws, e
  <2>9. \A w \in written : w.at \in Nat /\ w.end \in Nat /\ w.at <= w.end /\ w.end <= at
    BY <1>1, ItemsAre
  <2>10. Apart'
    <3>1. \A w \in written' : w.kind \in {"record", "fixed"} => w.end <= begin'
      BY <2>1, <2>5, <2>9 DEF NameItems
    <3>2. \A w \in written' : w.at # at'
      <4> SUFFICES ASSUME NEW w \in written'
                   PROVE  w.at # at'
        OBVIOUS
      <4>1. CASE w \in written
        BY <1>1, <2>1, <2>3, <2>9, <4>1
      <4>2. CASE w \in ws
        <5>1. w.at \in Nat /\ w.end \in Nat
          BY <2>6, <4>2 DEF Item
        <5> QED
          BY <2>1, <2>3, <2>5, <2>6, <4>2, <5>1
      <4> QED
        BY <2>1, <4>1, <4>2
    <3>3. Clear(written', at', fields')
      BY <3>2 DEF Clear
    <3>4. Spaced(fields')
      BY <1>4, <2>1
    <3> QED
      BY <2>7, <3>1, <3>3, <3>4 DEF Apart
  <2>11. \E F : Lays(F)'
    <3>1. PICK F : Lays(F)
      BY <2>2
    <3> DEFINE new == <<e + 10, Layout[rr.type], at>>
    <3>0. PICK G : G = F \cup {new}
      OBVIOUS
    <3>2. G \subseteq Nat \X Seq(Kind) \X Nat /\ F \subseteq G /\ new \in G
      BY <1>1, <1>4, <2>3, <3>0, <3>1 DEF Lays
    <3>3. \A p, T, b : ~AtFront(p, T, b)
      BY <1>1 DEF AtFront
    <3>4. \A p, T, b : <<p, T, b>> \in G \ F => AtFront(p, T, b)'
      <4> SUFFICES ASSUME NEW p, NEW T, NEW b, <<p, T, b>> = new
                   PROVE  AtFront(p, T, b)'
        BY <3>0
      <4>1. p = e + 10 /\ T = Layout[rr.type] /\ b = at
        OBVIOUS
      <4> QED
        BY <1>4, <2>1, <4>1 DEF AtFront
    <3>5. \A r \in written' \ written : r.kind # "record"
      BY <2>1, <2>5 DEF NameItems
    <3>6. \E x \in Names(begin)' : <<x.end + 10, Layout[src'.records[rec'].type], begin'>> \in G
      <4>1. n \in Names(begin)'
        BY <2>1, <2>4 DEF Names
      <4>2. <<n.end + 10, Layout[src'.records[rec'].type], begin'>> = new
        BY <2>1, <2>4
      <4> QED
        BY <3>2, <4>1, <4>2
    <3> HIDE DEF new
    <3>7. written \subseteq written' /\ at' \in Nat /\ at <= at'
      BY <1>1, <2>1, <2>3
    <3>8. \A p, T, b : <<p, T, b>> \in G \ F => Inside(written', at', p, b)
      <4> SUFFICES ASSUME NEW p, NEW T, NEW b, <<p, T, b>> \in G \ F
                   PROVE  Inside(written', at', p, b)
        OBVIOUS
      <4>1. p = e + 10 /\ b = at
        BY <3>0 DEF new
      <4>2. \A r \in written' : r.kind = "record" => r \in written /\ r.at # at
        BY <1>1, <2>2, <2>9, <3>5, RecordIsBehind DEF Apart
      <4> QED
        BY <2>1, <2>3, <4>1, <4>2 DEF Inside
    <3>9. Lays(G)'
      BY <1>1, <3>1, <3>2, <3>3, <3>4, <3>5, <3>6, <3>7, <3>8, LaysGrow
    <3> QED
      BY <3>9
  <2>12. Chained'
    <3>1. \A o : Reached(o) => Reached(o)'
      BY <1>1, <2>1, ReachedStays
    <3>2. \A r \in written' \ written : r.kind # "record"
      BY <2>1, <2>5 DEF NameItems
    <3> QED
      BY <1>1, <2>1, <2>2, <3>1, <3>2, ChainedStays
  <2> QED
    BY <2>7, <2>8, <2>10, <2>11, <2>12 DEF SInv
<1> QED
  BY <1>5, <1>6

(* What is behind the fields that are left once the first is written.      *)
Fronts(fs) == {T \in Seq(Kind) : Agree(fs, T)}

LEMMA NameFieldShows ==
  ASSUME WInv, WInv', InOrder, PackName, SInv
  PROVE  SInv'
<1> DEFINE labels == Head(fields)[2]
           compress == src.compress /\ Head(fields)[1] = "cname"
           e == NameEndsAt(labels, at, compress)
           n == NameItem(labels, at, compress)
           ws == NameWritten(labels, at, compress)
           X == Own(src.records[rec])
<1>1. /\ pk = "field" /\ fields # <<>> /\ Head(fields)[1] \in {"name", "cname"}
      /\ at \in Nat /\ begin \in Nat /\ Laid /\ Pointable /\ fields \in Seq(X)
  BY DEF PackName, AtKind, WInv, Source
<1>2. labels \in Seq(Label) /\ compress \in BOOLEAN
  <2>1. Head(fields) \in Entry
    BY <1>1, HeadFacts
  <2>2. labels \in Seq(Label)
    BY <1>1, <2>1, EntryCost
  <2> QED
    BY <2>2
<1> HIDE DEF labels, compress
<1>3. CASE pk' = "overflow"
  BY <1>3 DEF SInv, Active
<1>4. CASE pk' # "overflow"
  <2>1. /\ at' = e /\ fields' = Tail(fields)
        /\ written' = written \cup ws
        /\ compression' = Learnt(labels, at, compress)
        /\ UNCHANGED <<src, pk, rec, begin>>
    BY <1>4 DEF PackName, Overflow, labels, compress
  <2>2. Apart /\ (\E R : Spells(R)) /\ (\E F : Lays(F)) /\ Chained
    BY <1>1 DEF SInv, Active
  <2>3. e \in Nat /\ at < e
    <3>1. e \in Nat /\ at + 2 * (Pointed(labels, compress) - 1) < e
      BY <1>1, <1>2, NameEndFacts
    <3>2. Pointed(labels, compress) \in 1 .. Len(labels) + 1 /\ Len(labels) \in Nat
      BY <1>2, PointedFacts
    <3> HIDE DEF e
    <3> QED
      BY <1>1, <3>1, <3>2
  <2>4. n \in ws /\ n.at = at /\ n.end = e /\ n.kind = "name"
    BY <1>1, <1>2, NameItemIs
  <2>5. \A w \in ws : w.at < w.end /\ at <= w.at /\ w.kind \in NameItems \cup {"name"}
    BY <1>1, <1>2, NameApart
  <2>6. \A w \in ws : w.end <= e /\ w \in Item
    BY <1>1, <1>2, NameWrittenFacts
  <2>7. Unique' /\ Filled' /\ Sized' /\ \E S : Spells(S)'
    BY <1>1, <1>2, <2>1, <2>2, NameAlone DEF Apart
  <2> HIDE DEF n, ws, e, X
  <2>8. \A w \in written : w.at \in Nat /\ w.end \in Nat /\ w.at <= w.end /\ w.end <= at
    BY <1>1, ItemsAre
  <2>9. /\ \A w \in written : w.kind \in {"record", "fixed"} => w.end <= begin
        /\ Spaced(fields)
    BY <1>1, <2>2 DEF Apart
  <2>10. Apart'
    <3>1. \A w \in written' : w.kind \in {"record", "fixed"} => w.end <= begin'
      BY <2>1, <2>5, <2>9 DEF NameItems
    <3>2. \A w \in written' : w.at # at'
      <4> SUFFICES ASSUME NEW w \in written'
                   PROVE  w.at # at'
        OBVIOUS
      <4>1. CASE w \in written
        BY <1>1, <2>1, <2>3, <2>8, <4>1
      <4>2. CASE w \in ws
        <5>1. w.at \in Nat /\ w.end \in Nat
          BY <2>6, <4>2 DEF Item
        <5> QED
          BY <2>1, <2>3, <2>5, <2>6, <4>2, <5>1
      <4> QED
        BY <2>1, <4>1, <4>2
    <3>3. Clear(written', at', fields')
      BY <3>2 DEF Clear
    <3>4. Spaced(fields')
      BY <1>1, <2>1, <2>9, SpacedTail
    <3> QED
      BY <2>7, <3>1, <3>3, <3>4 DEF Apart
  <2>11. \E F : Lays(F)'
    <3>1. PICK F : Lays(F)
      BY <2>2
    <3>2. PICK G : G = F \cup {<<e, After(T), begin>> : T \in Fronts(fields)}
      OBVIOUS
    <3>3. \A T \in Fronts(fields) :
            /\ T # <<>> /\ Written(Head(T)) = "name" /\ After(T) \in Seq(Kind)
            /\ Agree(Tail(fields), After(T))
      <4> TAKE T \in Fronts(fields)
      <4>1. /\ T # <<>> /\ ItemOf(Head(fields)[1]) = Written(Head(T)) /\ After(T) \in Seq(Kind)
            /\ Agree(Tail(fields), After(T))
        BY <1>1, AgreeStep DEF Fronts
      <4> QED
        BY <1>1, <4>1 DEF ItemOf
    <3>4. G \subseteq Nat \X Seq(Kind) \X Nat /\ F \subseteq G
      BY <1>1, <2>3, <3>1, <3>2, <3>3 DEF Lays
    <3>5. \A p, T, b : <<p, T, b>> \in G \ F => AtFront(p, T, b)'
      <4> SUFFICES ASSUME NEW p, NEW T, NEW b, <<p, T, b>> \in G \ F
                   PROVE  AtFront(p, T, b)'
        OBVIOUS
      <4>1. PICK U \in Fronts(fields) : <<p, T, b>> = <<e, After(U), begin>>
        BY <3>2
      <4> QED
        BY <1>1, <2>1, <3>3, <4>1 DEF AtFront
    <3>6. \A p, T, b : <<p, T, b>> \in F /\ AtFront(p, T, b) => Follows(written', G, p, T, b)
      <4> SUFFICES ASSUME NEW p, NEW T, NEW b, <<p, T, b>> \in F, AtFront(p, T, b)
                   PROVE  Follows(written', G, p, T, b)
        OBVIOUS
      <4>1. p = at /\ b = begin /\ T \in Fronts(fields)
        BY <3>1 DEF AtFront, Fronts, Lays
      <4>2. <<e, After(T), begin>> \in G
        BY <3>2, <4>1
      <4> QED
        BY <2>1, <2>4, <3>3, <4>1, <4>2 DEF Follows
    <3>7. \A r \in written' \ written : r.kind # "record"
      BY <2>1, <2>5 DEF NameItems
    <3>8. \E x \in Names(begin)' : <<x.end + 10, Layout[src'.records[rec'].type], begin'>> \in G
      <4>1. PICK x \in Names(begin) :
              <<x.end + 10, Layout[src.records[rec].type], begin>> \in F
        BY <1>1, <3>1 DEF Lays
      <4>2. x \in Names(begin)'
        BY <2>1 DEF Names
      <4> QED
        BY <2>1, <3>4, <4>1, <4>2
    <3>9. written \subseteq written' /\ at' \in Nat /\ at <= at'
      BY <1>1, <2>1, <2>3
    <3>10. \A p, T, b : <<p, T, b>> \in G \ F => Inside(written', at', p, b)
      <4> SUFFICES ASSUME NEW p, NEW T, NEW b, <<p, T, b>> \in G \ F
                   PROVE  Inside(written', at', p, b)
        OBVIOUS
      <4>1. p = e /\ b = begin
        BY <3>2
      <4>2. \A r \in written' : r.kind = "record" => r \in written /\ r.at # begin
        BY <1>1, <2>2, <2>9, <3>7, RecordIsBehind DEF Apart
      <4> QED
        BY <2>1, <2>3, <4>1, <4>2 DEF Inside
    <3>11. Lays(G)'
      BY <1>1, <3>1, <3>4, <3>5, <3>6, <3>7, <3>8, <3>9, <3>10, LaysGrow
    <3> QED
      BY <3>11
  <2>12. Chained'
    <3>1. \A o : Reached(o) => Reached(o)'
      BY <1>1, <2>1, ReachedStays
    <3>2. \A r \in written' \ written : r.kind # "record"
      BY <2>1, <2>5 DEF NameItems
    <3> QED
      BY <1>1, <2>1, <2>2, <3>1, <3>2, ChainedStays
  <2> QED
    BY <2>7, <2>10, <2>11, <2>12 DEF SInv
<1> QED
  BY <1>3, <1>4

-----------------------------------------------------------------------------
(* The pieces of a field that is no name.                                  *)
LEMMA PiecesAre ==
  ASSUME NEW kind \in NotNames, NEW v \in Puts(kind)
  PROVE  LET s == Pieces(kind, v)
         IN  /\ s \in Seq(Nat) /\ Len(s) \in Nat
             /\ kind \notin Hollow => \A i \in 1 .. Len(s) : s[i] > 0
             /\ kind \in Hollow => Len(s) = 1
             /\ Len(s) # 1 => kind \in Final \ {"names"}
             /\ Len(s) > 1 => kind \in Repeated
             /\ kind \in DOMAIN Size => \A i \in 1 .. Len(s) : s[i] = Size[kind]
<1> DEFINE s == Pieces(kind, v)
<1>1. s \in Seq(Nat) /\ Len(s) \in Nat /\ (Len(s) > 1 => Len(s) # 1)
  <2>1. s \in Seq(Nat)
    BY DataFits DEF FieldFits
  <2> DEFINE m == Len(s)
  <2> HIDE DEF s
  <2>2. m \in Nat
    BY <2>1
  <2> HIDE DEF m
  <2>3. m > 1 => m # 1
    BY <2>2
  <2> QED
    BY <2>1, <2>2, <2>3 DEF m
<1>2. CASE kind \in {"a", "aaaa"}
  <2>1. v \in {<<>>, <<0>>}
    BY <1>2, SizeFacts DEF Says, Puts
  <2>2. s = [i \in 1 .. Len(v) |-> Size[kind]]
    BY <1>2 DEF Pieces
  <2>3. Len(s) = Len(v) /\ \A i \in 1 .. Len(s) : s[i] = Size[kind]
    <3>1. Len(v) \in Nat
      BY <2>1
    <3> HIDE DEF s
    <3> QED
      BY <2>2, <3>1
  <2>4. Len(v) \in {0, 1}
    BY <2>1
  <2>5. kind \in Final \ {"names"} /\ kind \in DOMAIN Size /\ Size[kind] \in Nat /\ Size[kind] > 0
    BY <1>2, SizeFacts DEF Final
  <2>6. kind \notin Hollow
    BY <1>2 DEF Hollow
  <2> HIDE DEF s
  <2>7. ~(Len(s) > 1)
    BY <2>3, <2>4
  <2> QED
    BY <1>1, <2>3, <2>5, <2>6, <2>7 DEF s
<1>3. CASE kind \in DOMAIN Size \ {"a", "aaaa"}
  <2>1. s = <<Size[kind]>>
    <3>1. kind \notin {"a", "aaaa"} /\ kind \in DOMAIN Size
      BY <1>3
    <3> QED
      BY <1>3, <3>1, SizeFacts DEF Pieces
  <2>2. Size[kind] \in Nat /\ Size[kind] > 0 /\ kind \notin Hollow
    BY <1>3, SizeFacts, KindsApart
  <2>3. Len(s) = 1 /\ \A i \in 1 .. Len(s) : s[i] = Size[kind]
    BY <2>1
  <2> HIDE DEF s
  <2> QED
    BY <1>1, <2>2, <2>3 DEF s
<1>4. CASE kind \in {"string", "txt", "nsec", "opt"}
  <2>1. \A i \in 1 .. Len(s) : s[i] > 0
    BY <1>4, DataFits
  <2>2. kind \notin Hollow /\ kind \notin DOMAIN Size
    BY <1>4, SizeFacts DEF Hollow
  <2>3. kind = "string" => Len(s) = 1
    <3>1. ASSUME kind = "string"
          PROVE  Len(s) = 1
      <4>1. v \in Seq(Nat) /\ Len(v) = 1
        BY <3>1, SizeFacts DEF Says, Puts
      <4>2. s = [i \in 1 .. Len(v) |-> v[i] + 1]
        BY <3>1, SizeFacts DEF Pieces
      <4> HIDE DEF s
      <4> QED
        BY <4>1, <4>2
    <3> QED
      BY <3>1
  <2>4. kind # "string" => kind \in Repeated /\ kind \in Final \ {"names"}
    BY <1>4 DEF Repeated, Final
  <2> HIDE DEF s
  <2> QED
    BY <1>1, <2>1, <2>2, <2>3, <2>4 DEF s
<1>5. CASE kind \in {"octet", "hex", "b64", "b32"}
  <2>1. s = v
    BY <1>5, SizeFacts DEF Pieces
  <2>2. Len(v) = 1
    BY <1>5, SizeFacts DEF Says, Puts
  <2>3. kind \in Hollow /\ kind \notin DOMAIN Size /\ Len(s) = 1 /\ ~(1 > 1)
    BY <1>5, <2>1, <2>2, SizeFacts DEF Hollow
  <2> HIDE DEF s
  <2> QED
    BY <1>1, <2>3 DEF s
<1>6. kind \in DOMAIN Size \cup {"string", "txt", "nsec", "opt", "octet", "hex", "b64", "b32"}
  BY DEF NotNames, PackKind
<1> HIDE DEF s
<1>7. /\ s \in Seq(Nat) /\ Len(s) \in Nat
      /\ kind \notin Hollow => \A i \in 1 .. Len(s) : s[i] > 0
      /\ kind \in Hollow => Len(s) = 1
      /\ Len(s) # 1 => kind \in Final \ {"names"}
      /\ Len(s) > 1 => kind \in Repeated
      /\ kind \in DOMAIN Size => \A i \in 1 .. Len(s) : s[i] = Size[kind]
  BY <1>2, <1>3, <1>4, <1>5, <1>6 DEF s
<1> QED
  BY <1>7 DEF s

(* Where the pieces of a field are.                                        *)
LEMMA PiecesLie ==
  ASSUME NEW kind \in NotNames, NEW v \in Puts(kind), NEW o \in Nat
  PROVE  LET m == Len(Pieces(kind, v))
             to(i) == o + Sum(SubSeq(Pieces(kind, v), 1, i))
         IN  /\ m \in Nat /\ to(0) = o /\ \A i \in 0 .. m : to(i) \in Nat /\ o <= to(i)
             /\ \A i \in 1 .. m :
                  LET w == DataItem(kind, v, o, i)
                  IN  /\ w \in Item /\ w.at = to(i - 1) /\ w.end = to(i) /\ w.kind = kind
                      /\ kind \notin Hollow => w.at < w.end
                      /\ kind \in DOMAIN Size => w.end = w.at + Size[kind]
             /\ \A i, j \in 1 .. m : to(i - 1) = to(j - 1) => i = j
             /\ kind \notin Hollow /\ m > 0 => o < to(m)
             /\ kind \in Hollow => m = 1
             /\ m # 1 => kind \in Final \ {"names"}
             /\ m > 1 => kind \in Repeated
<1> DEFINE s == Pieces(kind, v)
           m == Len(s)
           sum(i) == Sum(SubSeq(s, 1, i))
           to(i) == o + sum(i)
           a(i) == DataItem(kind, v, o, i)
<1>1. /\ s \in Seq(Nat) /\ m \in Nat
      /\ kind \notin Hollow => \A i \in 1 .. m : s[i] > 0
      /\ kind \in Hollow => m = 1
      /\ m # 1 => kind \in Final \ {"names"}
      /\ m > 1 => kind \in Repeated
      /\ kind \in DOMAIN Size => \A i \in 1 .. m : s[i] = Size[kind]
  BY PiecesAre
<1>2. \A i \in 1 .. m : a(i) \in Item
  BY DataItemFacts
<1>3. \A i \in 1 .. m : a(i).at = to(i - 1) /\ a(i).end = to(i) /\ a(i).kind = kind
  BY DataItemIs
<1> HIDE DEF s, m, a
<1>4. \A i \in 0 .. m : sum(i) \in Nat
  BY <1>1, SumUpTo DEF m
<1>5. sum(0) = 0
  BY <1>1, SumUpTo DEF m
<1>6. \A i \in 1 .. m : i \in 0 .. m /\ i - 1 \in 0 .. m /\ sum(i) = sum(i - 1) + s[i] /\ s[i] \in Nat
  <2> TAKE i \in 1 .. m
  <2>1. i \in 0 .. m /\ i - 1 \in 0 .. m /\ i > 0
    BY <1>1
  <2>2. sum(i) = sum(i - 1) + s[i]
    BY <1>1, <2>1, SumUpTo DEF m
  <2>3. s[i] \in Nat
    BY <1>1 DEF m
  <2> QED
    BY <2>1, <2>2, <2>3
<1>7. \A i, j \in 0 .. m : i <= j => sum(i) <= sum(j)
  BY <1>1, SumsGrow DEF m
<1> HIDE DEF sum
<1>8. m \in Nat /\ to(0) = o /\ \A i \in 0 .. m : to(i) \in Nat /\ o <= to(i)
  BY <1>1, <1>4, <1>5
<1>9. ASSUME NEW i \in 1 .. m
      PROVE  /\ a(i) \in Item /\ a(i).at = to(i - 1) /\ a(i).end = to(i) /\ a(i).kind = kind
             /\ kind \notin Hollow => a(i).at < a(i).end
             /\ kind \in DOMAIN Size => a(i).end = a(i).at + Size[kind]
  <2>1. to(i) = to(i - 1) + s[i] /\ to(i - 1) \in Nat /\ s[i] \in Nat
    BY <1>4, <1>6
  <2>2. a(i).at = to(i - 1) /\ a(i).end = to(i) /\ a(i).kind = kind
    BY <1>3
  <2> HIDE DEF to
  <2>3. /\ kind \notin Hollow => to(i - 1) < to(i)
        /\ kind \in DOMAIN Size => to(i) = to(i - 1) + Size[kind]
    BY <1>1, <2>1
  <2> QED
    BY <1>2, <2>2, <2>3
<1>10. ASSUME NEW i \in 1 .. m, NEW j \in 1 .. m, i < j
       PROVE  to(i - 1) # to(j - 1)
  <2>1. m > 1
    BY <1>1, <1>10
  <2>2. kind \notin Hollow
    BY <1>1, <2>1
  <2>3. s[i] > 0 /\ s[i] \in Nat /\ sum(i) = sum(i - 1) + s[i]
    BY <1>1, <1>6, <2>2
  <2>4. sum(i) <= sum(j - 1) /\ sum(i) \in Nat /\ sum(j - 1) \in Nat /\ sum(i - 1) \in Nat
    <3>1. i \in 0 .. m /\ j - 1 \in 0 .. m /\ i - 1 \in 0 .. m /\ i <= j - 1
      BY <1>1, <1>10
    <3> QED
      BY <1>4, <1>7, <3>1
  <2> QED
    BY <2>3, <2>4
<1>11. ASSUME NEW i \in 1 .. m, NEW j \in 1 .. m, to(i - 1) = to(j - 1)
       PROVE  i = j
  <2> HIDE DEF to
  <2>1. ~(i < j) /\ ~(j < i)
    BY <1>10, <1>11
  <2> QED
    BY <2>1
<1>12. ASSUME kind \notin Hollow, m > 0
       PROVE  o < to(m)
  <2>1. m \in 1 .. m /\ m \in 0 .. m /\ m - 1 \in 0 .. m
    BY <1>1, <1>12
  <2>2. s[m] > 0 /\ s[m] \in Nat /\ sum(m) = sum(m - 1) + s[m] /\ sum(m - 1) \in Nat
    BY <1>1, <1>4, <1>6, <1>12, <2>1
  <2> QED
    BY <2>2
<1> HIDE DEF to
<1>13. /\ m \in Nat /\ to(0) = o /\ \A i \in 0 .. m : to(i) \in Nat /\ o <= to(i)
       /\ \A i \in 1 .. m :
            /\ a(i) \in Item /\ a(i).at = to(i - 1) /\ a(i).end = to(i) /\ a(i).kind = kind
            /\ kind \notin Hollow => a(i).at < a(i).end
            /\ kind \in DOMAIN Size => a(i).end = a(i).at + Size[kind]
       /\ \A i, j \in 1 .. m : to(i - 1) = to(j - 1) => i = j
       /\ kind \notin Hollow /\ m > 0 => o < to(m)
       /\ kind \in Hollow => m = 1
       /\ m # 1 => kind \in Final \ {"names"}
       /\ m > 1 => kind \in Repeated
  BY <1>1, <1>8, <1>9, <1>11, <1>12
<1> QED
  BY <1>13 DEF s, m, sum, to, a

(* Nothing is left, whatever was to be read there.                         *)
LEMMA AgreeNone ==
  ASSUME NEW T \in Seq(Kind), Len(T) = 1, Head(T) \in Absent
  PROVE  Agree(<<>>, T)
<1> DEFINE l == Len(<<>>)
<1>1. l = 0 /\ T[1] \in Absent
  OBVIOUS
<1> HIDE DEF l
<1>2. ~(l > 1) /\ 1 .. l = {} /\ 1 .. 1 - 1 = {} /\ l = 1 - 1
  BY <1>1
<1> QED
  BY <1>1, <1>2 DEF Agree, l

(* Where all has been written.                                             *)
LEMMA AgreeClosing ==
  ASSUME NEW fs, fs = <<>>, NEW T \in Seq(Kind), Agree(fs, T)
  PROVE  Closing(T)
<1> DEFINE n == Len(T)
           l == Len(fs)
<1>1. CASE T = <<>>
  BY <1>1 DEF Closing
<1>2. CASE T # <<>>
  <2>1. n \in Nat /\ n > 0 /\ Head(T) = T[1]
    BY <1>2, TailIs
  <2>2. l = 0
    OBVIOUS
  <2>3. l < n => l = n - 1 /\ T[n] \in Absent
    BY DEF Agree
  <2> HIDE DEF n, l
  <2>4. n = 1 /\ T[n] \in Absent
    BY <2>1, <2>2, <2>3
  <2>5. Head(T) \in Absent
    BY <2>1, <2>4
  <2> QED
    BY <2>5 DEF Closing
<1> QED
  BY <1>1, <1>2

LEMMA DataShows ==
  ASSUME WInv, WInv', PackData, SInv
  PROVE  SInv'
<1> DEFINE kind == Head(fields)[1]
           v == Cut(kind, Head(fields)[2])
           m == Len(Pieces(kind, v))
           to(i) == at + Sum(SubSeq(Pieces(kind, v), 1, i))
           a(i) == DataItem(kind, v, at, i)
           X == Own(src.records[rec])
           N == {a(i) : i \in 1 .. m}
<1>1. /\ pk = "field" /\ fields # <<>> /\ kind \notin {"name", "cname"}
      /\ at \in Nat /\ begin \in Nat /\ Laid /\ fields \in Seq(X)
  BY DEF PackData, AtData, WInv, Source
<1>2. kind \in NotNames /\ v \in Puts(kind)
  BY DataHere DEF PackData
<1> QED
  <2>1. /\ at' = to(m) /\ fields' = Tail(fields)
        /\ written' = written \cup N
        /\ UNCHANGED <<src, pk, rec, begin, compression>>
    BY DEF PackData, DataItem
  <2>2. Apart /\ (\E R : Spells(R)) /\ (\E F : Lays(F)) /\ Chained
    BY <1>1 DEF SInv, Active
  <2>3. /\ m \in Nat /\ to(0) = at /\ \A i \in 0 .. m : to(i) \in Nat /\ at <= to(i)
        /\ \A i \in 1 .. m :
             /\ a(i) \in Item /\ a(i).at = to(i - 1) /\ a(i).end = to(i) /\ a(i).kind = kind
             /\ kind \notin Hollow => a(i).at < a(i).end
             /\ kind \in DOMAIN Size => a(i).end = a(i).at + Size[kind]
        /\ \A i, j \in 1 .. m : to(i - 1) = to(j - 1) => i = j
        /\ kind \notin Hollow /\ m > 0 => at < to(m)
        /\ kind \in Hollow => m = 1
        /\ m # 1 => kind \in Final \ {"names"}
        /\ m > 1 => kind \in Repeated
    BY <1>1, <1>2, PiecesLie
  <2>4. Fronts(fields) \subseteq Seq(Kind)
        /\ \A T \in Fronts(fields) :
             /\ T # <<>> /\ Written(Head(T)) = kind /\ After(T) \in Seq(Kind)
             /\ Agree(Tail(fields), After(T)) /\ Head(T) \in Kind
             /\ Head(T) \in Absent \ {"names"} => Tail(fields) = <<>> /\ Agree(Tail(fields), T)
    <3> SUFFICES ASSUME NEW T \in Fronts(fields)
                 PROVE  /\ T # <<>> /\ Written(Head(T)) = kind /\ After(T) \in Seq(Kind)
                        /\ Agree(Tail(fields), After(T)) /\ Head(T) \in Kind
                        /\ Head(T) \in Absent \ {"names"} =>
                             Tail(fields) = <<>> /\ Agree(Tail(fields), T)
      BY DEF Fronts
    <3>1. /\ T # <<>> /\ ItemOf(kind) = Written(Head(T)) /\ After(T) \in Seq(Kind)
          /\ Agree(Tail(fields), After(T)) /\ Head(T) \in Kind
          /\ Head(T) \in Final \ {"names"} => Tail(fields) = <<>>
          /\ Head(T) \in Final => Len(T) = 1
      BY <1>1, AgreeStep DEF Fronts
    <3>2. ItemOf(kind) = kind
      BY <1>2 DEF ItemOf, NotNames
    <3>3. Absent \subseteq Final
      BY DEF Absent, Final
    <3>4. Head(T) \in Absent \ {"names"} => Tail(fields) = <<>> /\ Agree(<<>>, T)
      BY <3>1, <3>3, AgreeNone DEF Fronts
    <3> QED
      BY <3>1, <3>2, <3>4
  <2>5. /\ m # 1 => /\ kind \notin Solid /\ kind \in Absent \ {"names"}
                   /\ \A k : Written(k) = kind => k = kind
        /\ kind \in Hollow => kind \notin Solid
    <3>1. ASSUME kind \in Final \ {"names"}, kind \notin Hollow
          PROVE  /\ kind \notin Solid /\ kind \in Absent \ {"names"}
                 /\ \A k : Written(k) = kind => k = kind
      <4>1. kind \in {"txt", "nsec", "opt", "a", "aaaa"}
        BY <3>1 DEF Final, Repeated, Remnant, Hollow
      <4>2. kind \notin Solid /\ kind \in Absent \ {"names"}
        BY <4>1, SizeFacts DEF Solid, Absent, Repeated
      <4>3. \A k : Written(k) = kind => k = kind
        BY <4>1 DEF Written
      <4> QED
        BY <4>2, <4>3
    <3>2. kind \in Hollow => kind \notin Solid
      BY SizeFacts DEF Hollow, Solid
    <3>3. m # 1 => kind \in Final \ {"names"} /\ kind \notin Hollow
      BY <2>3
    <3> QED
      BY <3>1, <3>2, <3>3
  <2>6. \A w \in written : w.at \in Nat /\ w.end \in Nat /\ w.at <= w.end /\ w.end <= at
    BY <1>1, ItemsAre
  <2>7. /\ Unique /\ Filled /\ Sized /\ Spaced(fields) /\ Clear(written, at, fields)
        /\ \A w \in written : w.kind \in {"record", "fixed"} => w.end <= begin
    BY <1>1, <2>2 DEF Apart
  <2> HIDE DEF m, to, a, X
  <2>8. \A w \in N : \E i \in 1 .. m : w = a(i)
    OBVIOUS
  <2>9. \A w \in N : /\ w.kind = kind /\ kind \notin {"name", "record", "fixed"}
                     /\ w.at \in Nat /\ w.end \in Nat /\ at <= w.at /\ w.end <= at'
    <3> SUFFICES ASSUME NEW i \in 1 .. m
                 PROVE  /\ a(i).kind = kind /\ kind \notin {"name", "record", "fixed"}
                        /\ a(i).at \in Nat /\ a(i).end \in Nat /\ at <= a(i).at /\ a(i).end <= at'
      OBVIOUS
    <3>1. i - 1 \in 0 .. m
      BY <2>3
    <3>2. a(i).at \in Nat /\ a(i).end \in Nat
      BY <2>3 DEF Item
    <3>3. kind \notin {"name", "record", "fixed"}
      BY <1>2, SizeFacts DEF NotNames, PackKind
    <3>4. a(i).end <= at'
      <4>1. a(i) \in written'
        BY <2>1
      <4> QED
        BY <4>1 DEF WInv, Laid
    <3> QED
      BY <2>3, <3>1, <3>2, <3>3, <3>4
  <2> HIDE DEF N
  <2>10. Unique' /\ Filled' /\ Sized'
    <3>1. \A w \in N : w.kind \in Hollow => \A x \in written : x.at = w.at => x.kind # w.kind
      <4> SUFFICES ASSUME NEW i \in 1 .. m, a(i).kind \in Hollow,
                          NEW x \in written, x.at = a(i).at, x.kind = a(i).kind
                   PROVE  FALSE
        BY <2>8
      <4>1. a(i).kind = kind
        BY <2>3
      <4>2. m = 1
        BY <2>3, <4>1
      <4>3. i = 1 /\ i - 1 = 0
        BY <4>2
      <4>4. x.at = at /\ x.kind = kind
        BY <2>3, <4>3
      <4>5. 1 \in 1 .. Len(fields) /\ fields[1][1] = kind
        BY <1>1, TailIs
      <4>6. \E k \in 1 .. Len(fields) : k < 1
        BY <2>7, <4>4, <4>5 DEF Clear
      <4> QED
        BY <4>6
    <3>2. \A w \in N : /\ w.kind \notin Hollow => w.at < w.end
                       /\ w.kind \in DOMAIN Size => w.end = w.at + Size[w.kind]
      <4> TAKE w \in N
      <4>1. PICK i \in 1 .. m : w = a(i)
        BY <2>8
      <4> QED
        BY <2>3, <4>1
    <3>3. \A x, w \in N : x.at = w.at /\ Class(x.kind) = Class(w.kind) => x = w
      <4> SUFFICES ASSUME NEW i \in 1 .. m, NEW j \in 1 .. m, a(i).at = a(j).at
                   PROVE  a(i) = a(j)
        BY <2>8
      <4>1. to(i - 1) = to(j - 1)
        BY <2>3
      <4> QED
        BY <2>3, <4>1
    <3>4. /\ \A w \in N : /\ w.at \in Nat /\ at <= w.at
                          /\ w.kind \notin Hollow => w.at < w.end
                          /\ w.kind \in DOMAIN Size => w.end = w.at + Size[w.kind]
                          /\ w.kind \in Hollow => \A x \in written : x.at = w.at => x.kind # w.kind
          /\ written' = written \cup N
      BY <2>1, <2>9, <3>1, <3>2
    <3> QED
      BY ONLY <1>1, <2>7, <3>3, <3>4, ApartGrows
  <2>11. Apart'
    <3>1. \A w \in written' : w.kind \in {"record", "fixed"} => w.end <= begin'
      BY <2>1, <2>7, <2>9
    <3>2. Spaced(fields')
      BY <1>1, <2>1, <2>7, SpacedTail
    <3>3. CASE at' = at
      <4>1. m = 0 \/ kind \in Hollow
        BY <1>1, <2>1, <2>3, <3>3
      <4>2. kind \notin Solid
        BY <2>3, <2>5, <4>1
      <4>3. \A w \in written' \ written : w.kind = kind /\ w.kind \in Hollow
        <5> SUFFICES ASSUME NEW w \in N
                     PROVE  w.kind = kind /\ kind \in Hollow
          BY <2>1
        <5>1. PICK i \in 1 .. m : w = a(i)
          BY <2>8
        <5> QED
          BY <2>9, <4>1, <5>1
      <4>4. Clear(written', at, Tail(fields))
        BY <1>1, <2>7, <4>2, <4>3, ClearTail
      <4> QED
        BY <2>1, <2>7, <2>10, <3>1, <3>2, <3>3, <4>4 DEF Apart
    <3>4. CASE at' # at
      <4>1. at' \in Nat /\ at < at'
        <5>1. m \in 0 .. m
          BY <2>3
        <5>2. at' \in Nat /\ at <= at'
          BY <2>1, <2>3, <5>1
        <5> QED
          BY <1>1, <3>4, <5>2
      <4>2. \A w \in written' : w.at # at'
        <5> SUFFICES ASSUME NEW w \in written'
                     PROVE  w.at # at'
          OBVIOUS
        <5>1. CASE w \in written
          BY <1>1, <2>6, <4>1, <5>1
        <5>2. CASE w \in N
          <6>1. PICK i \in 1 .. m : w = a(i)
            BY <2>8, <5>2
          <6>2. CASE kind \in Hollow
            <7>1. i - 1 = 0
              BY <2>3, <6>2
            <7> QED
              BY <2>3, <4>1, <6>1, <7>1
          <6>3. CASE kind \notin Hollow
            <7>1. w.at < w.end
              BY <2>3, <6>1, <6>3
            <7> QED
              BY <2>9, <4>1, <5>2, <7>1
          <6> QED
            BY <6>2, <6>3
        <5> QED
          BY <2>1, <5>1, <5>2
      <4>3. Clear(written', at', fields')
        BY <4>2 DEF Clear
      <4> QED
        BY <2>10, <3>1, <3>2, <4>3 DEF Apart
    <3> QED
      BY <3>3, <3>4
  <2>12. \E S : Spells(S)'
    <3>1. PICK R : Spells(R)
      BY <2>2
    <3>2. \A w \in written' : w.kind = "name" => w \in written
      BY <2>1, <2>9
    <3> QED
      BY <2>1, <3>1, <3>2, SpellsStay
  <2>13. Chained'
    <3>1. \A o : Reached(o) => Reached(o)'
      BY <1>1, <2>1, ReachedStays
    <3>2. \A r \in written' \ written : r.kind # "record"
      BY <2>1, <2>9
    <3> QED
      BY <1>1, <2>1, <2>2, <3>1, <3>2, ChainedStays
  <2>14. \E F : Lays(F)'
    <3>1. PICK F : Lays(F)
      BY <2>2
    <3> DEFINE new(i, T) == <<to(i), After(T), begin>>
    <3> DEFINE H == F \cup {new(i, T) : i \in 1 .. m, T \in Fronts(fields)}
    <3> HIDE DEF H
    <3>0. PICK G : G = H
      OBVIOUS
    <3>2. G = F \cup {new(i, T) : i \in 1 .. m, T \in Fronts(fields)}
      BY <3>0 DEF H
    <3>3. G \subseteq Nat \X Seq(Kind) \X Nat /\ F \subseteq G
      <4>1. \A i \in 1 .. m, T \in Fronts(fields) : new(i, T) \in Nat \X Seq(Kind) \X Nat
        <5> TAKE i \in 1 .. m, T \in Fronts(fields)
        <5>1. i \in 0 .. m
          BY <2>3
        <5> QED
          BY <1>1, <2>3, <2>4, <5>1
      <4>2. F \subseteq Nat \X Seq(Kind) \X Nat
        BY <3>1 DEF Lays
      <4> HIDE DEF new
      <4> QED
        BY <3>2, <4>1, <4>2
    <3>4. \A i \in 1 .. m, T \in Fronts(fields) : new(i, T) \in G
      <4> HIDE DEF new
      <4> QED
        BY <3>2
    <3>5. ASSUME NEW p, NEW T, NEW b, <<p, T, b>> \in G \ F
          PROVE  Follows(written', G, p, T, b) \/ AtFront(p, T, b)'
      <4>1. PICK i \in 1 .. m, U \in Fronts(fields) : <<p, T, b>> = new(i, U)
        <5> HIDE DEF new
        <5> QED
          BY <3>2, <3>5
      <4>2. p = to(i) /\ T = After(U) /\ b = begin
        BY <4>1
      <4>3. CASE i = m
        BY <1>1, <2>1, <2>4, <4>2, <4>3 DEF AtFront
      <4>4. CASE i # m
        <5>1. i + 1 \in 1 .. m /\ (i + 1) - 1 = i /\ m > 1
          BY <2>3, <4>4
        <5>2. kind \in Repeated /\ m # 1
          BY <2>3, <5>1
        <5>3. Head(U) = kind
          BY <2>4, <2>5, <5>2
        <5>4. After(U) = U
          BY <5>2, <5>3 DEF After
        <5>5. a(i + 1) \in written'
          BY <2>1, <5>1 DEF N
        <5>6. a(i + 1).at = p /\ a(i + 1).end = to(i + 1) /\ a(i + 1).kind = kind
          BY <2>3, <4>2, <5>1
        <5>7. <<to(i + 1), After(U), b>> \in G
          BY <3>4, <4>2, <5>1
        <5>8. T = U /\ U # <<>> /\ Written(Head(U)) = kind
          BY <2>4, <4>2, <5>4
        <5> QED
          BY <5>5, <5>6, <5>7, <5>8 DEF Follows
      <4> QED
        BY <4>3, <4>4
    <3>6. ASSUME NEW p, NEW T, NEW b, <<p, T, b>> \in F, AtFront(p, T, b)
          PROVE  Follows(written', G, p, T, b) \/ AtFront(p, T, b)'
      <4>1. p = at /\ b = begin /\ T \in Fronts(fields)
        BY <3>1, <3>6 DEF AtFront, Fronts, Lays
      <4>2. CASE m = 0
        <5>1. Head(T) = kind /\ kind \in Absent \ {"names"}
          BY <2>3, <2>4, <2>5, <4>1, <4>2
        <5>2. Agree(Tail(fields), T)
          BY <2>4, <4>1, <5>1
        <5> QED
          BY <1>1, <2>1, <2>3, <4>1, <4>2, <5>2 DEF AtFront
      <4>3. CASE m # 0
        <5>1. 1 \in 1 .. m /\ 1 - 1 = 0
          BY <2>3, <4>3
        <5>2. a(1) \in written' /\ a(1).at = p /\ a(1).end = to(1) /\ a(1).kind = kind
          BY <2>1, <2>3, <4>1, <5>1 DEF N
        <5>3. <<to(1), After(T), b>> \in G
          BY <3>4, <4>1, <5>1
        <5> QED
          BY <2>4, <4>1, <5>2, <5>3 DEF Follows
      <4> QED
        BY <4>2, <4>3
    <3>7. \A r \in written' \ written : r.kind # "record"
      BY <2>1, <2>9
    <3>8. \E x \in Names(begin)' : <<x.end + 10, Layout[src'.records[rec'].type], begin'>> \in G
      <4>1. PICK x \in Names(begin) :
              <<x.end + 10, Layout[src.records[rec].type], begin>> \in F
        BY <1>1, <3>1 DEF Lays
      <4>2. x \in Names(begin)'
        BY <2>1 DEF Names
      <4> QED
        BY <2>1, <3>3, <4>1, <4>2
    <3>9. written \subseteq written' /\ at' \in Nat /\ at <= at'
      <4>1. m \in 0 .. m
        BY <2>3
      <4> QED
        BY <2>1, <2>3, <4>1
    <3>10. \A p, T, b : <<p, T, b>> \in G \ F => Inside(written', at', p, b)
      <4> SUFFICES ASSUME NEW p, NEW T, NEW b, <<p, T, b>> \in G \ F
                   PROVE  Inside(written', at', p, b)
        OBVIOUS
      <4>1. PICK i \in 1 .. m, U \in Fronts(fields) : <<p, T, b>> = new(i, U)
        <5> HIDE DEF new
        <5> QED
          BY <3>2
      <4>2. p = to(i) /\ b = begin
        BY <4>1
      <4>3. a(i) \in N /\ a(i).end = to(i)
        BY <2>3 DEF N
      <4>4. p <= at'
        BY <2>9, <4>2, <4>3
      <4>5. \A r \in written' : r.kind = "record" => r \in written /\ r.at # begin
        BY <1>1, <2>7, <3>7, RecordIsBehind
      <4> QED
        BY <4>2, <4>4, <4>5 DEF Inside
    <3>11. Lays(G)'
      BY <1>1, <3>1, <3>3, <3>5, <3>6, <3>7, <3>8, <3>9, <3>10, LaysGrow
    <3> QED
      BY <3>11
  <2> QED
    BY <2>11, <2>12, <2>13, <2>14 DEF SInv

LEMMA RdlengthShows ==
  ASSUME WInv, WInv', PackRdlength, SInv
  PROVE  SInv'
<1> DEFINE t == src.records[rec].type
           num == at - (OwnerEnd + 10)
           fixed == [Plain(OwnerEnd, OwnerEnd + 10, "fixed") EXCEPT !.num = num, !.type = t]
           whole == Plain(begin, at, "record")
<1>1. /\ pk = "field" /\ fields = <<>> /\ pk' = "rr"
      /\ written' = written \cup {fixed, whole}
      /\ UNCHANGED <<src, room, at, rec, begin, fields, compression>>
  BY DEF PackRdlength
<1>2. /\ at \in Nat /\ begin \in Nat /\ rec \in Nat /\ rec > 0 /\ Laid
      /\ src \in Messages /\ rec <= Len(src.records)
      /\ Names(begin) # {} /\ \A w \in Names(begin) : w.end + 10 <= at /\ w.at < w.end
  BY <1>1 DEF WInv, Source, Laid, Names
<1>3. PICK n \in Names(begin) : OwnerEnd = n.end
  BY <1>2 DEF OwnerEnd, Names
<1>4. t \in RRType
  <2>1. rec \in 1 .. Len(src.records)
    <3>1. Len(src.records) \in Nat
      BY <1>2, LensFacts
    <3> QED
      BY <1>2, <3>1
  <2>2. src.records[rec] \in ToSet(src.records)
    BY <1>2, <2>1, MessageFacts
  <2> QED
    BY <1>2, <2>2, RecordFacts
<1>5. /\ fixed.at = OwnerEnd /\ fixed.end = OwnerEnd + 10 /\ fixed.kind = "fixed"
      /\ fixed.num = num /\ fixed.type = t
  <2> DEFINE e == OwnerEnd
             f == OwnerEnd + 10
  <2> HIDE DEF e, f, t, num
  <2>1. [Plain(e, f, "fixed") EXCEPT !.num = num, !.type = t]
          = [at |-> e, end |-> f, kind |-> "fixed", counts |-> <<>>, labels |-> <<>>, num |-> num,
             type |-> t]
    BY FixedIs, ZenonT(30)
  <2> DEFINE x == [Plain(e, f, "fixed") EXCEPT !.num = num, !.type = t]
             l == <<>>
  <2>2. x = [at |-> e, end |-> f, kind |-> "fixed", counts |-> l, labels |-> l, num |-> num,
             type |-> t]
    BY <2>1
  <2> HIDE DEF x, l
  <2>3. x.at = e /\ x.end = f /\ x.kind = "fixed" /\ x.num = num /\ x.type = t
    BY <2>2
  <2> QED
    BY <2>3 DEF x, e, f
<1>6. whole.at = begin /\ whole.end = at /\ whole.kind = "record"
  BY DEF Plain
<1>7. Apart /\ (\E R : Spells(R)) /\ (\E F : Lays(F)) /\ Chained
  BY <1>1 DEF SInv, Active
<1>8. /\ Unique /\ Filled /\ Sized
      /\ \A w \in written : w.kind \in {"record", "fixed"} => w.end <= begin
  BY <1>1, <1>7 DEF Apart
<1>9. /\ n \in written /\ n.kind = "name" /\ n.at = begin /\ n.end \in Nat
      /\ n.end + 10 <= at /\ begin < n.end
  <2>1. n \in written /\ n.kind = "name" /\ n.at = begin
    BY <1>3 DEF Names
  <2>2. n.end \in Nat
    BY <1>2, <2>1, ItemsAre
  <2> QED
    BY <1>2, <1>3, <2>1, <2>2
<1>10. n.end + 10 + num = at /\ begin < at
  BY <1>2, <1>3, <1>9
<1> HIDE DEF fixed, whole, num, t
<1>11. Apart'
  <2>1. \A w \in written : w.at \in Nat /\ w.end \in Nat /\ w.at <= w.end /\ w.end <= at
    BY <1>2, ItemsAre
  <2>2. \A w \in written : w.kind \in {"record", "fixed"} => w.at < begin
    <3> SUFFICES ASSUME NEW w \in written, w.kind \in {"record", "fixed"}
                 PROVE  w.at < begin
      OBVIOUS
    <3>1. w.kind \notin Hollow
      BY KindsApart
    <3>2. w.at < w.end
      BY <1>8, <3>1 DEF Filled
    <3> QED
      BY <1>2, <1>8, <2>1, <3>2
  <2>3. \A k : Class(k) = "record" => k = "record"
    BY DEF Class
  <2>4. \A k : Class(k) = "fixed" => k = "fixed"
    BY DEF Class
  <2>5. Class("record") = "record" /\ Class("fixed") = "fixed"
    BY KindsApart
  <2> DEFINE N == {fixed, whole}
  <2>6. \A v, w \in N : v.at = w.at /\ Class(v.kind) = Class(w.kind) => v = w
    BY <1>5, <1>6, <2>5
  <2>7. \A v \in written, w \in N : v.at = w.at => Class(v.kind) # Class(w.kind)
    <3> SUFFICES ASSUME NEW v \in written, NEW w \in N, v.at = w.at, Class(v.kind) = Class(w.kind)
                 PROVE  FALSE
      OBVIOUS
    <3>1. w.kind \in {"record", "fixed"} /\ w.at \in Nat /\ begin <= w.at
      BY <1>2, <1>3, <1>5, <1>6, <1>9
    <3>2. v.kind \in {"record", "fixed"}
      BY <2>3, <2>4, <2>5, <3>1
    <3> QED
      BY <1>2, <2>1, <2>2, <3>1, <3>2
  <2>8. \A w \in N : w.at < w.end /\ w.kind \notin DOMAIN Size
    BY <1>3, <1>5, <1>6, <1>9, <1>10, KindsApart
  <2>9. written' = written \cup N
    BY <1>1
  <2> HIDE DEF N
  <2>10. Unique'
    BY <1>8, <2>6, <2>7, <2>9, UniqueGrows
  <2>11. Filled' /\ Sized'
    BY <1>8, <2>8, <2>9 DEF Filled, Sized
  <2> QED
    BY <1>1, <2>10, <2>11 DEF Apart
<1>12. \E S : Spells(S)'
  <2>1. PICK R : Spells(R)
    BY <1>7
  <2>2. \A w \in written' : w.kind = "name" => w \in written
    BY <1>1, <1>5, <1>6
  <2> QED
    BY <1>1, <2>1, <2>2, SpellsStay
<1>13. whole \in written' /\ fixed \in written' /\ n \in written' /\ written \subseteq written'
  BY <1>1, <1>9
<1>14. \E F : Lays(F)'
  <2>1. PICK F : Lays(F)
    BY <1>7
  <2>2. F \subseteq Nat \X Seq(Kind) \X Nat
    BY <2>1 DEF Lays
  <2>3. \A p, T, b : <<p, T, b>> \in F /\ AtFront(p, T, b) => Ends(written', p, b) /\ Closing(T)
    <3> SUFFICES ASSUME NEW p, NEW T, NEW b, <<p, T, b>> \in F, AtFront(p, T, b)
                 PROVE  Ends(written', p, b) /\ Closing(T)
      OBVIOUS
    <3>1. Ends(written', p, b)
      BY <1>6, <1>13 DEF AtFront, Ends
    <3>2. T \in Seq(Kind) /\ Agree(fields, T)
      BY <2>2 DEF AtFront
    <3>3. Closing(T)
      BY <1>1, <3>2, AgreeClosing
    <3> QED
      BY <3>1, <3>3
  <2>4. PICK x \in Names(begin) : <<x.end + 10, Layout[src.records[rec].type], begin>> \in F
    BY <1>1, <2>1 DEF Lays
  <2>5. x = n
    BY <1>3, <1>8, <2>4 DEF Unique, Names
  <2>6. Framed(written', F, whole)
    <3>1. /\ n.at = whole.at /\ fixed.at = n.end /\ fixed.type \in RRType
          /\ n.end + 10 + fixed.num = whole.end
          /\ <<n.end + 10, Layout[fixed.type], whole.at>> \in F
      BY <1>3, <1>4, <1>5, <1>6, <1>9, <1>10, <2>4, <2>5 DEF t
    <3> QED
      BY <1>5, <1>9, <1>13, <3>1 DEF Framed
  <2>7. \A r \in written' \ written : r.kind = "record" => Framed(written', F, r) /\ r.end = at
    BY <1>1, <1>5, <1>6, <2>6
  <2>8. at \in Nat /\ at' \in Nat /\ at <= at' /\ pk' # "field" /\ written \subseteq written'
    BY <1>1, <1>2, <1>13
  <2>9. Lays(F)'
    BY <2>1, <2>2, <2>3, <2>7, <2>8, LaysGrow
  <2> QED
    BY <2>9
<1>15. Chained'
  <2>1. \E r \in written' : r.kind = "record" /\ r.at = begin
    BY <1>6, <1>13
  <2>2. \A o : Reached(o) => Reached(o)'
    BY <1>1, <1>13, <2>1, ReachedStays
  <2>3. \A r \in written' \ written : r.kind = "record" => Reached(r.end)'
    <3> SUFFICES ASSUME NEW r, r \in written' \ written, r.kind = "record"
                 PROVE  Reached(r.end)'
      OBVIOUS
    <3>1. r = whole
      BY <1>1, <1>5
    <3>2. r.end = at' /\ pk' = "rr"
      BY <1>1, <1>6, <3>1
    <3> QED
      BY <3>2 DEF Reached
  <2> QED
    BY <1>1, <1>7, <1>13, <2>2, <2>3, ChainedStays
<1> QED
  BY <1>11, <1>12, <1>14, <1>15 DEF SInv

LEMMA PackedShows ==
  ASSUME WInv, SInv, Packed
  PROVE  SInv'
<1>1. /\ pk = "rr" /\ pk' = "packed"
      /\ UNCHANGED <<src, at, rec, begin, fields, compression, written>>
  BY DEF Packed
<1>2. Apart /\ (\E R : Spells(R)) /\ (\E F : Lays(F)) /\ Chained
  BY <1>1 DEF SInv, Active
<1>3. Apart'
  BY <1>1, <1>2 DEF Apart, Unique, Filled, Sized
<1>4. \E R : Spells(R)'
  <2>1. PICK R : Spells(R)
    BY <1>2
  <2>2. Spells(R)'
    BY <1>1, <2>1 DEF Spells
  <2> QED
    BY <2>2
<1>5. \E F : Lays(F)'
  <2>1. PICK F : Lays(F)
    BY <1>2
  <2>2. \A p, T, b : ~AtFront(p, T, b)
    BY <1>1 DEF AtFront
  <2>3. F \subseteq Nat \X Seq(Kind) \X Nat
    BY <2>1 DEF Lays
  <2>4. at \in Nat
    BY DEF WInv, Source
  <2>5. Lays(F)'
    BY <1>1, <2>1, <2>2, <2>3, <2>4, LaysGrow
  <2> QED
    BY <2>5
<1>6. Chained'
  <2>1. \A o : Reached(o) => Reached(o)'
    BY <1>1, ReachedStays
  <2> QED
    BY <1>1, <1>2, <2>1, ChainedStays
<1> QED
  BY <1>3, <1>4, <1>5, <1>6 DEF SInv

LEMMA WriterShows ==
  ASSUME LayoutsAgree, WInv, PInv, SInv, PackNext
  PROVE  SInv'
<1>1. WInv'
  BY WriterKeeps
<1>2. CASE RdlengthRefused
  BY <1>2 DEF RdlengthRefused, SInv, Active
<1>3. pk \in {"question", "rr", "field"} => InOrder
  BY DEF PInv, Active, Placed
<1>4. CASE PackQuestion
  BY <1>3, <1>4, QuestionShows DEF PackQuestion
<1>5. CASE PackOwner
  BY <1>3, <1>5, OwnerShows DEF PackOwner
<1>6. CASE PackName
  BY <1>1, <1>3, <1>6, NameFieldShows DEF PackName, AtKind
<1>7. CASE PackDataFails
  <2>1. pk' \notin {"question", "rr", "field", "packed"}
    BY <1>7 DEF PackDataFails
  <2> QED
    BY <2>1 DEF SInv, Active
<1> QED
  BY <1>1, <1>2, <1>4, <1>5, <1>6, <1>7, HeaderShows, DataShows, RdlengthShows, PackedShows
     DEF PackNext

LEMMA ShowsStays ==
  ASSUME SInv, UNCHANGED packVars
  PROVE  SInv'
<1>1. UNCHANGED <<src, pk, at, rec, begin, fields, compression, written>>
  BY DEF packVars
<1> QED
  <2> SUFFICES ASSUME Active
               PROVE  Apart' /\ (\E R : Spells(R)') /\ (\E F : Lays(F)') /\ Chained'
    BY <1>1 DEF SInv, Active
  <2>1. Apart'
    BY <1>1 DEF SInv, Apart, Unique, Filled, Sized
  <2>2. \A R : Spells(R) => Spells(R)'
    BY <1>1 DEF Spells
  <2>3. \A F : Lays(F) => Lays(F)'
    BY <1>1 DEF Lays, AtFront, Names
  <2>4. Chained'
    BY <1>1 DEF SInv, Chained, Reached, Names
  <2> QED
    BY <2>1, <2>2, <2>3, <2>4 DEF SInv

-----------------------------------------------------------------------------
(* The reader of a message of the writer's, which may have been cut.       *)

Came  == Known => /\ up # "idle" /\ pk = "packed" /\ received <= at
                  /\ content = {w \in written : w.at < received \/ w.end <= received}
Quiet == up \notin {"name", "done"} => heard = <<>> /\ octets = 0

(* A record, the end of the message, a question that has been cut.         *)
Owned(o)  == \E r \in written : r.kind = "record" /\ r.at = o
Stands(o) == o = at \/ Owned(o)
Clipped(o) == o = received /\ \E q \in Fresh({"question"}) : o \in {q.at, q.at + 2, q.at + 3}

Expected == Len(counts) = 4 /\ counts[1] = 1 /\ src.question # <<>>

AtItem == IF Len(counts) = 4 /\ counts[1] # 0 THEN Expected /\ off = 12
          ELSE Stands(off) \/ Clipped(off)

(* The record goes on behind the end of the message.                       *)
Broken == off = received /\ off < end

InTurn(T) == T \in Seq(Kind) /\ \A i \in 1 .. Len(T) - 1 : T[i] \notin Final

Within(F, b) == /\ b < off /\ Ends(written, end, b)
                /\ Broken \/ (off = end /\ todo = <<>>) \/ <<off, todo, b>> \in F
InData(F) == /\ Len(counts) # 4 /\ lim = Least(end, received) /\ InTurn(todo)
             /\ \E b \in Nat : Within(F, b)

(* What has been heard and what the message spells from here on are the    *)
(* name that was written, and the pointers followed and those to come are  *)
(* those it has.                                                           *)
Spells4(R, w, s, e, d) ==
  /\ <<pos, s, e, d>> \in R /\ heard \o s = w.labels
  /\ (IF ptr = 0 THEN e ELSE off1) = w.end
  /\ e <= w.end /\ ptr + d = w.num
Spelling(R) == \E w \in Names(off), s \in Seq(Label), e, d \in Nat : Spells4(R, w, s, e, d)

InName(R, F) ==
  /\ purpose = "question" => Expected /\ off = 12
  /\ purpose = "fixed" => Len(counts) # 4 /\ Owned(off)
  /\ purpose = "field" => InData(F) /\ Head(todo) \in Named
  /\ (purpose = "field" /\ Broken) \/ (off < lim /\ Spelling(R))
  /\ octets <= 2 * Len(heard)

Reads(R, F) ==
  /\ 12 < received /\ Len(counts) <= 4
  /\ up = "next" => AtItem
  /\ up = "question" => Expected /\ \E n \in Names(12) : off = n.end
  /\ up = "fixed" => Len(counts) # 4 /\ \E n \in written : n.kind = "name" /\ Owned(n.at) /\ off = n.end
  /\ up = "field" => InData(F)
  /\ up = "name" => InName(R, F)

Ready(R, F) ==
  /\ pk = "packed" /\ received <= at
  /\ content = {w \in written : w.at < received \/ w.end <= received}
  /\ IInv /\ WInv /\ Quiet /\ Placed
  /\ Apart /\ Chained /\ Spells(R) /\ Lays(F)

-----------------------------------------------------------------------------
LEMMA ReadyIs ==
  ASSUME NEW R, NEW F, Ready(R, F)
  PROVE  /\ Unique /\ Filled /\ Sized /\ Laid /\ at \in Nat /\ received \in Nat /\ received <= at
         /\ off \in Nat /\ lim \in Nat /\ end \in Nat /\ counts \in Seq(Nat) /\ todo \in Seq(Kind)
         /\ content \subseteq written /\ \A w \in written : w.at < received => w \in content
         /\ \A w \in written : /\ w.at \in Nat /\ w.end \in Nat /\ w.at <= w.end /\ w.end <= at
                               /\ w.num \in Nat /\ w.labels \in Seq(Label) /\ w.kind \in ItemKind
         /\ \A o : Reached(o) => Stands(o)
<1>1. /\ Unique /\ Filled /\ Sized /\ Laid /\ at \in Nat
  BY DEF Ready, Apart, WInv, Source
<1>2. \A o : Reached(o) => Stands(o)
  BY DEF Ready, Reached, Stands, Owned
<1>3. /\ received \in Nat /\ received <= at /\ off \in Nat /\ lim \in Nat /\ end \in Nat
      /\ counts \in Seq(Nat) /\ todo \in Seq(Kind)
  BY DEF Ready, IInv, UnpackTypeOK
<1>4. content \subseteq written /\ \A w \in written : w.at < received => w \in content
  BY DEF Ready
<1> QED
  BY <1>1, <1>2, <1>3, <1>4, ItemsAre

LEMMA FoundIs ==
  ASSUME NEW R, NEW F, Ready(R, F), NEW w \in written, NEW K, NEW x \in Found(w.at, K),
         Class(x.kind) = Class(w.kind)
  PROVE  x = w
<1>1. x \in written /\ x.at = w.at
  BY ReadyIs DEF Found
<1> QED
  BY <1>1, ReadyIs DEF Unique

(* What stands where a name goes on says what it spells.                   *)
LEMMA SpellingIs ==
  ASSUME NEW R, NEW F, Ready(R, F), NEW p, NEW s, NEW e, NEW d, <<p, s, e, d>> \in R, p < received
  PROVE  /\ p \in Nat /\ s \in Seq(Label) /\ e \in Nat /\ d \in Nat /\ p < e
         /\ ~Blank(p)
         /\ Found(p, {"root"}) # {} => s = <<>> /\ e = p + 1 /\ d = 0
         /\ \A w \in Found(p, {"label"}) : /\ s # <<>> /\ w.end = p + 2 /\ w.labels = <<Head(s)>>
                                          /\ <<w.end, Tail(s), e, d>> \in R
         /\ \A w \in Found(p, {"pointer"}) :
              /\ e = p + 2
              /\ \E f, c \in Nat : f <= p /\ d = c + 1 /\ <<w.num, s, f, c>> \in R
<1>1. p < e /\ Spelt(written, R, p, s, e, d) /\ <<p, s, e, d>> \in Nat \X Seq(Label) \X Nat \X Nat
  BY DEF Ready, Spells, SpellsIn
<1>2. \A x, w \in written : x.at = p /\ w.at = p /\ x.kind \in NameItems /\ w.kind \in NameItems
                            => x = w
  <2>1. Unique
    BY ReadyIs
  <2> QED
    BY <2>1, KindsApart DEF Unique
<1>3. content \subseteq written /\ \A w \in written : w.at < received => w \in content
  BY ReadyIs
<1>4. PICK w \in written : w.at = p /\ w.kind \in NameItems /\
        \/ s = <<>> /\ e = p + 1 /\ d = 0 /\ w.kind = "root"
        \/ /\ s # <<>> /\ w.kind = "label" /\ w.end = p + 2 /\ w.labels = <<Head(s)>>
           /\ <<w.end, Tail(s), e, d>> \in R
        \/ /\ e = p + 2 /\ w.kind = "pointer"
           /\ \E f, c \in Nat : f <= p /\ d = c + 1 /\ <<w.num, s, f, c>> \in R
  BY <1>1 DEF Spelt, NameItems
<1>5. \A K : K \subseteq NameItems => \A x \in Found(p, K) : x = w
  BY <1>2, <1>3, <1>4 DEF Found
<1>6. {"root"} \subseteq NameItems /\ {"label"} \subseteq NameItems /\ {"pointer"} \subseteq NameItems
  BY DEF NameItems
<1>7. \A k : \A x \in Found(p, {k}) : x.kind = k
  BY DEF Found
<1>8. ~Blank(p)
  BY <1>3, <1>4 DEF Blank, Found
<1> QED
  BY <1>1, <1>4, <1>5, <1>6, <1>7, <1>8

(* Where a record is being read the end is that of the record.             *)
LEMMA WithinIs ==
  ASSUME NEW R, NEW F, Ready(R, F), NEW b \in Nat, Within(F, b)
  PROVE  /\ Stands(end) /\ b < end
         /\ \A p, T : <<p, T, b>> \in F => p \in Nat /\ p <= end
         /\ \A p : Ends(written, p, b) => p = end
<1>1. PICK r \in written : r.kind = "record" /\ r.at = b /\ r.end = end
  BY DEF Within, Ends
<1>2. Stands(end)
  <2>1. Reached(end)
    BY <1>1 DEF Ready, Chained
  <2> QED
    BY <2>1, ReadyIs
<1>3. \A p, T : <<p, T, b>> \in F => p \in Nat /\ p <= end
  BY <1>1 DEF Ready, Lays, Inside
<1>4. \A p : Ends(written, p, b) => p = end
  BY <1>1, ReadyIs DEF Ends, Unique
<1>5. b < end
  <2>1. r.at < r.end
    BY <1>1, ReadyIs, KindsApart DEF Filled
  <2> QED
    BY <1>1, <2>1
<1> QED
  BY <1>2, <1>3, <1>4, <1>5

(* Behind a field, or where the record is at its end: the next field, or   *)
(* none.                                                                   *)
LEMMA FieldFollows ==
  ASSUME NEW R, NEW F, Ready(R, F), NEW b \in Nat, Within(F, b), NEW p, NEW T, <<p, T, b>> \in F
  PROVE  \/ p = end /\ Closing(T)
         \/ T # <<>> /\ \E w \in written : /\ w.at = p /\ w.kind = Written(Head(T)) /\ w.end <= end
                                          /\ <<w.end, After(T), b>> \in F
<1>1. (Ends(written, p, b) /\ Closing(T)) \/ Follows(written, F, p, T, b)
  BY DEF Ready, Lays, AtFront
<1>2. CASE Ends(written, p, b) /\ Closing(T)
  BY <1>2, WithinIs
<1>3. CASE Follows(written, F, p, T, b)
  <2>1. T # <<>>
    BY <1>3 DEF Follows
  <2>2. PICK w \in written : w.at = p /\ w.kind = Written(Head(T)) /\ <<w.end, After(T), b>> \in F
    BY <1>3 DEF Follows
  <2>3. w.end <= end
    BY <2>2, WithinIs
  <2> QED
    BY <2>1, <2>2, <2>3
<1> QED
  BY <1>1, <1>2, <1>3

LEMMA FieldStands ==
  ASSUME NEW R, NEW F, Ready(R, F), InData(F), off < lim, todo # <<>>
  PROVE  \E b \in Nat, w \in written :
           /\ Within(F, b) /\ w \in content /\ w.at = off /\ w.kind = Written(Head(todo))
           /\ w.end <= end /\ <<w.end, After(todo), b>> \in F
<1>1. PICK b \in Nat : Within(F, b)
  BY DEF InData
<1>2. off < end /\ off < received
  <2>1. off \in Nat /\ lim \in Nat /\ end \in Nat /\ received \in Nat /\ lim = Least(end, received)
    BY ReadyIs DEF InData
  <2> QED
    BY <2>1 DEF Least
<1>3. off # end /\ off # received
  BY <1>2, ReadyIs
<1>4. <<off, todo, b>> \in F
  BY <1>1, <1>3 DEF Within, Broken
<1>5. PICK w \in written : /\ w.at = off /\ w.kind = Written(Head(todo)) /\ w.end <= end
                           /\ <<w.end, After(todo), b>> \in F
  BY <1>1, <1>3, <1>4, FieldFollows
<1>6. w \in content
  BY <1>2, <1>5, ReadyIs
<1> QED
  BY <1>1, <1>5, <1>6

LEMMA HeaderReads ==
  ASSUME NEW R, NEW F, Ready(R, F), Header, UNCHANGED packVars
  PROVE  Reads(R, F)'
<1>1. PICK h \in written : h.at = 0 /\ h.kind = "header" /\ h.counts = SectionCounts(src)
  BY DEF Ready, Chained
<1>2. \A x \in Found(0, {"header"}) : x = h
  BY <1>1, FoundIs DEF Found
<1>3. 12 < received /\ received' = received
  BY DEF Header, message
<1>4. h \in Found(0, {"header"})
  <2>1. h.at < received
    BY <1>1, <1>3, ReadyIs
  <2> QED
    BY <1>1, <2>1, ReadyIs DEF Found
<1>5. counts' = SectionCounts(src) /\ off' = 12 /\ up' = "next"
  BY <1>1, <1>2, <1>4 DEF Header, Counts
<1>6. src \in Messages
  BY DEF Ready, WInv, Source
<1>7. /\ Len(counts') = 4 /\ counts'[1] \in {0, 1} /\ (counts'[1] = 0 <=> src.question = <<>>)
  BY <1>5, <1>6, CountsAre
<1>8. src.question = <<>> => Stands(12)
  BY ReadyIs DEF Ready, Chained
<1>9. UNCHANGED <<src, at, written>>
  BY DEF packVars
<1>10. src.question = <<>> => Stands(12)'
  BY <1>8, <1>9 DEF Stands, Owned
<1>11. src.question = <<>> => Stands(off)'
  BY <1>5, <1>10 DEF Stands, Owned
<1>12. AtItem'
  BY <1>5, <1>7, <1>9, <1>11 DEF AtItem, Expected
<1> QED
  BY <1>3, <1>5, <1>7, <1>12 DEF Reads

LEMMA SectionEndsReads ==
  ASSUME NEW R, NEW F, Ready(R, F), Reads(R, F), SectionEnds, UNCHANGED packVars
  PROVE  Reads(R, F)'
<1>1. /\ up = "next" /\ up' = "next" /\ off' = off /\ counts # <<>> /\ counts' = Tail(counts)
      /\ Len(counts) = 4 => counts[1] = 0
      /\ received' = received
  BY DEF SectionEnds, Questions, message
<1>2. counts \in Seq(Nat)
  BY DEF Ready, IInv, UnpackTypeOK
<1>3. Len(counts') = Len(counts) - 1 /\ Len(counts) \in Nat
  BY <1>1, <1>2
<1>4. Len(counts) <= 4 /\ 12 < received /\ (Stands(off) \/ Clipped(off))
  BY <1>1 DEF Reads, AtItem
<1>5. Stands(off)' \/ Clipped(off)'
  BY <1>1, <1>4 DEF Stands, Owned, Clipped, Fresh, packVars
<1>6. Len(counts') # 4 /\ Len(counts') <= 4
  <2>1. Len(counts) <= 4
    BY <1>4
  <2> QED
    BY <1>3, <2>1
<1>7. AtItem'
  BY <1>5, <1>6 DEF AtItem
<1> QED
  BY <1>1, <1>4, <1>6, <1>7 DEF Reads

(* A name begins where one stands.                                         *)
LEMMA NameBegins ==
  ASSUME NEW R, NEW F, Ready(R, F), NEW w \in Names(off), up \notin {"name", "done"},
         pos' = off, UNCHANGED <<off, heard, ptr>>, UNCHANGED packVars
  PROVE  Spelling(R)'
<1>1. heard = <<>> /\ ptr = 0
  BY DEF Ready, Quiet, IInv, Place
<1>2. w \in written /\ w.kind = "name" /\ w.at = off
  BY DEF Names
<1>3. <<w.at, w.labels, w.end, w.num>> \in R
  BY <1>2 DEF Ready, Spells, SpellsIn
<1>4. w.labels \in Seq(Label) /\ w.end \in Nat /\ w.num \in Nat
  BY <1>2, ReadyIs
<1>5. heard \o w.labels = w.labels
  BY <1>1, <1>4, ConcatEmptySeq
<1>6. w \in Names(off)'
  BY <1>2 DEF Names, packVars
<1>7. PICK s : s = w.labels
  OBVIOUS
<1>8. PICK e, d : e = w.end /\ d = w.num
  OBVIOUS
<1>9. s \in Seq(Label) /\ e \in Nat /\ d \in Nat
  BY <1>4, <1>7, <1>8
<1>10. /\ <<pos', s, e, d>> \in R /\ heard' \o s = w.labels
       /\ (IF ptr' = 0 THEN e ELSE off1') = w.end /\ e <= w.end /\ ptr' + d = w.num
  BY <1>1, <1>2, <1>3, <1>4, <1>5, <1>7, <1>8
<1> QED
  BY <1>6, <1>9, <1>10 DEF Spelling, Spells4

LEMMA NextItemReads ==
  ASSUME NEW R, NEW F, Ready(R, F), Reads(R, F), NextItem, UNCHANGED packVars
  PROVE  Reads(R, F)'
<1>1. /\ up = "next" /\ counts # <<>> /\ Head(counts) # 0
      /\ Len(counts) = 4 \/ off # received
      /\ up' = "name" /\ purpose' = (IF Len(counts) = 4 THEN "question" ELSE "fixed")
      /\ pos' = off /\ UNCHANGED <<off, ptr, heard, octets, counts, end, lim, todo, received>>
  BY DEF NextItem, Questions, StartName, record, progress, message
<1>2. counts[1] # 0 /\ Len(counts) <= 4 /\ 12 < received /\ AtItem
  BY <1>1 DEF Reads
<1>3. UNCHANGED <<src, at, written>>
  BY DEF packVars
<1>4. octets' <= 2 * Len(heard')
  <2>1. octets = 0 /\ heard = <<>>
    BY <1>1 DEF Ready, Quiet
  <2> QED
    BY <1>1, <2>1
<1>5. off <= lim /\ lim = received /\ off \in Nat /\ received \in Nat /\ at \in Nat /\ received <= at
  BY <1>1, ReadyIs DEF Ready, IInv, Limits, InRecord
<1>6. CASE Len(counts) = 4
  <2>1. Expected /\ off = 12
    BY <1>2, <1>6 DEF AtItem
  <2>2. \E w : w \in Names(off)
    BY <2>1 DEF Ready, Chained, Expected
  <2>3. Spelling(R)'
    BY <1>1, <2>2, NameBegins
  <2>4. off < lim
    BY <1>2, <1>5, <2>1
  <2>5. InName(R, F)'
    BY <1>1, <1>3, <1>4, <1>6, <2>1, <2>3, <2>4 DEF InName, Expected
  <2> QED
    BY <1>1, <1>2, <2>5 DEF Reads
<1>7. CASE Len(counts) # 4
  <2>1. off < lim /\ off # at
    BY <1>1, <1>5, <1>7
  <2>2. Owned(off)
    BY <1>1, <1>2, <1>7, <2>1 DEF AtItem, Stands, Clipped
  <2>3. PICK r \in written : r.kind = "record" /\ r.at = off
    BY <2>2 DEF Owned
  <2>4. Framed(written, F, r)
    BY <2>3 DEF Ready, Lays
  <2>5. \E w : w \in Names(off)
    BY <2>3, <2>4 DEF Framed, Names
  <2>6. Spelling(R)'
    BY <1>1, <2>5, NameBegins
  <2>7. InName(R, F)'
    BY <1>1, <1>3, <1>4, <1>7, <2>1, <2>2, <2>6 DEF InName, Owned
  <2> QED
    BY <1>1, <1>2, <2>7 DEF Reads
<1> QED
  BY <1>6, <1>7

-----------------------------------------------------------------------------
(* Where a name is read, but for what is heard.                            *)
LEMMA StaysInName ==
  ASSUME NEW R, NEW F, Reads(R, F), up = "name", up' = "name",
         UNCHANGED <<purpose, counts, off, end, lim, todo, received>>, UNCHANGED packVars,
         off < lim, Spelling(R)', octets' <= 2 * Len(heard')
  PROVE  Reads(R, F)'
<1>1. InName(R, F) /\ Len(counts) <= 4 /\ 12 < received
  BY DEF Reads
<1>2. UNCHANGED <<src, at, written>>
  BY DEF packVars
<1>3. InData(F) => InData(F)'
  BY <1>2 DEF InData, Within, Broken, Ends
<1>4. InName(R, F)'
  BY <1>1, <1>2, <1>3 DEF InName, Expected, Owned
<1> QED
  BY <1>1, <1>4 DEF Reads

LEMMA NotAtEnd ==
  ASSUME NEW R, NEW F, Ready(R, F), Reads(R, F), up = "name", pos < lim \/ pos + 2 <= lim
  PROVE  Spelling(R) /\ off < lim /\ pos < received /\ lim <= received /\ ~Broken
<1>1. InName(R, F)
  BY DEF Reads
<1>2. /\ pos \in Nat /\ lim \in Nat /\ off \in Nat /\ off1 \in Nat /\ ptr \in Nat /\ received \in Nat
      /\ lim <= received
      /\ ptr = 0 => off <= pos
      /\ ptr > 0 => off < off1 /\ off1 <= lim
  BY DEF Ready, IInv, UnpackTypeOK, Limits, Place
<1>3. off < lim /\ pos < received
  BY <1>2
<1>4. ~Broken
  BY <1>2, <1>3 DEF Broken
<1> QED
  BY <1>1, <1>2, <1>3, <1>4 DEF InName

LEMMA NameLabelReads ==
  ASSUME NEW R, NEW F, Ready(R, F), Reads(R, F), NameLabel, UNCHANGED packVars
  PROVE  Reads(R, F)'
<1>1. PICK g \in LabelEnds(pos) : pos' = g /\ octets' = Least(octets + g - pos, MaxName)
  BY DEF NameLabel
<1>2. /\ up = "name" /\ up' = "name" /\ pos < lim
      /\ heard' = IF Blank(pos) THEN heard
                  ELSE heard \o (CHOOSE w \in Found(pos, {"label"}) : TRUE).labels
      /\ UNCHANGED <<purpose, counts, off, end, lim, todo, off1, ptr, received>>
  BY DEF NameLabel, record, progress, message
<1>3. Spelling(R) /\ off < lim /\ pos < received
  BY <1>2, NotAtEnd
<1>4. PICK w \in Names(off), s \in Seq(Label), e \in Nat, d \in Nat : Spells4(R, w, s, e, d)
  BY <1>3 DEF Spelling
<1>5. /\ <<pos, s, e, d>> \in R /\ heard \o s = w.labels
      /\ (IF ptr = 0 THEN e ELSE off1) = w.end /\ e <= w.end /\ ptr + d = w.num
  BY <1>4 DEF Spells4
<1>6. /\ ~Blank(pos)
      /\ \A x \in Found(pos, {"label"}) :
           s # <<>> /\ x.end = pos + 2 /\ x.labels = <<Head(s)>> /\ <<x.end, Tail(s), e, d>> \in R
  BY <1>3, <1>5, SpellingIs
<1>7. PICK x \in Found(pos, {"label"}) : g = x.end
  BY <1>1, <1>6 DEF LabelEnds
<1>8. heard' = heard \o <<Head(s)>>
  <2>1. (CHOOSE y \in Found(pos, {"label"}) : TRUE) \in Found(pos, {"label"})
    BY <1>7
  <2> QED
    BY <1>2, <1>6, <2>1
<1>9. s # <<>> /\ pos' = pos + 2 /\ <<pos', Tail(s), e, d>> \in R
  BY <1>1, <1>6, <1>7
<1>10. heard \in Seq(Label) /\ Tail(s) \in Seq(Label) /\ <<Head(s)>> \in Seq(Label)
       /\ <<Head(s)>> \o Tail(s) = s /\ Len(<<Head(s)>>) = 1
  <2>1. heard \in Seq(Label)
    BY DEF Ready, IInv, UnpackTypeOK
  <2>2. Head(s) \in Label /\ Tail(s) \in Seq(Label)
    BY <1>9
  <2>3. <<Head(s)>> \o Tail(s) = s /\ Len(<<Head(s)>>) = 1
    BY <1>9
  <2> QED
    BY <2>1, <2>2, <2>3
<1>11. heard' \o Tail(s) = w.labels /\ Len(heard') = Len(heard) + 1 /\ Len(heard) \in Nat
  <2> DEFINE h == <<Head(s)>>
             t == Tail(s)
  <2> HIDE DEF h, t
  <2>1. (heard \o h) \o t = heard \o (h \o t)
    BY <1>10, ConcatAssociative DEF h, t
  <2>2. Len(heard \o h) = Len(heard) + Len(h) /\ Len(heard) \in Nat
    BY <1>10 DEF h
  <2> QED
    BY <1>5, <1>8, <1>10, <2>1, <2>2 DEF h, t
<1>12. w \in Names(off)'
  BY <1>2 DEF Names, packVars
<1>13. Spelling(R)'
  <2>1. PICK t : t = Tail(s)
    OBVIOUS
  <2>2. t \in Seq(Label) /\ <<pos', t, e, d>> \in R /\ heard' \o t = w.labels
        /\ (IF ptr' = 0 THEN e ELSE off1') = w.end /\ e <= w.end /\ ptr' + d = w.num
    BY <1>2, <1>5, <1>9, <1>10, <1>11, <2>1
  <2> QED
    BY <1>12, <2>2 DEF Spelling, Spells4
<1>14. octets' <= 2 * Len(heard')
  <2>1. octets <= 2 * Len(heard)
    BY <1>2 DEF Reads, InName
  <2>2. octets \in Nat /\ pos \in Nat /\ MaxName \in Nat
    BY LayoutRead DEF Ready, IInv, UnpackTypeOK
  <2>3. octets' <= octets + 2
    BY <1>1, <1>9, <2>2 DEF Least
  <2>4. octets' \in Nat
    BY <1>1, <1>9, <2>2 DEF Least
  <2> QED
    BY <1>11, <2>1, <2>2, <2>3, <2>4
<1> QED
  BY <1>2, <1>3, <1>13, <1>14, StaysInName

LEMMA NamePointerReads ==
  ASSUME NEW R, NEW F, Ready(R, F), Reads(R, F), NamePointer, UNCHANGED packVars
  PROVE  Reads(R, F)'
<1>1. /\ up = "name" /\ up' = "name" /\ pos + 2 <= lim /\ pos' \in Targets(pos)
      /\ off1' = (IF ptr = 0 THEN pos + 2 ELSE off1) /\ ptr' = ptr + 1
      /\ UNCHANGED <<purpose, counts, off, end, lim, todo, heard, octets, received>>
  BY DEF NamePointer, record, progress, message
<1>2. Spelling(R) /\ off < lim /\ pos < received
  BY <1>1, NotAtEnd
<1>3. PICK w \in Names(off), s \in Seq(Label), e \in Nat, d \in Nat : Spells4(R, w, s, e, d)
  BY <1>2 DEF Spelling
<1>4. /\ <<pos, s, e, d>> \in R /\ heard \o s = w.labels
      /\ (IF ptr = 0 THEN e ELSE off1) = w.end /\ e <= w.end /\ ptr + d = w.num
  BY <1>3 DEF Spells4
<1>5. /\ ~Blank(pos) /\ pos < e
      /\ \A x \in Found(pos, {"pointer"}) :
           e = pos + 2 /\ \E f, c \in Nat : f <= pos /\ d = c + 1 /\ <<x.num, s, f, c>> \in R
  <2>1. <<pos, s, e, d>> \in R /\ pos < received
    BY <1>2, <1>4
  <2> QED
    BY <2>1, SpellingIs
<1>6. PICK x \in Found(pos, {"pointer"}) : pos' = x.num
  BY <1>1, <1>5 DEF Targets
<1>7. PICK f \in Nat, c \in Nat : f <= pos /\ d = c + 1 /\ <<pos', s, f, c>> \in R
  BY <1>5, <1>6
<1>8. ptr' # 0 /\ off1' = w.end /\ f <= w.end /\ ptr' + c = w.num
  <2>1. ptr \in Nat /\ pos \in Nat /\ w.end \in Nat
    BY ReadyIs DEF Ready, IInv, UnpackTypeOK, Names
  <2> QED
    BY <1>1, <1>4, <1>5, <1>6, <1>7, <2>1
<1>9. w \in Names(off)'
  BY <1>1 DEF Names, packVars
<1>10. Spelling(R)'
  <2>1. heard' \o s = w.labels /\ (IF ptr' = 0 THEN f ELSE off1') = w.end
    BY <1>1, <1>4, <1>8
  <2> QED
    BY <1>7, <1>8, <1>9, <2>1 DEF Spelling, Spells4
<1>11. octets' <= 2 * Len(heard')
  BY <1>1 DEF Reads, InName
<1> QED
  BY <1>1, <1>2, <1>10, <1>11, StaysInName

(* A field ends where the one that was written ends.                       *)
LEMMA WrittenKinds ==
  /\ \A k \in DOMAIN Size \cup {"octet"} : Written(k) = k
  /\ Kind \ Named = DOMAIN Size \cup DOMAIN Span \cup Remnant \cup {"octet"}
  /\ \A k \in Named : Written(k) = "name"
  /\ Counted \cap Absent = {} /\ Counted \cap Repeated = {} /\ Repeated \subseteq Final
  /\ Remnant \subseteq Final /\ "octet" \in Final /\ Named \cap Absent = {"names"}
  /\ (Remnant \cup {"octet"}) \cap Repeated = {}
<1>1. DOMAIN Size \cap {"hexN", "b64N", "b32N", "names", "name"} = {}
  BY SizeFacts
<1>2. DOMAIN Span \cap {"names", "name"} = {}
  BY KindFacts
<1>3. \A k : k \notin {"hexN", "b64N", "b32N", "names"} => Written(k) = k
  BY DEF Written
<1>4. Written("names") = "name"
  BY DEF Written
<1>5. /\ Counted \cap Absent = {} /\ Counted \cap Repeated = {} /\ Repeated \subseteq Final
      /\ Remnant \subseteq Final /\ "octet" \in Final /\ Named \cap Absent = {"names"}
      /\ (Remnant \cup {"octet"}) \cap Repeated = {}
  BY DEF Counted, Absent, Repeated, Final, Remnant, Named
<1> QED
  BY <1>1, <1>2, <1>3, <1>4, <1>5 DEF Kind, Named, Remnant

(* What is left of the fields is in turn, and a field that goes to the end *)
(* or may be missing is the last.                                          *)
LEMMA InTurnOn ==
  ASSUME NEW T, InTurn(T), T # <<>>
  PROVE  InTurn(Tail(T)) /\ InTurn(<<>>) /\ (Head(T) \in Final => Tail(T) = <<>>)
<1>1. T \in Seq(Kind) /\ \A i \in 1 .. Len(T) - 1 : T[i] \notin Final
  BY DEF InTurn
<1>2. /\ Len(T) \in Nat /\ Len(T) > 0 /\ Head(T) = T[1]
      /\ Tail(T) \in Seq(Kind) /\ Len(Tail(T)) = Len(T) - 1
      /\ \A j \in 1 .. Len(T) - 1 : Tail(T)[j] = T[j + 1]
  BY <1>1, TailIs
<1>3. ASSUME NEW i \in 1 .. Len(Tail(T)) - 1
      PROVE  Tail(T)[i] \notin Final
  <2>1. i \in 1 .. Len(T) - 1 /\ i + 1 \in 1 .. Len(T) - 1
    BY <1>2
  <2> QED
    BY <1>1, <1>2, <2>1
<1>4. InTurn(Tail(T))
  BY <1>2, <1>3 DEF InTurn
<1>5. ASSUME Head(T) \in Final
      PROVE  Tail(T) = <<>>
  <2>1. ~(1 \in 1 .. Len(T) - 1)
    BY <1>1, <1>2, <1>5
  <2>2. Len(Tail(T)) = 0
    BY <1>2, <2>1
  <2> QED
    BY <1>2, <2>2, EmptySeq
<1>6. InTurn(<<>>)
  BY DEF InTurn
<1> QED
  BY <1>4, <1>5, <1>6

LEMMA LayoutInTurn ==
  ASSUME LayoutsAgree, NEW t \in RRType
  PROVE  InTurn(Layout[t])
<1>1. Layout[t] \in Seq(Kind)
  BY LayoutRead
<1>2. /\ Len(Layout[t]) = Len(PackLayout[t])
      /\ \A i \in 1 .. Len(PackLayout[t]) : Layout[t][i] \in Final => i = Len(PackLayout[t])
  BY DEF LayoutsAgree
<1>3. ASSUME NEW i \in 1 .. Len(Layout[t]) - 1
      PROVE  Layout[t][i] \notin Final
  <2>1. i \in 1 .. Len(Layout[t]) /\ i # Len(Layout[t])
    BY <1>1
  <2> QED
    BY <1>2, <2>1
<1> QED
  BY <1>1, <1>3 DEF InTurn

LEMMA FieldEndIs ==
  ASSUME NEW R, NEW F, Ready(R, F), InData(F), todo # <<>>, Head(todo) \in Kind \ Named,
         NEW b \in Nat, Within(F, b), NEW w \in content, w.at = off, w.kind = Written(Head(todo)),
         <<w.end, After(todo), b>> \in F, NEW e \in FieldEnds(Head(todo))
  PROVE  e = w.end \/ (e = lim /\ w.end = end)
<1> DEFINE k == Head(todo)
<1>1. w \in written
  BY ReadyIs
<1>2. w \in Found(off, {Written(k)})
  BY DEF Found
<1>3. CASE k \in DOMAIN Size
  <2>1. w.kind = k
    BY <1>3, WrittenKinds
  <2>2. w.end = w.at + Size[k]
    BY <1>1, <1>3, <2>1, ReadyIs DEF Sized
  <2> QED
    BY <1>3, <2>2 DEF FieldEnds
<1>4. k \in Remnant \cup {"octet"} => w.end = end
  <2> SUFFICES ASSUME k \in Remnant \cup {"octet"}
               PROVE  w.end = end
    OBVIOUS
  <2>1. k \in Final /\ k \notin Repeated
    BY WrittenKinds
  <2>2. After(todo) = <<>>
    BY <2>1, InTurnOn DEF After, InData
  <2> QED
    BY <2>2, FieldFollows
<1>5. CASE k \notin DOMAIN Size /\ k \in Remnant
  <2>1. e = end /\ w.end = end
    BY <1>4, <1>5 DEF FieldEnds
  <2> QED
    BY <2>1
<1>6. CASE k \notin DOMAIN Size /\ k \notin Remnant /\ k = "octet"
  <2>1. FieldEnds(k) = {lim}
    BY <1>6 DEF FieldEnds
  <2>2. w.end = end
    BY <1>4, <1>6
  <2> QED
    BY <2>1, <2>2
<1>7. CASE k \notin DOMAIN Size /\ k \notin Remnant /\ k # "octet"
  <2>1. PICK x \in Found(off, {Written(k)}) : e = x.end
    BY <1>2, <1>7 DEF FieldEnds
  <2>2. x.kind = w.kind /\ x \in Found(w.at, {Written(k)})
    BY <2>1 DEF Found
  <2>3. x = w
    BY <1>1, <2>2, FoundIs
  <2> QED
    BY <2>1, <2>3
<1> QED
  BY <1>3, <1>5, <1>6, <1>7

(* Behind a field the next one follows, or the record is at its end, or    *)
(* the message is.                                                         *)
LEMMA FieldGoesOn ==
  ASSUME NEW R, NEW F, Ready(R, F), InData(F), off < lim, todo # <<>>,
         NEW b \in Nat, Within(F, b), NEW w \in written, w.end <= end, <<w.end, After(todo), b>> \in F,
         off' = Least(w.end, received), off < off' \/ off = off', todo' = Rest(off'),
         UNCHANGED <<counts, lim, end, received>>, UNCHANGED packVars
  PROVE  InData(F)'
<1>1. UNCHANGED <<at, written>>
  BY DEF packVars
<1>2. Len(counts) # 4 /\ lim = Least(end, received) /\ InTurn(todo)
  BY DEF InData
<1>3. /\ w.end \in Nat /\ off \in Nat /\ end \in Nat /\ lim \in Nat /\ received \in Nat
      /\ b < off /\ Ends(written, end, b)
  BY ReadyIs DEF Within
<1>4. off' \in Nat /\ off' <= received /\ off' <= end /\ b < off'
  BY <1>3 DEF Least
<1>5. InTurn(todo')
  BY <1>2, InTurnOn DEF Rest
<1>6. (off' = received /\ off' < end) \/ (off' = end /\ todo' = <<>>) \/ <<off', todo', b>> \in F
  <2>1. CASE off' = received /\ off' < end
    BY <2>1
  <2>2. CASE off' # received \/ ~(off' < end)
    <3>1. off' = w.end
      BY <1>3, <1>4, <2>2 DEF Least
    <3>2. off' = lim => off' = end
      BY <1>2, <1>3, <1>4, <2>2 DEF Least
    <3>3. CASE off' = lim /\ Head(todo) \notin Counted
      <4>1. todo' = <<>>
        BY <3>3 DEF Rest
      <4> QED
        BY <3>2, <3>3, <4>1
    <3>4. CASE ~(off' = lim /\ Head(todo) \notin Counted)
      <4>1. todo' = After(todo)
        BY <3>4 DEF Rest, After
      <4> QED
        BY <3>1, <4>1
    <3> QED
      BY <3>3, <3>4
  <2> QED
    BY <2>1, <2>2
<1>7. Within(F, b)'
  <2>1. Ends(written, end, b)'
    BY <1>1, <1>3 DEF Ends
  <2>2. Broken' \/ (off' = end' /\ todo' = <<>>) \/ <<off', todo', b>> \in F
    BY <1>6 DEF Broken
  <2> QED
    BY <1>4, <2>1, <2>2 DEF Within
<1> QED
  BY <1>2, <1>5, <1>7 DEF InData

(* Where nothing is left to read of the record or of the message.          *)
LEMMA AtLimit ==
  ASSUME NEW R, NEW F, Ready(R, F), InData(F), InRecord, ~(off < lim)
  PROVE  off = lim /\ (Broken \/ off = end)
<1>1. off \in Nat /\ lim \in Nat /\ end \in Nat /\ received \in Nat /\ lim = Least(end, received)
  BY ReadyIs DEF InData
<1>2. off <= lim
  BY DEF Ready, IInv, Limits, InRecord
<1> QED
  BY <1>1, <1>2 DEF Least, Broken

(* No field stands where the record is at its end, but of octets that are  *)
(* counted elsewhere.                                                      *)
LEMMA NoneLeft ==
  ASSUME NEW R, NEW F, Ready(R, F), InData(F), off = end, todo # <<>>, ~Broken,
         NEW b \in Nat, Within(F, b)
  PROVE  \/ Head(todo) \in Absent
         \/ \E w \in written : /\ w.at = end /\ w.kind = Written(Head(todo)) /\ w.end = end
                               /\ <<end, After(todo), b>> \in F
<1>1. <<off, todo, b>> \in F
  BY DEF Within
<1>2. \/ off = end /\ Closing(todo)
      \/ todo # <<>> /\ \E w \in written : /\ w.at = off /\ w.kind = Written(Head(todo)) /\ w.end <= end
                                           /\ <<w.end, After(todo), b>> \in F
  BY <1>1, FieldFollows
<1>3. CASE Closing(todo)
  BY <1>3 DEF Closing
<1>4. CASE ~Closing(todo)
  <2>1. PICK w \in written : /\ w.at = off /\ w.kind = Written(Head(todo)) /\ w.end <= end
                             /\ <<w.end, After(todo), b>> \in F
    BY <1>2, <1>4
  <2>2. w.end = end
    <3>1. w.at <= w.end /\ w.end \in Nat /\ end \in Nat
      BY ReadyIs
    <3> QED
      BY <2>1, <3>1
  <2> QED
    BY <2>1, <2>2
<1> QED
  BY <1>3, <1>4

LEMMA FieldReads ==
  ASSUME NEW R, NEW F, Ready(R, F), Reads(R, F), Field, UNCHANGED packVars
  PROVE  Reads(R, F)'
<1>1. /\ up = "field" /\ up' = "field" /\ todo # <<>> /\ Head(todo) \in Kind \ Named
      /\ UNCHANGED <<counts, lim, end, received>>
  BY DEF Field, AtField, progress, message
<1>2. PICK e \in FieldEnds(Head(todo)) : e <= lim /\ off' = e /\ todo' = Rest(e)
  BY DEF Field
<1>3. InData(F) /\ Len(counts) <= 4 /\ 12 < received
  BY <1>1 DEF Reads
<1>4. e \in Nat /\ off <= e /\ off \in Nat /\ lim \in Nat
  <2>1. IInv
    BY DEF Ready
  <2>2. e \in Nat /\ off <= e
    BY <1>1, <2>1, FieldEndFacts
  <2> QED
    BY <2>2, ReadyIs
<1>5. CASE ~(off < lim)
  <2>1. off = lim /\ (Broken \/ off = end)
    BY <1>1, <1>3, <1>5, AtLimit DEF InRecord
  <2>2. off' = off
    BY <1>2, <1>4, <2>1
  <2>3. PICK b \in Nat : Within(F, b)
    BY <1>3 DEF InData
  <2>4. UNCHANGED <<at, written>>
    BY DEF packVars
  <2>5. Broken' \/ (off' = end' /\ todo' = <<>>) \/ <<off', todo', b>> \in F
    <3>1. CASE Broken
      BY <1>1, <2>2, <3>1 DEF Broken
    <3>2. CASE ~Broken /\ Head(todo) \notin Counted
      <4>1. todo' = <<>>
        BY <1>2, <2>1, <2>2, <3>2 DEF Rest
      <4> QED
        BY <1>1, <2>1, <2>2, <3>2, <4>1
    <3>3. CASE ~Broken /\ Head(todo) \in Counted
      <4>1. Head(todo) \notin Absent /\ Head(todo) \notin Repeated
        BY <3>3, WrittenKinds
      <4>2. todo' = Tail(todo) /\ After(todo) = Tail(todo)
        BY <1>2, <3>3, <4>1 DEF Rest, After
      <4>3. <<end, After(todo), b>> \in F
        BY <1>1, <1>3, <2>1, <2>3, <3>3, <4>1, NoneLeft
      <4> QED
        BY <2>1, <2>2, <3>3, <4>2, <4>3
    <3> QED
      BY <3>1, <3>2, <3>3
  <2>6. InTurn(todo')
    BY <1>1, <1>2, <1>3, InTurnOn DEF InData, Rest
  <2>7. Within(F, b)'
    BY <1>1, <2>2, <2>3, <2>4, <2>5 DEF Within, Ends
  <2>8. InData(F)'
    BY <1>1, <1>3, <2>6, <2>7 DEF InData
  <2> QED
    BY <1>1, <1>3, <2>8 DEF Reads
<1>6. CASE off < lim
  <2>1. PICK b \in Nat, w \in written :
           /\ Within(F, b) /\ w \in content /\ w.at = off /\ w.kind = Written(Head(todo))
           /\ w.end <= end /\ <<w.end, After(todo), b>> \in F
    BY <1>1, <1>3, <1>6, FieldStands
  <2>2. e = Least(w.end, received)
    <3>1. e = w.end \/ (e = lim /\ w.end = end)
      BY <1>1, <1>2, <1>3, <2>1, FieldEndIs
    <3>2. /\ lim = Least(end, received) /\ lim <= received /\ lim \in Nat /\ received \in Nat
          /\ w.end \in Nat /\ end \in Nat
      <4>1. lim = Least(end, received) /\ lim \in Nat /\ received \in Nat /\ w.end \in Nat /\ end \in Nat
        BY <1>3, ReadyIs DEF InData
      <4> QED
        BY <4>1 DEF Least
    <3> QED
      BY <1>2, <1>4, <3>1, <3>2 DEF Least
  <2>3. off < off' \/ off = off'
    BY <1>2, <1>4
  <2>4. InData(F)'
    BY <1>1, <1>2, <1>3, <1>6, <2>1, <2>2, <2>3, FieldGoesOn
  <2> QED
    BY <1>1, <1>3, <2>4 DEF Reads
<1> QED
  BY <1>5, <1>6

LEMMA FieldSkippedReads ==
  ASSUME NEW R, NEW F, Ready(R, F), Reads(R, F), FieldSkipped, UNCHANGED packVars
  PROVE  Reads(R, F)'
<1>1. /\ up = "field" /\ up' = "field" /\ lim = off /\ todo # <<>> /\ Head(todo) \in Repeated
      /\ todo' = Tail(todo) /\ UNCHANGED <<counts, lim, end, off, received>>
  BY DEF FieldSkipped, AtField, NoPiece, progress, message
<1>2. InData(F) /\ Len(counts) <= 4 /\ 12 < received
  BY <1>1 DEF Reads
<1>3. UNCHANGED <<at, written>>
  BY DEF packVars
<1>4. ~(off < lim)
  BY <1>1, ReadyIs
<1>5. Broken \/ off = end
  BY <1>1, <1>2, <1>4, AtLimit DEF InRecord
<1>6. todo' = <<>>
  BY <1>1, <1>2, InTurnOn, WrittenKinds DEF InData
<1>7. PICK b \in Nat : Within(F, b)
  BY <1>2 DEF InData
<1>8. Within(F, b)'
  BY <1>1, <1>3, <1>5, <1>6, <1>7 DEF Within, Ends, Broken
<1>9. InTurn(todo')
  BY <1>6 DEF InTurn
<1>10. InData(F)'
  BY <1>1, <1>2, <1>8, <1>9 DEF InData
<1> QED
  BY <1>1, <1>2, <1>10 DEF Reads

LEMMA FieldNameReads ==
  ASSUME NEW R, NEW F, Ready(R, F), Reads(R, F), FieldName, UNCHANGED packVars
  PROVE  Reads(R, F)'
<1>1. /\ up = "field" /\ todo # <<>> /\ Head(todo) \in Named /\ ~NoPiece
      /\ up' = "name" /\ purpose' = "field" /\ pos' = off
      /\ UNCHANGED <<off, ptr, heard, octets, counts, end, lim, todo, received>>
  BY DEF FieldName, AtField, StartName, record, progress, message
<1>2. InData(F) /\ Len(counts) <= 4 /\ 12 < received
  BY <1>1 DEF Reads
<1>3. UNCHANGED <<at, written>>
  BY DEF packVars
<1>4. InData(F)'
  BY <1>1, <1>2, <1>3 DEF InData, Within, Broken, Ends
<1>5. octets' <= 2 * Len(heard')
  <2>1. octets = 0 /\ heard = <<>>
    BY <1>1 DEF Ready, Quiet
  <2> QED
    BY <1>1, <2>1
<1>6. Broken \/ (off < lim /\ \E w : w \in Names(off))
  <2>1. CASE off < lim
    <3>1. PICK w \in written : w.at = off /\ w.kind = Written(Head(todo))
      BY <1>1, <1>2, <2>1, FieldStands
    <3> QED
      BY <1>1, <2>1, <3>1, WrittenKinds DEF Names
  <2>2. CASE ~(off < lim) /\ ~Broken
    <3>1. off = lim /\ off = end
      BY <1>1, <1>2, <2>2, AtLimit DEF InRecord
    <3>2. PICK b \in Nat : Within(F, b)
      BY <1>2 DEF InData
    <3>3. Head(todo) \notin Absent
      <4>1. Head(todo) \in Absent => Head(todo) = "names"
        BY <1>1, WrittenKinds
      <4>2. "names" \in Repeated \ {"opt"}
        BY DEF Repeated
      <4> QED
        BY <1>1, <3>1, <4>1, <4>2 DEF NoPiece
    <3>4. PICK w \in written : w.at = end /\ w.kind = Written(Head(todo)) /\ w.end = end
      BY <1>1, <1>2, <2>2, <3>1, <3>2, <3>3, NoneLeft
    <3>5. w.kind = "name"
      BY <1>1, <3>4, WrittenKinds
    <3>6. w.at < w.end
      BY <3>5, ReadyIs, KindsApart DEF Filled
    <3> QED
      BY <3>4, <3>6, ReadyIs
  <2> QED
    BY <2>1, <2>2
<1>7. CASE Broken
  <2>1. Broken'
    BY <1>1, <1>7 DEF Broken
  <2>2. InName(R, F)'
    BY <1>1, <1>4, <1>5, <2>1 DEF InName
  <2> QED
    BY <1>1, <1>2, <2>2 DEF Reads
<1>8. CASE off < lim /\ \E w : w \in Names(off)
  <2>1. Spelling(R)'
    BY <1>1, <1>8, NameBegins
  <2>2. InName(R, F)'
    BY <1>1, <1>4, <1>5, <1>8, <2>1 DEF InName
  <2> QED
    BY <1>1, <1>2, <2>2 DEF Reads
<1> QED
  BY <1>6, <1>7, <1>8

LEMMA NameEndsReads ==
  ASSUME NEW R, NEW F, Ready(R, F), Reads(R, F), NameEnds, UNCHANGED packVars
  PROVE  Reads(R, F)'
<1>1. /\ up = "name" /\ pos < lim /\ Root(pos) /\ off' = NameEnd /\ up' = purpose
      /\ todo' = (IF purpose = "field" THEN Rest(NameEnd) ELSE todo)
      /\ UNCHANGED <<counts, end, lim, received>>
  BY DEF NameEnds, progress, message
<1>2. Spelling(R) /\ off < lim /\ pos < received /\ lim <= received
  BY <1>1, NotAtEnd
<1>3. PICK w \in Names(off), s \in Seq(Label), e \in Nat, d \in Nat : Spells4(R, w, s, e, d)
  BY <1>2 DEF Spelling
<1>4. <<pos, s, e, d>> \in R /\ (IF ptr = 0 THEN e ELSE off1) = w.end
  BY <1>3 DEF Spells4
<1>5. ~Blank(pos) /\ (Found(pos, {"root"}) # {} => e = pos + 1)
  BY <1>2, <1>4, SpellingIs
<1>6. off' = w.end
  BY <1>1, <1>4, <1>5 DEF Root, NameEnd
<1>7. w \in written /\ w.kind = "name" /\ w.at = off
  BY <1>3 DEF Names
<1>8. InName(R, F) /\ Len(counts) <= 4 /\ 12 < received
  BY <1>1 DEF Reads
<1>9. UNCHANGED <<src, at, written>>
  BY DEF packVars
<1>10. IInv' /\ purpose \in {"question", "fixed", "field"}
  <2>1. IInv
    BY DEF Ready
  <2>2. IInv'
    BY <2>1, NameEndsKeeps
  <2> QED
    BY <1>1, <2>1, <2>2 DEF IInv, Place, UnpackTypeOK
<1>11. CASE purpose = "question"
  <2>1. Expected /\ w \in Names(12)
    BY <1>3, <1>8, <1>11 DEF InName
  <2>2. Expected' /\ w \in Names(12)'
    BY <1>1, <1>9, <2>1 DEF Expected, Names
  <2>3. up' = "question" /\ (\E n \in Names(12)' : off' = n.end)
    BY <1>1, <1>6, <1>11, <2>2
  <2> QED
    BY <1>1, <1>8, <2>2, <2>3 DEF Reads
<1>12. CASE purpose = "fixed"
  <2>1. Len(counts) # 4 /\ Owned(w.at)
    BY <1>7, <1>8, <1>12 DEF InName
  <2>2. \E n \in written' : n.kind = "name" /\ Owned(n.at)' /\ off' = n.end
    <3>1. w \in written' /\ Owned(w.at)'
      BY <1>7, <1>9, <2>1 DEF Owned
    <3> QED
      BY <1>6, <1>7, <3>1 DEF Owned
  <2> QED
    BY <1>1, <1>8, <1>12, <2>1, <2>2 DEF Reads, Owned
<1>13. CASE purpose = "field"
  <2>1. InData(F) /\ Head(todo) \in Named /\ todo # <<>>
    BY <1>1, <1>8, <1>13 DEF InName, Ready, IInv, Place
  <2>2. PICK b \in Nat, x \in written :
           /\ Within(F, b) /\ x.at = off /\ x.kind = Written(Head(todo))
           /\ x.end <= end /\ <<x.end, After(todo), b>> \in F
    BY <1>2, <2>1, FieldStands
  <2>3. x.kind = "name"
    BY <2>1, <2>2, WrittenKinds
  <2>4. x = w
    BY <1>7, <2>2, <2>3, ReadyIs DEF Unique
  <2>5. off' = Least(w.end, received) /\ off < off'
    <3>1. off' <= lim'
      BY <1>1, <1>10, <1>13 DEF IInv, Limits, InRecord
    <3>2. w.at < w.end
      BY <1>7, ReadyIs, KindsApart DEF Filled
    <3>3. w.end \in Nat /\ received \in Nat /\ lim \in Nat /\ off \in Nat
      BY <1>7, ReadyIs
    <3>4. w.end <= received
      BY <1>1, <1>2, <1>6, <3>1, <3>3
    <3>5. Least(w.end, received) = w.end
      BY <3>3, <3>4 DEF Least
    <3> QED
      BY <1>6, <1>7, <3>2, <3>5
  <2>6. InData(F)'
    <3>1. todo' = Rest(off')
      BY <1>1, <1>13
    <3>2. w.end <= end /\ <<w.end, After(todo), b>> \in F
      BY <2>2, <2>4
    <3> QED
      BY <1>1, <1>2, <1>7, <2>1, <2>2, <2>5, <3>1, <3>2, FieldGoesOn
  <2> QED
    BY <1>1, <1>8, <1>13, <2>6 DEF Reads
<1> QED
  BY <1>10, <1>11, <1>12, <1>13

-----------------------------------------------------------------------------
(* Behind the name of the question: its type and its class, if they came.  *)
LEMMA QuestionIs ==
  ASSUME NEW R, NEW F, Ready(R, F), Expected, NEW n \in Names(12)
  PROVE  /\ Stands(n.end + 4)
         /\ \E q \in written : Fresh({"question"}) = {q} /\ q.at = n.end /\ q.end = n.end + 4
<1>1. \A x \in Names(12) : x = n
  BY ReadyIs DEF Names, Unique
<1>2. PICK x \in Names(12) : Reached(x.end + 4)
  BY DEF Ready, Chained, Expected
<1>3. Stands(n.end + 4)
  BY <1>1, <1>2, ReadyIs
<1>4. \E q \in written, v \in Names(12) :
        Fresh({"question"}) = {q} /\ q.at = v.end /\ q.end = v.end + 4
  BY DEF Ready, Placed, Questioned, Expected
<1> QED
  BY <1>1, <1>3, <1>4

LEMMA QuestionReads ==
  ASSUME NEW R, NEW F, Ready(R, F), Reads(R, F), Question, UNCHANGED packVars
  PROVE  Reads(R, F)'
<1>1. /\ up = "question" /\ up' = "next" /\ off' = Least(off + 4, received)
      /\ counts' = [counts EXCEPT ![1] = @ - 1] /\ off + 1 # received /\ received' = received
  BY DEF Question, message
<1>2. Expected /\ Len(counts) <= 4 /\ 12 < received
  BY <1>1 DEF Reads
<1>3. PICK n \in Names(12) : off = n.end
  BY <1>1 DEF Reads
<1>4. PICK q \in written : Fresh({"question"}) = {q} /\ q.at = off
  BY <1>2, <1>3, QuestionIs
<1>5. Stands(off + 4)
  BY <1>2, <1>3, QuestionIs
<1>6. off \in Nat /\ received \in Nat /\ off <= received
  BY <1>1, ReadyIs DEF Ready, IInv, Limits, InRecord
<1>7. Stands(off') \/ Clipped(off')
  <2>1. CASE off + 4 <= received
    <3>1. off' = off + 4
      BY <1>1, <1>6, <2>1 DEF Least
    <3> QED
      BY <1>5, <3>1
  <2>2. CASE ~(off + 4 <= received)
    <3>1. off' = received /\ received \in {off, off + 2, off + 3}
      BY <1>1, <1>6, <2>2 DEF Least
    <3>2. off' = received /\ off' \in {q.at, q.at + 2, q.at + 3}
      BY <1>4, <3>1
    <3> QED
      BY <1>4, <3>2 DEF Clipped
  <2> QED
    BY <2>1, <2>2
<1>8. PICK o : o = off'
  OBVIOUS
<1>9. Stands(off)' \/ Clipped(off)'
  <2>1. UNCHANGED <<at, written>>
    BY DEF packVars
  <2>2. Stands(o) \/ Clipped(o)
    BY <1>7, <1>8
  <2> QED
    BY <1>1, <1>8, <2>1, <2>2 DEF Stands, Owned, Clipped, Fresh
<1>10. Len(counts') <= 4 /\ counts'[1] = 0
  <2>1. counts \in Seq(Nat) /\ Len(counts) = 4 /\ counts[1] = 1
    BY <1>2 DEF Expected, Ready, IInv, UnpackTypeOK
  <2>2. 1 \in 1 .. Len(counts) /\ counts[1] - 1 = 0 /\ 0 \in Nat
    BY <2>1
  <2>3. counts' = [counts EXCEPT ![1] = 0]
    BY <1>1, <2>2
  <2>4. /\ Len([counts EXCEPT ![1] = 0]) = Len(counts)
        /\ \A j \in 1 .. Len(counts) : [counts EXCEPT ![1] = 0][j] = IF j = 1 THEN 0 ELSE counts[j]
    BY <2>1, <2>2, ExceptSeq
  <2>5. Len(counts') = Len(counts) /\ counts'[1] = 0
    BY <2>2, <2>3, <2>4
  <2> QED
    BY <2>1, <2>5
<1>11. AtItem'
  BY <1>9, <1>10 DEF AtItem
<1> QED
  BY <1>1, <1>2, <1>10, <1>11 DEF Reads

LEMMA FixedReads ==
  ASSUME LayoutsAgree, NEW R, NEW F, Ready(R, F), Reads(R, F), Fixed, UNCHANGED packVars
  PROVE  Reads(R, F)'
<1>1. PICK claim \in Claims :
        /\ end' = off + 10 + claim[2]
        /\ lim' = Least(off + 10 + claim[2], received)
        /\ todo' = IF claim[2] = 0 THEN <<>> ELSE Layout[claim[1]]
  BY DEF Fixed
<1>2. /\ up = "fixed" /\ up' = "field" /\ off' = off + 10 /\ off + 10 <= received
      /\ counts' = counts /\ received' = received
  BY DEF Fixed, progress, message
<1>3. PICK n \in written : n.kind = "name" /\ Owned(n.at) /\ off = n.end
  BY <1>2 DEF Reads
<1>4. Len(counts) # 4 /\ Len(counts) <= 4 /\ 12 < received
  BY <1>2 DEF Reads
<1>5. PICK r \in written : r.kind = "record" /\ r.at = n.at
  BY <1>3 DEF Owned
<1>6. Framed(written, F, r)
  BY <1>5 DEF Ready, Lays
<1>7. PICK x \in written, f \in written :
        /\ x.kind = "name" /\ x.at = r.at /\ f.kind = "fixed" /\ f.at = x.end /\ f.type \in RRType
        /\ x.end + 10 + f.num = r.end /\ <<x.end + 10, Layout[f.type], r.at>> \in F
  BY <1>6 DEF Framed
<1>8. x = n
  BY <1>3, <1>5, <1>7, ReadyIs DEF Unique
<1>9. /\ off \in Nat /\ f.num \in Nat /\ r.end \in Nat /\ r.at \in Nat /\ received \in Nat
      /\ n.at <= n.end /\ n.at \in Nat
  BY ReadyIs
<1>10. f \in Found(off, {"fixed"}) /\ f.at = off
  <2>1. f.at < received
    BY <1>2, <1>3, <1>7, <1>8, <1>9
  <2> QED
    BY <1>3, <1>7, <1>8, <2>1, ReadyIs DEF Found
<1>11. claim = <<f.type, f.num>>
  <2>1. PICK g \in Found(off, {"fixed"}) : claim = <<g.type, g.num>>
    BY <1>1, <1>10 DEF Claims
  <2>2. g.kind = f.kind /\ g \in Found(f.at, {"fixed"})
    BY <1>7, <1>10, <2>1 DEF Found
  <2>3. g = f
    BY <2>2, FoundIs
  <2> QED
    BY <2>1, <2>3
<1>12. end' = r.end /\ lim' = Least(end', received)
  <2>1. end' = off + 10 + f.num /\ lim' = Least(off + 10 + f.num, received)
    BY <1>1, <1>11
  <2> QED
    BY <1>3, <1>7, <1>8, <2>1
<1>13. InTurn(todo') /\ ((off' = end' /\ todo' = <<>>) \/ <<off', todo', r.at>> \in F)
  <2>1. CASE f.num = 0
    <3>1. todo' = <<>>
      BY <1>1, <1>11, <2>1
    <3>2. off' = end'
      BY <1>1, <1>2, <1>9, <1>11, <2>1
    <3> QED
      BY <3>1, <3>2 DEF InTurn
  <2>2. CASE f.num # 0
    <3>1. todo' = Layout[f.type]
      BY <1>1, <1>11, <2>2
    <3>2. InTurn(todo')
      BY <1>7, <3>1, LayoutInTurn
    <3> QED
      BY <1>2, <1>3, <1>7, <1>8, <3>1, <3>2
  <2> QED
    BY <2>1, <2>2
<1>14. PICK b \in Nat : b = r.at
  BY <1>9
<1>15. Within(F, b)'
  <2>1. b < off'
    BY <1>2, <1>3, <1>5, <1>9, <1>14
  <2>2. Ends(written, end, b)'
    BY <1>5, <1>12, <1>14 DEF Ends, packVars
  <2> QED
    BY <1>13, <1>14, <2>1, <2>2 DEF Within
<1>16. InData(F)'
  BY <1>2, <1>4, <1>12, <1>13, <1>15 DEF InData
<1> QED
  BY <1>2, <1>4, <1>16 DEF Reads

LEMMA RecordReads ==
  ASSUME NEW R, NEW F, Ready(R, F), Reads(R, F), Record, UNCHANGED packVars
  PROVE  Reads(R, F)'
<1>1. /\ up = "field" /\ up' = "next" /\ off = end /\ off' = off
      /\ counts' = [counts EXCEPT ![1] = @ - 1] /\ received' = received
  BY DEF Record, message
<1>2. Len(counts) <= 4 /\ Len(counts) # 4 /\ 12 < received /\ InData(F)
  BY <1>1 DEF Reads, InData
<1>3. Len(counts') = Len(counts)
  <2>1. counts \in Seq(Nat)
    BY DEF Ready, IInv, UnpackTypeOK
  <2> QED
    BY <1>1, <2>1
<1>4. Stands(off)'
  <2>1. PICK b \in Nat : Within(F, b)
    BY <1>2 DEF InData
  <2>2. Stands(end)
    BY <2>1, WithinIs
  <2> QED
    BY <1>1, <2>2 DEF Stands, Owned, packVars
<1>5. AtItem'
  BY <1>2, <1>3, <1>4 DEF AtItem
<1> QED
  BY <1>1, <1>2, <1>3, <1>5 DEF Reads

-----------------------------------------------------------------------------
(* A message is being read, and what it says is read.                      *)
Midway   == Known /\ up \notin {"idle", "header", "done"}
Readable == \E R, F : Spells(R) /\ Lays(F) /\ Reads(R, F)

RInv == IInv /\ WInv /\ PInv /\ SInv /\ Came /\ Quiet /\ (Midway => Readable)

LEMMA ReaderGoesOn ==
  ASSUME IInv, UnpackNext
  PROVE  up \notin {"idle", "done"} /\ up' # "idle" /\ UNCHANGED message
<1>1. up = "name" => purpose \in {"question", "fixed", "field"}
  BY DEF IInv, Place, UnpackTypeOK
<1> QED
  BY <1>1 DEF UnpackNext, UnpackName, UnpackField, HeaderRefused, Header, SectionEnds, NextItem,
     Finish, NameLabel, NamePointer, NameEnds, NameRefused, QuestionRefused, Question, FixedRefused,
     Fixed, Field, FieldSkipped, FieldRefused, FieldName, RecordRefused, Record, AtField,
     StartName, Stop

LEMMA QuietStays ==
  ASSUME IInv, Quiet, UnpackNext
  PROVE  Quiet'
<1>1. \/ up' \in {"name", "done"} \/ (heard' = <<>> /\ octets' = 0)
      \/ (heard' = heard /\ octets' = octets /\ up # "name")
  BY DEF UnpackNext, UnpackName, UnpackField, HeaderRefused, Header, SectionEnds, NextItem,
     Finish, NameLabel, NamePointer, NameEnds, NameRefused, QuestionRefused, Question, FixedRefused,
     Fixed, Field, FieldSkipped, FieldRefused, FieldName, RecordRefused, Record, AtField,
     StartName, Stop, name
<1>2. up # "done"
  BY ReaderGoesOn
<1> QED
  BY <1>1, <1>2 DEF Quiet

LEMMA CameStays ==
  ASSUME IInv, Came, UnpackNext, UNCHANGED packVars
  PROVE  Came'
<1>1. up' # "idle" /\ UNCHANGED <<received, content>>
  BY ReaderGoesOn DEF message
<1>2. UNCHANGED <<pk, at, written>>
  BY DEF packVars
<1> QED
  BY <1>1, <1>2 DEF Came, Known

(* A step of the reader in a message of the writer's.                      *)
LEMMA ReadsOn ==
  ASSUME LayoutsAgree, NEW R, NEW F, Ready(R, F), up = "header" \/ Reads(R, F), UnpackNext,
         UNCHANGED packVars
  PROVE  up' = "done" \/ Reads(R, F)'
<1>1. CASE HeaderRefused \/ Finish \/ NameRefused \/ QuestionRefused \/ FixedRefused
           \/ FieldRefused \/ RecordRefused
  BY <1>1 DEF HeaderRefused, Finish, NameRefused, QuestionRefused, FixedRefused,
              FieldRefused, RecordRefused, Stop
<1>2. CASE Header
  BY <1>2, HeaderReads
<1>3. ASSUME ~Header, ~HeaderRefused
      PROVE  Reads(R, F)
  BY <1>3 DEF UnpackNext, UnpackName, UnpackField, SectionEnds, NextItem, Finish, NameLabel,
     NamePointer, NameEnds, NameRefused, QuestionRefused, Question, FixedRefused, Fixed,
     Field, FieldSkipped, FieldRefused, FieldName, RecordRefused, Record, AtField
<1>4. CASE ~Header /\ (SectionEnds \/ NextItem \/ Question \/ Fixed \/ Record) /\ ~HeaderRefused
  BY <1>3, <1>4, SectionEndsReads, NextItemReads, QuestionReads, FixedReads, RecordReads
<1>5. CASE ~Header /\ (NameLabel \/ NamePointer \/ NameEnds) /\ ~HeaderRefused
  BY <1>3, <1>5, NameLabelReads, NamePointerReads, NameEndsReads
<1>6. CASE ~Header /\ (Field \/ FieldSkipped \/ FieldName) /\ ~HeaderRefused
  BY <1>3, <1>6, FieldReads, FieldSkippedReads, FieldNameReads
<1> QED
  BY <1>1, <1>2, <1>4, <1>5, <1>6 DEF UnpackNext, UnpackName, UnpackField

(* What the reader knows of a message of the writer's.                     *)
LEMMA ReadyForIt ==
  ASSUME RInv, Known, up \notin {"idle", "done"}
  PROVE  /\ pk = "packed"
         /\ \E R, F : Ready(R, F) /\ (up = "header" \/ Reads(R, F))
<1>1. /\ pk = "packed" /\ received <= at
      /\ content = {w \in written : w.at < received \/ w.end <= received}
  BY DEF RInv, Came
<1>2. PICK R, F : Spells(R) /\ Lays(F) /\ (up = "header" \/ Reads(R, F))
  <2>1. CASE up = "header"
    BY <1>1, <2>1 DEF RInv, SInv, Active
  <2>2. CASE up # "header"
    BY <2>2 DEF RInv, Midway, Readable
  <2> QED
    BY <2>1, <2>2
<1>3. Ready(R, F)
  BY <1>1, <1>2 DEF Ready, RInv, SInv, PInv, Active
<1> QED
  BY <1>1, <1>2, <1>3

LEMMA MidwayStays ==
  ASSUME LayoutsAgree, RInv, UnpackNext, UNCHANGED packVars, Midway'
  PROVE  Readable'
<1>1. up \notin {"idle", "done"} /\ UNCHANGED <<received, content>> /\ up' # "done"
  BY ReaderGoesOn DEF RInv, message, Midway
<1>2. UNCHANGED <<src, pk, at, rec, begin, fields, compression, written>>
  BY DEF packVars
<1>3. Known
  BY <1>1 DEF Midway, Known
<1>4. PICK R, F : Ready(R, F) /\ (up = "header" \/ Reads(R, F))
  BY <1>1, <1>3, ReadyForIt
<1>5. Reads(R, F)'
  BY <1>1, <1>4, ReadsOn
<1>6. Spells(R)' /\ Lays(F)'
  <2>1. Spells(R) /\ Lays(F)
    BY <1>4 DEF Ready
  <2>2. Spells(R)'
    BY <1>2, <2>1 DEF Spells
  <2>3. Lays(F)'
    BY <1>2, <2>1 DEF Lays, AtFront, Names
  <2> QED
    BY <2>2, <2>3
<1> QED
  BY <1>5, <1>6 DEF Readable

LEMMA ReadBackStarts == Init => RInv
<1> SUFFICES ASSUME Init
             PROVE  RInv
  OBVIOUS
<1>1. IInv /\ WInv
  BY Initially, WriterStarts DEF Init
<1>2. SInv /\ PInv
  BY DEF Init, PackInit, SInv, PInv, Active
<1>3. Came /\ Quiet /\ ~Midway
  BY DEF Init, UnpackInit, Came, Known, Quiet, Midway
<1> QED
  BY <1>1, <1>2, <1>3 DEF RInv

(* What is sent is what was written, up to where it is cut.                *)
LEMMA SendComes ==
  ASSUME RInv, Send
  PROVE  Came' /\ Quiet' /\ ~Midway'
<1>1. PICK n \in {Least(at, b) : b \in Buffers} :
         Deliver(n, {w \in written : w.at < n \/ w.end <= n}, src.tc)
  BY DEF Send
<1>2. /\ up = "idle" /\ up' = "header" /\ received' = n /\ heard' = heard /\ octets' = octets
      /\ content' = {w \in written : w.at < n \/ w.end <= n}
  BY <1>1 DEF Deliver, name
<1>3. pk' = "packed" /\ UNCHANGED <<at, written>>
  BY DEF Send, packVars
<1>4. n <= at
  <2>1. at \in Nat /\ Buffers \subseteq Nat
    BY WireAssumption DEF RInv, WInv, Source
  <2> QED
    BY <2>1 DEF Least
<1>5. heard = <<>> /\ octets = 0
  BY <1>2 DEF RInv, Quiet
<1>6. Came'
  BY <1>2, <1>3, <1>4 DEF Came
<1> QED
  BY <1>2, <1>5, <1>6 DEF Quiet, Midway

LEMMA ReadBackKeeps ==
  ASSUME LayoutsAgree, RInv, [Next]_<<packVars, unpackVars>>
  PROVE  RInv'
<1>1. IInv' /\ WInv'
  BY WireSteps, StepKeeps, WireStepKeeps DEF RInv
<1>2. SInv' /\ PInv'
  <2>1. PackNext \/ UNCHANGED packVars
    BY WireSteps DEF RInv
  <2>2. CASE PackNext
    BY <2>2, WriterShows, WriterPlaces DEF RInv
  <2>3. CASE UNCHANGED packVars
    BY <2>3, ShowsStays, PlacedStays DEF RInv
  <2> QED
    BY <2>1, <2>2, <2>3
<1>3. CASE up = "idle" /\ PackNext /\ UNCHANGED unpackVars
  <2>1. up = "idle" /\ UNCHANGED <<up, received, content, heard, octets>>
    BY <1>3 DEF unpackVars, message, name
  <2>2. ~Known /\ Quiet
    BY <2>1 DEF RInv, Came
  <2>3. Came' /\ Quiet' /\ ~Midway'
    BY <2>1, <2>2 DEF Came, Known, Quiet, Midway
  <2> QED
    BY <1>1, <1>2, <2>3 DEF RInv
<1>4. CASE Send
  BY <1>1, <1>2, <1>4, SendComes DEF RInv
<1>5. CASE Stranger
  <2>1. up = "idle" /\ up' = "header" /\ content' = {} /\ heard' = heard /\ octets' = octets
    BY <1>5 DEF Stranger, Deliver, name
  <2>2. Came' /\ Quiet' /\ ~Midway'
    BY <2>1 DEF RInv, Came, Known, Quiet, Midway
  <2> QED
    BY <1>1, <1>2, <2>2 DEF RInv
<1>6. CASE UnpackNext /\ UNCHANGED packVars
  <2>1. Came' /\ Quiet'
    BY <1>6, CameStays, QuietStays DEF RInv
  <2>2. Midway' => Readable'
    BY <1>6, MidwayStays
  <2> QED
    BY <1>1, <1>2, <2>1, <2>2 DEF RInv
<1>7. CASE UNCHANGED <<packVars, unpackVars>>
  <2>1. /\ UNCHANGED <<received, content, up, off, lim, end, todo, purpose, pos, off1, ptr, octets,
                       heard, counts>>
        /\ UNCHANGED <<src, pk, at, rec, begin, fields, compression, written>>
    BY <1>7 DEF packVars, unpackVars, message, record, name, progress
  <2>2. Came' /\ Quiet' /\ (Midway' => Midway)
    BY <2>1 DEF RInv, Came, Known, Quiet, Midway
  <2>3. Readable => Readable'
    <3> SUFFICES ASSUME NEW R, NEW F, Spells(R), Lays(F), Reads(R, F)
                 PROVE  Readable'
      BY DEF Readable
    <3>1. Spells(R)'
      BY <2>1 DEF Spells
    <3>2. Lays(F)'
      BY <2>1 DEF Lays, AtFront, Names
    <3>3. InData(F) => InData(F)'
      BY <2>1 DEF InData, Within, Broken
    <3>4. Spelling(R) => Spelling(R)'
      BY <2>1 DEF Spelling, Spells4, Names
    <3>5. InName(R, F) => InName(R, F)'
      BY <2>1, <3>3, <3>4 DEF InName, Broken, Expected, Owned
    <3>6. AtItem => AtItem'
      BY <2>1 DEF AtItem, Expected, Stands, Owned, Clipped, Fresh
    <3>7. Reads(R, F)'
      BY <2>1, <3>3, <3>5, <3>6 DEF Reads, Expected, Owned, Names
    <3> QED
      BY <3>1, <3>2, <3>7 DEF Readable
  <2> QED
    BY <1>1, <1>2, <2>2, <2>3 DEF RInv
<1> QED
  BY <1>3, <1>4, <1>5, <1>6, <1>7 DEF Next

LEMMA ReadableSuffices ==
  ASSUME RInv
  PROVE  ReadsWhatWasWritten
<1> SUFFICES ASSUME Known, received = at
             PROVE  /\ up = "field" /\ todo # <<>> /\ off < lim =>
                         \E w \in content : w.at = off /\ w.kind = Written(Head(todo))
                    /\ up = "name" /\ Found(pos, {"root"}) # {} =>
                         \E w \in Found(off, {"name"}) : heard = w.labels
  BY DEF ReadsWhatWasWritten
<1>1. ASSUME up \in {"field", "name"}
      PROVE  \E R, F : Ready(R, F) /\ Reads(R, F)
  BY <1>1, ReadyForIt
<1>2. ASSUME up = "field", todo # <<>>, off < lim
      PROVE  \E w \in content : w.at = off /\ w.kind = Written(Head(todo))
  <2>1. PICK R, F : Ready(R, F) /\ Reads(R, F)
    BY <1>1, <1>2
  <2>2. InData(F)
    BY <1>2, <2>1 DEF Reads
  <2> QED
    BY <1>2, <2>1, <2>2, FieldStands
<1>3. ASSUME up = "name", Found(pos, {"root"}) # {}
      PROVE  \E w \in Found(off, {"name"}) : heard = w.labels
  <2>1. PICK R, F : Ready(R, F) /\ Reads(R, F)
    BY <1>1, <1>3
  <2>2. InName(R, F)
    BY <1>3, <2>1 DEF Reads
  <2>3. PICK x \in content : x.at = pos /\ x.kind = "root"
    BY <1>3 DEF Found
  <2>4. pos < received
    <3>1. x \in written
      BY <2>1, <2>3, ReadyIs
    <3>2. x.kind \notin Hollow
      BY <2>3, KindsApart DEF NameItems
    <3>3. x.at < x.end /\ x.end <= at /\ x.at \in Nat /\ x.end \in Nat /\ at \in Nat
      BY <2>1, <3>1, <3>2, ReadyIs DEF Filled
    <3> QED
      BY <2>3, <3>3
  <2>5. ~(purpose = "field" /\ Broken)
    <3> SUFFICES ASSUME purpose = "field", Broken
                 PROVE  FALSE
      OBVIOUS
    <3>1. PICK b \in Nat : Within(F, b)
      BY <2>2 DEF InName, InData
    <3>2. PICK r \in written : r.end = end
      BY <3>1 DEF Within, Ends
    <3>3. end <= at /\ end \in Nat /\ at \in Nat
      BY <2>1, <3>2, ReadyIs
    <3> QED
      BY <3>3 DEF Broken
  <2>6. off < lim /\ Spelling(R)
    BY <2>2, <2>5 DEF InName
  <2>7. PICK w \in Names(off), s \in Seq(Label), e \in Nat, d \in Nat : Spells4(R, w, s, e, d)
    BY <2>6 DEF Spelling
  <2>8. <<pos, s, e, d>> \in R /\ heard \o s = w.labels
    BY <2>7 DEF Spells4
  <2>9. s = <<>>
    BY <1>3, <2>1, <2>4, <2>8, SpellingIs
  <2>10. heard = w.labels
    <3>1. heard \in Seq(Label)
      BY DEF RInv, IInv, UnpackTypeOK
    <3> QED
      BY <2>8, <2>9, <3>1, ConcatEmptySeq
  <2>11. w \in content
    <3>1. off \in Nat /\ lim \in Nat /\ received \in Nat /\ lim <= received
      BY <1>3, <2>1, ReadyIs DEF Ready, IInv, Limits
    <3>2. off < received
      BY <2>6, <3>1
    <3> QED
      BY <2>1, <2>7, <3>2, ReadyIs DEF Names
  <2> QED
    BY <2>7, <2>10, <2>11 DEF Names, Found
<1> QED
  BY <1>2, <1>3

(* The reader takes every field of a message for what the writer wrote     *)
(* there, and hears of every name, along its pointers, the labels that     *)
(* were written: for any messages, any layout of the types that the two    *)
(* agree on, and any limits.                                               *)
THEOREM ReadsBack ==
  ASSUME LayoutsAgree
  PROVE  Spec => []ReadsWhatWasWritten
<1>1. Init => RInv
  BY ReadBackStarts
<1>2. RInv /\ [Next]_<<packVars, unpackVars>> => RInv'
  BY ReadBackKeeps
<1>3. RInv => ReadsWhatWasWritten
  BY ReadableSuffices
<1> QED
  BY <1>1, <1>2, <1>3, PTL DEF Spec

-----------------------------------------------------------------------------
(* What the reader has read, counted.                                      *)

(* The records that the counts still ask for.                              *)
Owing(c) == Sum(IF Len(c) = 4 THEN Tail(c) ELSE c)

(* The records begun before o.                                             *)
Earlier(o)  == {r \in Fresh({"record"}) : r.at < o}
Passed(o)   == Cardinality(Earlier(o))

LEMMA LongerTail ==
  ASSUME NEW S, NEW s \in Seq(S), NEW n \in Nat, Len(s) = n + 1
  PROVE  /\ s # <<>> /\ Tail(s) \in Seq(S) /\ Len(Tail(s)) = n
         /\ \A j \in 1 .. n : Tail(s)[j] = s[j + 1]
<1>1. s # <<>>
  <2>1. Len(s) # 0
    OBVIOUS
  <2> QED
    BY <2>1, EmptySeq
<1>2. /\ Tail(s) \in Seq(S) /\ Len(Tail(s)) = Len(s) - 1
      /\ \A j \in 1 .. Len(s) - 1 : Tail(s)[j] = s[j + 1]
  BY <1>1, TailIs
<1>3. Len(s) - 1 = n
  OBVIOUS
<1> QED
  BY <1>1, <1>2, <1>3

LEMMA SumThree ==
  ASSUME NEW s \in Seq(Nat), Len(s) = 3
  PROVE  Sum(s) = s[1] + s[2] + s[3]
<1> DEFINE t == Tail(s)
           u == Tail(t)
<1>1. s # <<>> /\ t \in Seq(Nat) /\ Len(t) = 2 /\ \A j \in 1 .. 2 : t[j] = s[j + 1]
  <2>1. Len(s) = 2 + 1
    OBVIOUS
  <2> QED
    BY <2>1, LongerTail
<1> HIDE DEF t
<1>2. t # <<>> /\ u \in Seq(Nat) /\ Len(u) = 1 /\ \A j \in 1 .. 1 : u[j] = t[j + 1]
  <2>1. t \in Seq(Nat) /\ 1 \in Nat /\ Len(t) = 1 + 1
    BY <1>1
  <2>2. /\ t # <<>> /\ Tail(t) \in Seq(Nat) /\ Len(Tail(t)) = 1
        /\ \A j \in 1 .. 1 : Tail(t)[j] = t[j + 1]
    BY <2>1, LongerTail
  <2> QED
    BY <2>2
<1> HIDE DEF u
<1>3. Sum(s) = s[1] + Sum(t) /\ Sum(t) = t[1] + Sum(u)
  BY <1>1, <1>2, SumTail DEF t, u
<1>4. /\ s[1] \in Nat /\ s[2] \in Nat /\ s[3] \in Nat
      /\ t[1] = s[2] /\ t[2] = s[3] /\ u[1] = t[2]
  BY <1>1, <1>2
<1>5. Sum(u) = u[1]
  BY <1>2, <1>4, SumOne
<1> QED
  BY <1>1, <1>2, <1>3, <1>4, <1>5

LEMMA ThreeSections ==
  ASSUME NEW n \in Nat, NEW S, NEW T, NEW U, S \cup T \cup U = 1 .. n,
         S \cap T = {}, S \cap U = {}, T \cap U = {}
  PROVE  /\ Cardinality(S) + Cardinality(T) + Cardinality(U) = n
         /\ Cardinality(S) \in Nat /\ Cardinality(T) \in Nat /\ Cardinality(U) \in Nat
<1>1. IsFiniteSet(1 .. n) /\ Cardinality(1 .. n) = n
  BY FS_Interval
<1>2. S \in SUBSET (1 .. n) /\ T \in SUBSET (1 .. n) /\ U \in SUBSET (1 .. n)
  OBVIOUS
<1>3. IsFiniteSet(S) /\ IsFiniteSet(T) /\ IsFiniteSet(U)
  BY <1>1, <1>2, FS_Subset
<1>4. Cardinality(S) \in Nat /\ Cardinality(T) \in Nat /\ Cardinality(U) \in Nat
  BY <1>3, FS_CardinalityType
<1>5. IsFiniteSet(S \cup T) /\ Cardinality(S \cup T) = Cardinality(S) + Cardinality(T) - Cardinality(S \cap T)
  BY <1>3, FS_Union
<1>6. Cardinality((S \cup T) \cup U) = Cardinality(S \cup T) + Cardinality(U) - Cardinality((S \cup T) \cap U)
  BY <1>3, <1>5, FS_Union
<1>7. (S \cup T) \cap U = {} /\ (S \cup T) \cup U = 1 .. n
  OBVIOUS
<1>8. Cardinality({}) = 0
  BY FS_EmptySet
<1>9. Cardinality(S \cap T) = 0 /\ Cardinality((S \cup T) \cap U) = 0
      /\ Cardinality((S \cup T) \cup U) = n
  BY <1>1, <1>7, <1>8
<1>10. PICK a, b, c, d : /\ a = Cardinality(S) /\ b = Cardinality(T) /\ c = Cardinality(U)
                        /\ d = Cardinality(S \cup T)
  OBVIOUS
<1>11. d = a + b - 0 /\ n = d + c - 0 /\ a \in Nat /\ b \in Nat /\ c \in Nat
  BY <1>4, <1>5, <1>6, <1>9, <1>10
<1>12. a + b + c = n
  BY <1>11
<1> QED
  BY <1>4, <1>10, <1>12

(* At first they ask for all of them.                                      *)
LEMMA CountsOwe ==
  ASSUME NEW m \in Messages
  PROVE  Owing(SectionCounts(m)) = Len(m.records)
<1> DEFINE n == Len(m.records)
           In(s) == {i \in 1 .. n : m.records[i].section = s + 1}
           t == [s \in 1 .. 3 |-> Cardinality(In(s))]
           q == <<Len(m.question)>>
           c == SectionCounts(m)
<1>1. n \in Nat
  BY LensFacts
<1>2. \A i \in 1 .. n : m.records[i].section \in 2 .. 4
  <2>1. \A i \in 1 .. n : m.records[i] \in ToSet(m.records)
    BY MessageFacts
  <2> QED
    BY <2>1, PackAssumption
<1>3. In(1) \cup In(2) \cup In(3) = 1 .. n /\ In(1) \cap In(2) = {} /\ In(1) \cap In(3) = {}
      /\ In(2) \cap In(3) = {}
  <2>1. \A i \in 1 .. n : m.records[i].section \in {2, 3, 4}
    BY <1>2
  <2> QED
    BY <2>1
<1>4. c = q \o t
  BY Zenon DEF SectionCounts
<1> HIDE DEF In, n
<1>5. /\ Cardinality(In(1)) + Cardinality(In(2)) + Cardinality(In(3)) = n
      /\ Cardinality(In(1)) \in Nat /\ Cardinality(In(2)) \in Nat /\ Cardinality(In(3)) \in Nat
  <2>1. PICK A, B, C : A = In(1) /\ B = In(2) /\ C = In(3)
    OBVIOUS
  <2>2. A \cup B \cup C = 1 .. n /\ A \cap B = {} /\ A \cap C = {} /\ B \cap C = {}
    BY <1>3, <2>1
  <2>3. /\ Cardinality(A) + Cardinality(B) + Cardinality(C) = n
        /\ Cardinality(A) \in Nat /\ Cardinality(B) \in Nat /\ Cardinality(C) \in Nat
    BY <1>1, <2>2, ThreeSections
  <2> QED
    BY <2>1, <2>3
<1>6. t[1] = Cardinality(In(1)) /\ t[2] = Cardinality(In(2)) /\ t[3] = Cardinality(In(3))
  OBVIOUS
<1>7. t \in Seq(Nat) /\ Len(t) = 3
  <2>1. \A s \in 1 .. 3 : Cardinality(In(s)) \in Nat
    <3>1. \A s \in 1 .. 3 : s = 1 \/ s = 2 \/ s = 3
      OBVIOUS
    <3> QED
      BY <1>5, <3>1
  <2> QED
    BY <2>1
<1> HIDE DEF t
<1>8. Sum(t) = n
  BY <1>5, <1>6, <1>7, SumThree
<1>9. c \in Seq(Nat) /\ Len(c) = 4
  BY CountsAre
<1> HIDE DEF c
<1>10. q \in Seq(Nat) /\ Len(q) = 1
  <2>1. m.question \in Seq(Seq(Label))
    BY MessageFacts
  <2> DEFINE l == Len(m.question)
  <2>2. l \in Nat
    BY <2>1
  <2> HIDE DEF l
  <2>3. <<l>> \in Seq(Nat) /\ Len(<<l>>) = 1
    BY <2>2
  <2> QED
    BY <2>3 DEF l
<1> HIDE DEF q
<1>11. Tail(c) = t
  <2>1. /\ Len(q \o t) = 4
        /\ \A i \in 1 .. 4 : (q \o t)[i] = IF i <= 1 THEN q[i] ELSE t[i - 1]
    <3>1. Len(q) + Len(t) = 4 /\ Len(q) = 1
      BY <1>7, <1>10
    <3>2. /\ Len(q \o t) = Len(q) + Len(t)
          /\ \A i \in 1 .. Len(q) + Len(t) :
               (q \o t)[i] = IF i <= Len(q) THEN q[i] ELSE t[i - Len(q)]
      BY <1>7, <1>10, ConcatProperties, Zenon
    <3> QED
      BY <3>1, <3>2
  <2>2. Tail(c) \in Seq(Nat) /\ Len(Tail(c)) = 3 /\ \A i \in 1 .. 3 : Tail(c)[i] = c[i + 1]
    <3>1. Len(c) = 3 + 1
      BY <1>9
    <3> QED
      BY <1>9, <3>1, LongerTail
  <2>3. \A i \in 1 .. 3 : c[i + 1] = t[i]
    <3> TAKE i \in 1 .. 3
    <3>1. i + 1 \in 1 .. 4 /\ ~(i + 1 <= 1) /\ i + 1 - 1 = i
      OBVIOUS
    <3> QED
      BY <1>4, <2>1, <3>1
  <2> QED
    BY <1>7, <2>2, <2>3, SeqEqual
<1> QED
  BY <1>8, <1>9, <1>11 DEF Owing, c, n

-----------------------------------------------------------------------------
(* Where the records lie that have been passed.                            *)
LEMMA PassedIs ==
  ASSUME NEW R, NEW F, Ready(R, F), NEW o
  PROVE  /\ Earlier(o) \subseteq Fresh({"record"}) /\ IsFiniteSet(Earlier(o)) /\ Passed(o) \in Nat
         /\ Passed(o) = Len(src.records) => Earlier(o) = Fresh({"record"})
<1>1. /\ IsFiniteSet(Fresh({"record"})) /\ Cardinality(Fresh({"record"})) = Len(src.records)
  BY DEF Ready, Placed, Numbered
<1>2. Earlier(o) \in SUBSET Fresh({"record"})
  BY DEF Earlier
<1>3. IsFiniteSet(Earlier(o)) /\ (Cardinality(Fresh({"record"})) = Cardinality(Earlier(o))
                                  => Fresh({"record"}) = Earlier(o))
  BY <1>1, <1>2, FS_Subset
<1> QED
  BY <1>1, <1>2, <1>3, FS_CardinalityType DEF Passed

LEMMA PassedIn ==
  ASSUME NEW R, NEW F, Ready(R, F), NEW r \in written, r.kind = "record", NEW o \in Nat,
         r.at < o, o <= r.end
  PROVE  Passed(o) = Passed(r.at) + 1
<1>1. r \in Fresh({"record"})
  BY DEF Fresh
<1>2. \A s \in Fresh({"record"}) : /\ s.at \in Nat /\ s.end \in Nat /\ s.at < s.end
                                   /\ s # r => Abreast(s, r)
  <2>1. \A s \in Fresh({"record"}) : s \in written /\ s.kind = "record"
    BY DEF Fresh
  <2>2. \A s \in written : s.kind = "record" => s.at < s.end
    BY ReadyIs, KindsApart DEF Filled
  <2>3. \A s \in Fresh({"record"}) : s # r => Abreast(s, r)
    BY <1>1 DEF Ready, Placed, Separate
  <2> QED
    BY <2>1, <2>2, <2>3, ReadyIs
<1>3. r.at \in Nat /\ r.end \in Nat
  BY ReadyIs
<1>4. Earlier(o) = Earlier(r.at) \cup {r}
  <2>1. ASSUME NEW s \in Fresh({"record"}), s.at < o, s # r
        PROVE  s.at < r.at
    BY <1>2, <1>3, <2>1 DEF Abreast
  <2>2. ASSUME NEW s \in Fresh({"record"}), s.at < r.at
        PROVE  s.at < o
    BY <1>2, <1>3, <2>2
  <2> QED
    BY <1>1, <2>1, <2>2 DEF Earlier
<1>5. r \notin Earlier(r.at)
  BY <1>3 DEF Earlier
<1>6. IsFiniteSet(Earlier(r.at))
  BY PassedIs
<1>7. Cardinality(Earlier(r.at) \cup {r}) = Cardinality(Earlier(r.at)) + 1
  BY <1>5, <1>6, FS_AddElement
<1> QED
  BY <1>4, <1>7 DEF Passed

LEMMA PassedWithin ==
  ASSUME NEW R, NEW F, Ready(R, F), NEW b \in Nat, NEW e \in Nat, Ends(written, e, b),
         NEW o \in Nat, NEW p \in Nat, b < o, o <= e, b < p, p <= e
  PROVE  Passed(o) = Passed(p)
<1>1. PICK r \in written : r.kind = "record" /\ r.at = b /\ r.end = e
  BY DEF Ends
<1>2. Passed(o) = Passed(r.at) + 1 /\ Passed(p) = Passed(r.at) + 1
  BY <1>1, PassedIn
<1> QED
  BY <1>2

LEMMA NonePassed ==
  ASSUME NEW R, NEW F, Ready(R, F), NEW o, \A r \in Fresh({"record"}) : ~(r.at < o)
  PROVE  Passed(o) = 0
<1>1. Earlier(o) = {}
  BY DEF Earlier
<1> QED
  BY <1>1, FS_EmptySet DEF Passed

-----------------------------------------------------------------------------
(* While the message lasts, the records still asked for and those taken    *)
(* are those that were written; those taken are those passed, and so is    *)
(* the question.  And no name that has been passed was too deep, nor was   *)
(* an option cut or one that is not read.                                  *)
Owed    == off < received \/ up # "next" => Owing(counts) + taken = Len(src.records)
Numbers == Passed(off) = IF up = "fixed" \/ InRecord THEN taken + 1 ELSE taken
Queried == IF Len(counts) = 4 /\ counts[1] # 0 THEN asked = 0
           ELSE /\ asked = Cardinality(Fresh({"question"}))
                /\ \A q \in Fresh({"question"}) : q.at <= received
Passable(w) == /\ w.kind = "name" => w.num <= MaxPointers
               /\ w.kind = "opt" => w.num = Sound
Shallow == \A w \in Fresh(Judged) : w.end <= off => Passable(w)

Tells == Owed /\ Numbers /\ Queried /\ Shallow

LEMMA PassedStays ==
  ASSUME UNCHANGED packVars, NEW o, off' = o
  PROVE  Passed(off)' = Passed(o)
  BY DEF Passed, Earlier, Fresh, packVars

LEMMA QueriedStays ==
  ASSUME Queried, UNCHANGED packVars, UNCHANGED <<counts, asked, received>>
  PROVE  Queried'
  BY DEF Queried, Fresh, packVars

LEMMA ShallowStays ==
  ASSUME Shallow, UNCHANGED packVars, UNCHANGED off
  PROVE  Shallow'
  BY DEF Shallow, Passable, Fresh, packVars

LEMMA ShallowOn ==
  ASSUME NEW R, NEW F, Ready(R, F), Shallow, NEW v \in written, v.at = off, Whole(v.kind),
         Passable(v), off' \in Nat, off' <= v.end, UNCHANGED packVars
  PROVE  Shallow'
<1> SUFFICES ASSUME NEW n \in Fresh(Judged), n.end <= off', n # v
             PROVE  Passable(n)
  BY DEF Shallow, Passable, Fresh, packVars
<1>1. n \in written /\ n.kind \in Judged
  BY DEF Fresh
<1>2. Abreast(n, v)
  BY <1>1 DEF Ready, Placed, InOrder
<1>3. n.at \in Nat /\ n.end \in Nat /\ v.at \in Nat /\ v.end \in Nat
  BY <1>1, ReadyIs
<1>4. n.at < n.end
  BY <1>1, ReadyIs, KindsApart DEF Filled, Judged, Hollow
<1>5. n.end <= off
  BY <1>2, <1>3, <1>4 DEF Abreast
<1> QED
  BY <1>5 DEF Shallow

(* A step on which nothing is counted.                                     *)
LEMMA TellsOn ==
  ASSUME NEW R, NEW F, Ready(R, F), Tells, UNCHANGED packVars,
         UNCHANGED <<received, counts, asked, taken>>, up # "next", up' # "next",
         Passed(off') = IF up' = "fixed" \/ InRecord' THEN taken + 1 ELSE taken, Shallow'
  PROVE  Tells'
<1>1. Owed'
  BY DEF Tells, Owed, Owing, packVars
<1>2. Numbers'
  <2>1. PICK o : o = off'
    OBVIOUS
  <2>2. Passed(off)' = Passed(o)
    BY <2>1, PassedStays
  <2> QED
    BY <2>1, <2>2 DEF Numbers
<1>3. Queried'
  BY QueriedStays DEF Tells
<1> QED
  BY <1>1, <1>2, <1>3 DEF Tells

LEMMA HeaderTells ==
  ASSUME NEW R, NEW F, Ready(R, F), Reads(R, F)', Header, UNCHANGED packVars
  PROVE  Tells'
<1>1. /\ up = "header" /\ up' = "next" /\ off' = 12
      /\ UNCHANGED <<asked, taken, received, purpose>>
  BY DEF Header, message, name
<1>2. asked = 0 /\ taken = 0
  BY <1>1 DEF Ready, IInv, Limits
<1>3. counts' = SectionCounts(src) /\ src \in Messages
  <2>1. PICK h \in written : h.at = 0 /\ h.kind = "header" /\ h.counts = SectionCounts(src)
    BY DEF Ready, Chained
  <2>2. \A x \in Found(0, {"header"}) : x = h
    BY <2>1, FoundIs DEF Found
  <2>3. h \in Found(0, {"header"})
    <3>1. 12 < received /\ received \in Nat
      BY ReadyIs DEF Header
    <3>2. h.at < received
      BY <2>1, <3>1
    <3> QED
      BY <2>1, <3>2, ReadyIs DEF Found
  <2>4. counts' = SectionCounts(src)
    BY <2>1, <2>2, <2>3 DEF Header, Counts
  <2> QED
    BY <2>4 DEF Ready, WInv, Source
<1>4. UNCHANGED <<src, written, pk>>
  BY DEF packVars
<1>5. Owed'
  <2>1. Owing(SectionCounts(src)) = Len(src.records)
    BY <1>3, CountsOwe
  <2>2. Len(src.records) \in Nat
    BY <1>3, LensFacts
  <2>3. Owing(counts)' = Len(src.records)
    BY <1>3, <2>1 DEF Owing
  <2>4. Owing(counts)' + taken' = Len(src'.records)
    BY <1>1, <1>2, <1>4, <2>2, <2>3
  <2> QED
    BY <2>4 DEF Owed
<1>6. \A w \in written : w.kind # "header" => 12 <= w.at
  BY DEF Ready, Placed, InOrder
<1>7. Numbers'
  <2>1. \A r \in Fresh({"record"}) : ~(r.at < 12)
    BY <1>6, ReadyIs DEF Fresh
  <2>2. Passed(12) = 0
    BY <2>1, NonePassed
  <2>3. Passed(off)' = 0
    BY <1>1, <2>2, PassedStays
  <2> QED
    BY <1>1, <1>2, <2>3 DEF Numbers, InRecord
<1>8. Queried'
  <2>1. CASE src.question = <<>>
    <3>1. Fresh({"question"}) = {}
      BY <2>1 DEF Ready, Placed, Questioned
    <3>2. Cardinality(Fresh({"question"})) = 0
      BY <3>1, FS_EmptySet
    <3>3. Fresh({"question"})' = Fresh({"question"})
      BY <1>4 DEF Fresh
    <3>4. counts'[1] = 0
      BY <1>3, <2>1, CountsAre
    <3> QED
      BY <1>1, <1>2, <3>1, <3>2, <3>3, <3>4 DEF Queried
  <2>2. CASE src.question # <<>>
    <3>1. Len(counts') = 4 /\ counts'[1] # 0
      BY <1>3, <2>2, CountsAre
    <3> QED
      BY <1>1, <1>2, <3>1 DEF Queried
  <2> QED
    BY <2>1, <2>2
<1>9. Shallow'
  <2> SUFFICES ASSUME NEW n \in Fresh(Judged), n.end <= 12
               PROVE  FALSE
    BY <1>1, <1>4 DEF Shallow, Fresh
  <2>1. n \in written /\ n.kind \in Judged
    BY DEF Fresh
  <2>2. n.at < n.end /\ n.at \in Nat /\ n.end \in Nat
    BY <2>1, ReadyIs, KindsApart DEF Filled, Judged, Hollow
  <2>3. 12 <= n.at
    BY <1>6, <2>1 DEF Judged
  <2> QED
    BY <2>2, <2>3
<1> QED
  BY <1>5, <1>7, <1>8, <1>9 DEF Tells

LEMMA SectionEndsTells ==
  ASSUME NEW R, NEW F, Ready(R, F), Reads(R, F), Tells, SectionEnds, UNCHANGED packVars
  PROVE  Tells'
<1>1. /\ up = "next" /\ up' = "next" /\ counts # <<>> /\ counts' = Tail(counts)
      /\ Head(counts) = 0 \/ (Len(counts) # 4 /\ off = received)
      /\ UNCHANGED <<off, received, asked, taken, purpose>>
  BY DEF SectionEnds, Questions, message, name
<1>2. counts \in Seq(Nat) /\ Len(counts) <= 4
  BY ReadyIs DEF Reads
<1>3. /\ Len(counts) \in Nat /\ Len(counts') = Len(counts) - 1 /\ counts' \in Seq(Nat)
      /\ Head(counts) = counts[1]
  BY <1>1, <1>2, TailIs
<1>4. Len(counts') # 4
  <2>1. Len(counts) <= 4
    BY <1>2
  <2> QED
    BY <1>3, <2>1
<1>5. Owed'
  <2> SUFFICES ASSUME off < received
               PROVE  Owing(counts') = Owing(counts)
    BY <1>1 DEF Tells, Owed, Owing, packVars
  <2>1. counts[1] = 0
    BY <1>1, <1>3, ReadyIs
  <2>2. Sum(counts) = counts[1] + Sum(counts') /\ Sum(counts') \in Nat
    BY <1>1, <1>2, <1>3, SumTail, SumTyped
  <2>3. Sum(counts) = Sum(counts')
    BY <2>1, <2>2
  <2>4. Owing(counts') = Sum(counts')
    BY <1>4 DEF Owing
  <2> QED
    BY <1>1, <2>3, <2>4 DEF Owing
<1>6. Numbers'
  <2>1. Passed(off)' = Passed(off)
    BY <1>1, PassedStays
  <2> QED
    BY <1>1, <2>1 DEF Tells, Numbers, InRecord
<1>7. Queried'
  <2>1. ~(Len(counts) = 4 /\ counts[1] # 0)
    BY <1>1, <1>3
  <2> QED
    BY <1>1, <1>4, <2>1 DEF Tells, Queried, Fresh, packVars
<1>8. Shallow'
  BY <1>1, ShallowStays DEF Tells
<1> QED
  BY <1>5, <1>6, <1>7, <1>8 DEF Tells

LEMMA NextItemTells ==
  ASSUME NEW R, NEW F, Ready(R, F), Reads(R, F), Tells, NextItem, UNCHANGED packVars
  PROVE  Tells'
<1>1. /\ up = "next" /\ up' = "name" /\ counts # <<>> /\ Head(counts) # 0 /\ purpose' # "field"
      /\ Len(counts) = 4 \/ off # received
      /\ UNCHANGED <<off, received, counts, asked, taken>>
  BY DEF NextItem, Questions, StartName, progress, message
<1>2. off < received
  <2>1. off <= received /\ off \in Nat /\ received \in Nat
    BY <1>1, ReadyIs DEF Ready, IInv, Limits, InRecord
  <2>2. CASE Len(counts) = 4
    <3>1. off = 12 /\ 12 < received
      BY <1>1, <2>2 DEF Reads, AtItem
    <3> QED
      BY <3>1
  <2> QED
    BY <1>1, <2>1, <2>2
<1>3. Owed'
  BY <1>1, <1>2 DEF Tells, Owed, Owing, packVars
<1>4. Numbers'
  <2>1. Passed(off)' = Passed(off)
    BY <1>1, PassedStays
  <2> QED
    BY <1>1, <2>1 DEF Tells, Numbers, InRecord
<1>5. Queried' /\ Shallow'
  BY <1>1, QueriedStays, ShallowStays DEF Tells
<1> QED
  BY <1>3, <1>4, <1>5 DEF Tells

LEMMA InNameTells ==
  ASSUME NEW R, NEW F, Ready(R, F), Tells, NameLabel \/ NamePointer \/ FieldSkipped \/ FieldName,
         UNCHANGED packVars
  PROVE  Tells'
<1>1. /\ up # "next" /\ up' # "next" /\ (InRecord' <=> InRecord) /\ up # "fixed" /\ up' # "fixed"
      /\ UNCHANGED <<received, counts, asked, taken, off>>
  BY DEF NameLabel, NamePointer, FieldSkipped, FieldName, AtField, StartName, InRecord, progress,
         message
<1>2. Shallow'
  BY <1>1, ShallowStays DEF Tells
<1>3. Passed(off') = IF up' = "fixed" \/ InRecord' THEN taken + 1 ELSE taken
  BY <1>1 DEF Tells, Numbers
<1> QED
  BY <1>1, <1>2, <1>3, TellsOn

LEMMA NameEndsTells ==
  ASSUME NEW R, NEW F, Ready(R, F), Reads(R, F), Tells, NameEnds, UNCHANGED packVars
  PROVE  Tells'
<1>1. /\ up = "name" /\ pos < lim /\ Root(pos) /\ off' = NameEnd /\ up' = purpose
      /\ UNCHANGED <<counts, asked, taken, end, lim, received>>
  BY DEF NameEnds, progress, message
<1>2. Spelling(R) /\ off < lim /\ pos < received /\ lim <= received
  BY <1>1, NotAtEnd
<1>3. PICK w \in Names(off), s \in Seq(Label), e \in Nat, d \in Nat : Spells4(R, w, s, e, d)
  BY <1>2 DEF Spelling
<1>4. <<pos, s, e, d>> \in R /\ (IF ptr = 0 THEN e ELSE off1) = w.end /\ ptr + d = w.num
  BY <1>3 DEF Spells4
<1>5. ~Blank(pos) /\ (Found(pos, {"root"}) # {} => e = pos + 1 /\ d = 0)
  BY <1>2, <1>4, SpellingIs
<1>6. off' = w.end /\ d = 0
  BY <1>1, <1>4, <1>5 DEF Root, NameEnd
<1>7. w \in written /\ w.kind = "name" /\ w.at = off
  BY <1>3 DEF Names
<1>8. InName(R, F) /\ purpose \in {"question", "fixed", "field"}
  <2>1. IInv
    BY DEF Ready
  <2> QED
    BY <1>1, <2>1 DEF Reads, IInv, Place, UnpackTypeOK
<1>9. w.num <= MaxPointers
  <2>1. ptr \in Nat /\ ptr <= MaxPointers
    BY <1>1 DEF Ready, IInv, Place, UnpackTypeOK
  <2> QED
    BY <1>4, <1>6, <2>1
<1>10. w.end \in Nat /\ w.at < w.end /\ off \in Nat /\ lim \in Nat /\ end \in Nat
  BY <1>7, ReadyIs, KindsApart DEF Filled
<1>11. Shallow'
  <2>1. Whole(w.kind)
    BY <1>7 DEF Whole, NameItems
  <2> QED
    BY <1>6, <1>7, <1>9, <1>10, <2>1, ShallowOn DEF Tells, Passable
<1>12. Passed(off') = IF up' = "fixed" \/ InRecord' THEN taken + 1 ELSE taken
  <2>1. Passed(off) = IF purpose = "field" THEN taken + 1 ELSE taken
    BY <1>1 DEF Tells, Numbers, InRecord
  <2>2. CASE purpose = "question"
    <3>1. Expected /\ w \in Names(12) /\ off = 12
      BY <1>3, <1>8, <2>2 DEF InName
    <3>2. PICK q \in written : Fresh({"question"}) = {q} /\ q.at = w.end /\ q.end = w.end + 4
      BY <3>1, QuestionIs
    <3>3. \A r \in Fresh({"record"}) : w.end + 4 <= r.at /\ r.at \in Nat
      BY <3>2, ReadyIs DEF Ready, Placed, Separate, Fresh
    <3>4. Passed(w.end) = 0
      <4>1. \A r \in Fresh({"record"}) : ~(r.at < w.end)
        BY <1>10, <3>3
      <4> QED
        BY <4>1, NonePassed
    <3>5. Passed(off) = 0
      <4>1. \A r \in Fresh({"record"}) : ~(r.at < off)
        BY <1>7, <1>10, <3>3
      <4> QED
        BY <4>1, NonePassed
    <3> QED
      BY <1>1, <1>6, <2>1, <2>2, <3>4, <3>5 DEF InRecord
  <2>3. CASE purpose = "fixed"
    <3>1. PICK r \in written : r.kind = "record" /\ r.at = off
      BY <1>8, <2>3 DEF InName, Owned
    <3>2. PICK x \in written, f \in written :
            x.kind = "name" /\ x.at = r.at /\ x.end + 10 + f.num = r.end
      <4>1. Framed(written, F, r)
        BY <3>1 DEF Ready, Lays
      <4> QED
        BY <4>1 DEF Framed
    <3>3. x = w
      BY <1>7, <3>1, <3>2, ReadyIs DEF Unique
    <3>4. w.end <= r.end
      <4>1. f.num \in Nat /\ r.end \in Nat
        BY ReadyIs
      <4> QED
        BY <1>10, <3>2, <3>3, <4>1
    <3>5. Passed(w.end) = Passed(off) + 1
      BY <1>7, <1>10, <3>1, <3>4, PassedIn
    <3> QED
      BY <1>1, <1>6, <2>1, <2>3, <3>5
  <2>4. CASE purpose = "field"
    <3>1. InData(F)
      BY <1>8, <2>4 DEF InName
    <3>2. PICK b \in Nat : b < off /\ Ends(written, end, b)
      BY <3>1 DEF InData, Within
    <3>3. off' <= end /\ off <= end
      <4>1. IInv' /\ IInv
        BY NameEndsKeeps DEF Ready
      <4>2. off' <= lim /\ lim <= end
        BY <1>1, <2>4, <4>1 DEF IInv, Limits, InRecord
      <4> QED
        BY <1>6, <1>2, <1>10, <4>2
    <3>4. Passed(w.end) = Passed(off)
      <4>1. b < w.end /\ w.end <= end /\ off <= end
        BY <1>6, <1>7, <1>10, <3>2, <3>3
      <4> QED
        BY <1>10, <3>2, <4>1, PassedWithin
    <3> QED
      BY <1>1, <1>6, <2>1, <2>4, <3>4 DEF InRecord
  <2> QED
    BY <1>8, <2>2, <2>3, <2>4
<1>13. up # "next" /\ up' # "next"
  BY <1>1, <1>8
<1> QED
  BY <1>1, <1>11, <1>12, <1>13, TellsOn

LEMMA QuestionTells ==
  ASSUME NEW R, NEW F, Ready(R, F), Reads(R, F), Tells, Question, UNCHANGED packVars
  PROVE  Tells'
<1>1. /\ up = "question" /\ up' = "next" /\ off' = Least(off + 4, received)
      /\ asked' = asked + 1 /\ counts' = [counts EXCEPT ![1] = @ - 1]
      /\ UNCHANGED <<received, taken, purpose>>
  BY DEF Question, message, name
<1>2. Expected
  BY <1>1 DEF Reads
<1>3. PICK n \in Names(12) : off = n.end
  BY <1>1 DEF Reads
<1>4. PICK q \in written : Fresh({"question"}) = {q} /\ q.at = off /\ q.end = off + 4
  BY <1>2, <1>3, QuestionIs
<1>5. off \in Nat /\ received \in Nat /\ off <= received
  BY <1>1, ReadyIs DEF Ready, IInv, Limits, InRecord
<1>6. off' \in Nat /\ off' <= off + 4
  BY <1>1, <1>5 DEF Least
<1>7. counts' \in Seq(Nat) /\ Len(counts') = 4 /\ counts'[1] = 0 /\ Tail(counts') = Tail(counts)
      /\ Len(counts) = 4 /\ counts[1] = 1
  <2>1. counts \in Seq(Nat) /\ Len(counts) = 4 /\ counts[1] = 1
    BY <1>2, ReadyIs DEF Expected
  <2>2. counts' = [counts EXCEPT ![1] = 0]
    BY <1>1, <2>1
  <2>3. /\ [counts EXCEPT ![1] = 0] \in Seq(Nat) /\ Len([counts EXCEPT ![1] = 0]) = Len(counts)
        /\ \A j \in 1 .. Len(counts) : [counts EXCEPT ![1] = 0][j] = IF j = 1 THEN 0 ELSE counts[j]
    <3>1. 1 \in 1 .. Len(counts) /\ 0 \in Nat
      BY <2>1
    <3> QED
      BY <2>1, <3>1, ExceptSeq
  <2>4. PICK c : c = counts'
    OBVIOUS
  <2>5. c \in Seq(Nat) /\ Len(c) = 4 /\ \A j \in 1 .. 4 : c[j] = IF j = 1 THEN 0 ELSE counts[j]
    BY <2>1, <2>2, <2>3, <2>4
  <2>6. Tail(c) = Tail(counts)
    <3>1. Len(c) = 3 + 1 /\ Len(counts) = 3 + 1
      BY <2>1, <2>5
    <3> c \in Seq(Nat) /\ 3 \in Nat
      BY <2>5
    <3>2. Tail(c) \in Seq(Nat) /\ Len(Tail(c)) = 3 /\ \A j \in 1 .. 3 : Tail(c)[j] = c[j + 1]
      BY <3>1, LongerTail
    <3>3. Tail(counts) \in Seq(Nat) /\ Len(Tail(counts)) = 3
          /\ \A j \in 1 .. 3 : Tail(counts)[j] = counts[j + 1]
      <4>1. counts \in Seq(Nat) /\ 3 \in Nat /\ Len(counts) = 3 + 1
        BY <2>1, <3>1
      <4> QED
        BY <4>1, LongerTail
    <3>4. \A j \in 1 .. 3 : c[j + 1] = counts[j + 1]
      BY <2>5
    <3>5. \A j \in 1 .. 3 : Tail(c)[j] = Tail(counts)[j]
      BY <3>2, <3>3, <3>4
    <3> QED
      BY <3>2, <3>3, <3>5, SeqEqual
  <2> QED
    BY <2>1, <2>4, <2>5, <2>6
<1>8. Owed'
  <2>1. Owing(counts') = Owing(counts)
    BY <1>7 DEF Owing
  <2> QED
    BY <1>1, <2>1 DEF Tells, Owed, Owing, packVars
<1>9. \A r \in Fresh({"record"}) : off + 4 <= r.at /\ r.at \in Nat
  BY <1>4, ReadyIs DEF Ready, Placed, Separate, Fresh
<1>10. Numbers'
  <2>1. PICK o : o = off'
    OBVIOUS
  <2>2. Passed(o) = 0
    <3>1. \A r \in Fresh({"record"}) : ~(r.at < o)
      BY <1>5, <1>6, <1>9, <2>1
    <3> QED
      BY <3>1, NonePassed
  <2>3. Passed(off) = 0
    <3>1. \A r \in Fresh({"record"}) : ~(r.at < off)
      BY <1>5, <1>9
    <3> QED
      BY <3>1, NonePassed
  <2>4. Passed(off)' = 0
    BY <2>1, <2>2, PassedStays
  <2> QED
    BY <1>1, <2>3, <2>4 DEF Tells, Numbers, InRecord
<1>11. Queried'
  <2>1. asked' = 1
    BY <1>1, <1>7 DEF Tells, Queried
  <2>2. Cardinality(Fresh({"question"})) = 1
    BY <1>4, FS_Singleton
  <2>3. Fresh({"question"})' = Fresh({"question"})
    BY DEF Fresh, packVars
  <2> QED
    BY <1>1, <1>4, <1>5, <1>7, <2>1, <2>2, <2>3 DEF Queried
<1>12. Shallow'
  <2>1. Whole(q.kind) /\ Passable(q)
    BY <1>4 DEF Whole, NameItems, Fresh, Passable
  <2>2. off' <= q.end
    BY <1>4, <1>6
  <2> QED
    BY <1>4, <1>6, <2>1, <2>2, ShallowOn DEF Tells
<1> QED
  BY <1>8, <1>10, <1>11, <1>12 DEF Tells

LEMMA FixedTells ==
  ASSUME NEW R, NEW F, Ready(R, F), Reads(R, F), Tells, Fixed, UNCHANGED packVars
  PROVE  Tells'
<1>1. /\ up = "fixed" /\ up' = "field" /\ off' = off + 10
      /\ UNCHANGED <<received, counts, asked, taken>>
  BY DEF Fixed, progress, message
<1>2. PICK n \in written : n.kind = "name" /\ Owned(n.at) /\ off = n.end
  BY <1>1 DEF Reads
<1>3. PICK r \in written : r.kind = "record" /\ r.at = n.at
  BY <1>2 DEF Owned
<1>4. PICK x \in written, f \in written :
        /\ x.kind = "name" /\ x.at = r.at /\ f.kind = "fixed" /\ f.at = x.end
        /\ x.end + 10 + f.num = r.end
  <2>1. Framed(written, F, r)
    BY <1>3 DEF Ready, Lays
  <2> QED
    BY <2>1 DEF Framed
<1>5. x = n
  BY <1>2, <1>3, <1>4, ReadyIs DEF Unique
<1>6. /\ off \in Nat /\ r.end \in Nat /\ r.at \in Nat /\ f.num \in Nat /\ n.at < n.end
  BY <1>2, ReadyIs, KindsApart DEF Filled
<1>7. r.at < off /\ off + 10 <= r.end
  BY <1>2, <1>3, <1>4, <1>5, <1>6
<1>8. Passed(off) = Passed(r.at) + 1 /\ Passed(off + 10) = Passed(r.at) + 1
  <2>1. r.at < off + 10 /\ off <= r.end /\ off + 10 \in Nat
    BY <1>6, <1>7
  <2> QED
    BY <1>3, <1>6, <1>7, <2>1, PassedIn
<1>9. Passed(off') = IF up' = "fixed" \/ InRecord' THEN taken + 1 ELSE taken
  BY <1>1, <1>8 DEF Tells, Numbers, InRecord
<1>10. Shallow'
  <2>1. f.end = f.at + 10 /\ f.at = off
    BY <1>2, <1>4, <1>5 DEF Ready, Placed, InOrder
  <2>2. Whole(f.kind) /\ Passable(f)
    BY <1>4 DEF Whole, NameItems, Passable
  <2>3. off' \in Nat /\ off' <= f.end
    BY <1>1, <1>6, <2>1
  <2> QED
    BY <2>1, <2>2, <2>3, ShallowOn DEF Tells
<1> QED
  BY <1>1, <1>9, <1>10, TellsOn

(* What stands for a field is no part of a name, and no record.            *)
LEMMA FieldsAreWhole ==
  ASSUME NEW k \in Kind \ Named
  PROVE  Whole(Written(k)) /\ Written(k) # "name" /\ (Written(k) = "opt" => k = "opt")
<1>1. k \in DOMAIN Size \cup DOMAIN Span \cup Remnant \cup {"octet"}
  BY WrittenKinds
<1>2. k \in {"u8", "u16", "u32", "u48", "u64", "a", "aaaa", "string", "txt", "nsec", "opt", "hexN",
             "b64N", "b32N", "hex", "b64", "octet"}
  BY <1>1, KindFacts DEF Remnant
<1>3. Written(k) \in {"u8", "u16", "u32", "u48", "u64", "a", "aaaa", "string", "txt", "nsec", "opt",
                      "hex", "b64", "b32", "octet"}
  BY <1>2 DEF Written
<1>4. Written(k) = "opt" => k = "opt"
  BY DEF Written
<1> QED
  BY <1>3, <1>4 DEF Whole, NameItems

LEMMA FieldTells ==
  ASSUME NEW R, NEW F, Ready(R, F), Reads(R, F), Tells, Field, UNCHANGED packVars
  PROVE  Tells'
<1>1. /\ up = "field" /\ up' = "field" /\ todo # <<>> /\ Head(todo) \in Kind \ Named
      /\ UNCHANGED <<counts, asked, taken, lim, end, received>>
  BY DEF Field, AtField, progress, message
<1>2. PICK e \in FieldEnds(Head(todo)) : e <= lim /\ off' = e
  BY DEF Field
<1>3. InData(F)
  BY <1>1 DEF Reads
<1>4. e \in Nat /\ off <= e /\ off \in Nat /\ lim \in Nat /\ end \in Nat /\ lim <= end
  <2>1. IInv
    BY DEF Ready
  <2>2. e \in Nat /\ off <= e /\ lim <= end
    BY <1>1, <2>1, FieldEndFacts DEF IInv, Limits, InRecord
  <2> QED
    BY <2>2, ReadyIs
<1>5. PICK b \in Nat : Within(F, b)
  BY <1>3 DEF InData
<1>6. Passed(off') = IF up' = "fixed" \/ InRecord' THEN taken + 1 ELSE taken
  <2>1. b < off /\ Ends(written, end, b)
    BY <1>5 DEF Within
  <2>2. off <= end /\ b < e /\ e <= end
    BY <1>2, <1>4, <2>1
  <2>3. Passed(e) = Passed(off)
    BY <1>4, <2>1, <2>2, PassedWithin
  <2> QED
    BY <1>1, <1>2, <2>3 DEF Tells, Numbers, InRecord
<1>7. Shallow'
  <2>1. CASE off < lim
    <3>1. PICK c \in Nat, w \in written :
             /\ Within(F, c) /\ w \in content /\ w.at = off /\ w.kind = Written(Head(todo))
             /\ w.end <= end /\ <<w.end, After(todo), c>> \in F
      BY <1>1, <1>3, <2>1, FieldStands
    <3>2. e = w.end \/ (e = lim /\ w.end = end)
      BY <1>1, <1>3, <3>1, FieldEndIs
    <3>3. off' \in Nat /\ off' <= w.end
      BY <1>2, <1>4, <3>2
    <3>4. Whole(w.kind) /\ w.kind # "name" /\ (w.kind = "opt" => Head(todo) = "opt")
      BY <1>1, <3>1, FieldsAreWhole
    <3>5. Passable(w)
      <4> SUFFICES ASSUME w.kind = "opt"
                   PROVE  w.num = Sound
        BY <3>4 DEF Passable
      <4>1. Legible
        BY <3>4 DEF Field
      <4>2. w \in Found(off, {"opt"})
        BY <3>1 DEF Found
      <4> QED
        BY <4>1, <4>2 DEF Legible
    <3> QED
      BY <3>1, <3>3, <3>4, <3>5, ShallowOn DEF Tells
  <2>2. CASE ~(off < lim)
    <3>1. off' = off
      BY <1>2, <1>4, <2>2
    <3> QED
      BY <3>1, ShallowStays DEF Tells
  <2> QED
    BY <2>1, <2>2
<1> QED
  BY <1>1, <1>6, <1>7, TellsOn

LEMMA RecordTells ==
  ASSUME NEW R, NEW F, Ready(R, F), Reads(R, F), Tells, Record, UNCHANGED packVars
  PROVE  Tells'
<1>1. /\ up = "field" /\ up' = "next" /\ taken' = taken + 1
      /\ counts' = [counts EXCEPT ![1] = @ - 1] /\ UNCHANGED <<off, received, asked>>
  BY DEF Record, message
<1>2. Len(counts) # 4 /\ counts \in Seq(Nat) /\ counts # <<>> /\ Head(counts) > 0
  BY <1>1, ReadyIs DEF Reads, InData, Ready, IInv, Sections
<1>3. /\ counts' \in Seq(Nat) /\ Len(counts') = Len(counts) /\ counts' # <<>>
      /\ counts'[1] = counts[1] - 1 /\ Tail(counts') = Tail(counts) /\ counts[1] \in Nat /\ counts[1] > 0
  <2>1. Len(counts) \in Nat /\ Len(counts) > 0 /\ counts[1] \in Nat /\ counts[1] > 0
    BY <1>2
  <2>2. PICK k : k = counts[1] - 1
    OBVIOUS
  <2>3. k \in Nat /\ counts' = [counts EXCEPT ![1] = k] /\ 1 \in 1 .. Len(counts)
    BY <1>1, <2>1, <2>2
  <2>4. /\ [counts EXCEPT ![1] = k] \in Seq(Nat) /\ Len([counts EXCEPT ![1] = k]) = Len(counts)
        /\ \A j \in 1 .. Len(counts) : [counts EXCEPT ![1] = k][j] = IF j = 1 THEN k ELSE counts[j]
    BY <1>2, <2>3, ExceptSeq
  <2>5. PICK c : c = counts'
    OBVIOUS
  <2>6. c \in Seq(Nat) /\ Len(c) = Len(counts)
        /\ \A j \in 1 .. Len(counts) : c[j] = IF j = 1 THEN k ELSE counts[j]
    BY <2>3, <2>4, <2>5
  <2>7. PICK n \in Nat : Len(counts) = n + 1
    BY <2>1
  <2>8. c # <<>> /\ Tail(c) \in Seq(Nat) /\ Len(Tail(c)) = n /\ \A j \in 1 .. n : Tail(c)[j] = c[j + 1]
    BY <2>6, <2>7, LongerTail
  <2>9. Tail(counts) \in Seq(Nat) /\ Len(Tail(counts)) = n
        /\ \A j \in 1 .. n : Tail(counts)[j] = counts[j + 1]
    BY <1>2, <2>7, LongerTail
  <2>10. \A j \in 1 .. n : c[j + 1] = counts[j + 1]
    BY <2>6, <2>7
  <2>11. \A j \in 1 .. n : Tail(c)[j] = Tail(counts)[j]
    BY <2>8, <2>9, <2>10
  <2>12. Tail(c) = Tail(counts)
    BY <2>8, <2>9, <2>11, SeqEqual
  <2> QED
    BY <2>1, <2>2, <2>3, <2>5, <2>6, <2>8, <2>12
<1>4. Owed'
  <2>1. Owing(counts) + taken = Len(src.records)
    BY <1>1 DEF Tells, Owed
  <2>2. Sum(counts) = counts[1] + Sum(Tail(counts))
    BY <1>2, SumTail
  <2>3. Sum(counts') = counts'[1] + Sum(Tail(counts'))
    BY <1>3, SumTail
  <2>4. Sum(Tail(counts)) \in Nat /\ taken \in Nat
    <3>1. Tail(counts) \in Seq(Nat)
      BY <1>2
    <3> QED
      BY <3>1, SumTyped DEF Ready, IInv, UnpackTypeOK
  <2>5. Sum(counts') + (taken + 1) = Sum(counts) + taken
    <3>1. PICK t : t = Sum(Tail(counts))
      OBVIOUS
    <3>2. Sum(counts') = (counts[1] - 1) + t /\ Sum(counts) = counts[1] + t /\ t \in Nat
      BY <1>3, <2>2, <2>3, <2>4, <3>1
    <3>3. PICK u, v, c : u = Sum(counts) /\ v = Sum(counts') /\ c = counts[1]
      OBVIOUS
    <3>4. v = (c - 1) + t /\ u = c + t /\ c \in Nat /\ t \in Nat /\ taken \in Nat
      BY <1>3, <2>4, <3>2, <3>3
    <3>5. v + (taken + 1) = u + taken
      BY <3>4
    <3> QED
      BY <3>3, <3>5
  <2>6. Owing(counts) = Sum(counts) /\ Owing(counts') = Sum(counts')
    BY <1>2, <1>3 DEF Owing
  <2>7. Owing(counts') + taken' = Len(src.records)
    BY <1>1, <2>1, <2>5, <2>6
  <2> QED
    BY <2>7 DEF Owed, Owing, packVars
<1>5. Numbers'
  <2>1. Passed(off)' = Passed(off)
    BY <1>1, PassedStays
  <2> QED
    BY <1>1, <2>1 DEF Tells, Numbers, InRecord
<1>6. Queried'
  BY <1>1, <1>2, <1>3 DEF Tells, Queried, Fresh, packVars
<1>7. Shallow'
  BY <1>1, ShallowStays DEF Tells
<1> QED
  BY <1>4, <1>5, <1>6, <1>7 DEF Tells

-----------------------------------------------------------------------------
(* A step of the reader counts on.                                         *)
LEMMA ReaderTells ==
  ASSUME NEW R, NEW F, Ready(R, F), up = "header" \/ (Reads(R, F) /\ Tells), Reads(R, F)',
         UnpackNext, up' # "done", UNCHANGED packVars
  PROVE  Tells'
<1>1. ~HeaderRefused /\ ~Finish /\ ~NameRefused /\ ~QuestionRefused /\ ~FixedRefused
      /\ ~FieldRefused /\ ~RecordRefused
  BY DEF HeaderRefused, Finish, NameRefused, QuestionRefused, FixedRefused, FieldRefused,
     RecordRefused, Stop
<1>2. CASE Header
  BY <1>2, HeaderTells
<1>3. CASE ~Header
  <2>1. \/ SectionEnds \/ NextItem \/ NameLabel \/ NamePointer \/ NameEnds \/ Question \/ Fixed
        \/ Field \/ FieldSkipped \/ FieldName \/ Record
    BY <1>1, <1>3 DEF UnpackNext, UnpackName, UnpackField
  <2>2. Reads(R, F) /\ Tells
    BY <2>1 DEF SectionEnds, NextItem, NameLabel, NamePointer, NameEnds, Question, Fixed,
       Field, FieldSkipped, FieldName, Record, AtField
  <2>3. CASE SectionEnds \/ NextItem \/ Question \/ Fixed \/ Record
    BY <2>2, <2>3, SectionEndsTells, NextItemTells, QuestionTells, FixedTells, RecordTells
  <2>4. CASE NameLabel \/ NamePointer \/ FieldSkipped \/ FieldName
    BY <2>2, <2>4, InNameTells
  <2>5. CASE NameEnds \/ Field
    BY <2>2, <2>5, NameEndsTells, FieldTells
  <2> QED
    BY <2>1, <2>3, <2>4, <2>5
<1> QED
  BY <1>2, <1>3

-----------------------------------------------------------------------------
(* Where the record is at its end no field is left that is read even       *)
(* there: such a one could only follow one that is counted elsewhere.      *)
Unending == {"opt", "a", "aaaa"}

Tolerant(T) == \A i \in 1 .. Len(T) - 1 : T[i] \in Counted => T[i + 1] \notin Unending
Fit == InRecord => Tolerant(todo) /\ (off = end /\ todo # <<>> => Head(todo) \notin Unending)

LEMMA TolerantOn ==
  ASSUME NEW T \in Seq(Kind), Tolerant(T), T # <<>>
  PROVE  /\ Tolerant(Tail(T)) /\ Tolerant(<<>>)
         /\ Head(T) \in Counted /\ Tail(T) # <<>> => Head(Tail(T)) \notin Unending
<1>1. /\ Len(T) \in Nat /\ Len(T) > 0 /\ Head(T) = T[1]
      /\ Tail(T) \in Seq(Kind) /\ Len(Tail(T)) = Len(T) - 1
      /\ \A j \in 1 .. Len(T) - 1 : Tail(T)[j] = T[j + 1]
  BY TailIs
<1>2. ASSUME NEW i \in 1 .. Len(Tail(T)) - 1, Tail(T)[i] \in Counted
      PROVE  Tail(T)[i + 1] \notin Unending
  <2>1. i + 1 \in 1 .. Len(T) - 1 /\ i \in 1 .. Len(T) - 1
    BY <1>1
  <2>2. Tail(T)[i] = T[i + 1] /\ Tail(T)[i + 1] = T[(i + 1) + 1]
    BY <1>1, <2>1
  <2> QED
    BY <1>2, <2>1, <2>2 DEF Tolerant
<1>3. ASSUME Head(T) \in Counted, Tail(T) # <<>>
      PROVE  Head(Tail(T)) \notin Unending
  <2>1. Len(Tail(T)) > 0 /\ Head(Tail(T)) = Tail(T)[1]
    BY <1>1, <1>3, TailIs
  <2>2. 1 \in 1 .. Len(T) - 1 /\ 1 + 1 = 2
    BY <1>1, <2>1
  <2>3. Tail(T)[1] = T[1 + 1]
    BY <1>1, <2>2
  <2>4. T[1] \in Counted
    BY <1>1, <1>3
  <2>5. T[1 + 1] \notin Unending
    BY <2>2, <2>4 DEF Tolerant
  <2> QED
    BY <2>1, <2>3, <2>5
<1>4. Tolerant(<<>>)
  BY DEF Tolerant
<1> QED
  BY <1>2, <1>3, <1>4 DEF Tolerant

(* A field has been read.                                                  *)
LEMMA RestIsFit ==
  ASSUME InRecord, InRecord', Fit, todo \in Seq(Kind), todo # <<>>, todo' = Rest(off'), off' \in Nat,
         off' <= lim, lim <= end, lim \in Nat, end \in Nat, UNCHANGED <<lim, end>>
  PROVE  Fit'
<1>1. /\ Tolerant(Tail(todo)) /\ Tolerant(<<>>) /\ Tolerant(todo)
      /\ Head(todo) \in Counted /\ Tail(todo) # <<>> => Head(Tail(todo)) \notin Unending
  BY TolerantOn DEF Fit
<1>2. todo' \in {<<>>, todo, Tail(todo)}
  BY DEF Rest
<1>3. PICK T : T = todo'
  OBVIOUS
<1>4. Tolerant(T)
  BY <1>1, <1>2, <1>3
<1>5. ASSUME off' = end, T # <<>>
      PROVE  Head(T) \notin Unending
  <2>1. off' = lim
    BY <1>5
  <2>2. Head(todo) \in Counted
    BY <1>3, <1>5, <2>1 DEF Rest
  <2>3. Head(todo) \notin Repeated
    BY <2>2, WrittenKinds
  <2>4. T = Tail(todo)
    BY <1>3, <2>2, <2>3 DEF Rest
  <2> QED
    BY <1>1, <1>5, <2>2, <2>4
<1>6. Tolerant(todo')
  BY <1>3, <1>4
<1>7. off' = end' /\ todo' # <<>> => Head(todo') \notin Unending
  BY <1>3, <1>5
<1> QED
  BY <1>6, <1>7 DEF Fit, Tolerant

LEMMA FitStays ==
  ASSUME Fit, InRecord' => InRecord, UNCHANGED <<todo, off, end>>
  PROVE  Fit'
  BY DEF Fit, Tolerant

LEMMA LayoutTolerant ==
  ASSUME Acceptable, NEW t \in RRType
  PROVE  Tolerant(Layout[t])
  BY DEF Acceptable, Tolerant, Unending

LEMMA FixedFits ==
  ASSUME Acceptable, IInv, Fixed
  PROVE  Fit'
<1>1. PICK claim \in Claims :
        /\ end' = off + 10 + claim[2]
        /\ todo' = IF claim[2] = 0 THEN <<>> ELSE Layout[claim[1]]
  BY DEF Fixed
<1>2. off' = off + 10 /\ off \in Nat
  BY DEF Fixed, IInv, UnpackTypeOK
<1>3. claim[1] \in RRType /\ claim[2] \in Nat
  <2>1. content \subseteq Item
    BY DEF IInv, UnpackTypeOK
  <2>2. CASE Found(off, {"fixed"}) # {}
    <3>1. PICK w \in Found(off, {"fixed"}) : claim = <<w.type, w.num>>
      BY <2>2 DEF Claims
    <3>2. w.type \in RRType /\ w.num \in Nat
      BY <2>1, <3>1, ItemFacts
    <3> QED
      BY <3>1, <3>2
  <2>3. CASE Found(off, {"fixed"}) = {}
    <3>1. claim \in RRType \X Rdlength
      BY <2>3 DEF Claims
    <3> QED
      BY <3>1, LayoutRead
  <2> QED
    BY <2>2, <2>3
<1>4. PICK T : T = todo'
  OBVIOUS
<1>5. Tolerant(T)
  <2>1. Tolerant(<<>>)
    BY DEF Tolerant
  <2> QED
    BY <1>1, <1>3, <1>4, <2>1, LayoutTolerant
<1>6. off' = end' => T = <<>>
  BY <1>1, <1>2, <1>3, <1>4
<1>7. Tolerant(todo') /\ (off' = end' => todo' = <<>>)
  BY <1>4, <1>5, <1>6
<1> QED
  BY <1>7 DEF Fit, Tolerant

LEMMA ReaderFits ==
  ASSUME Acceptable, NEW R, NEW F, Ready(R, F), up = "header" \/ (Reads(R, F) /\ Fit), IInv',
         UnpackNext, up' # "done"
  PROVE  Fit'
<1>1. /\ todo \in Seq(Kind) /\ off \in Nat /\ lim \in Nat /\ end \in Nat
      /\ off' \in Nat /\ (InRecord => lim <= end) /\ IInv
  BY DEF Ready, IInv, UnpackTypeOK, Limits
<1>2. ~HeaderRefused /\ ~Finish /\ ~NameRefused /\ ~QuestionRefused /\ ~FixedRefused
      /\ ~FieldRefused /\ ~RecordRefused
  BY DEF HeaderRefused, Finish, NameRefused, QuestionRefused, FixedRefused, FieldRefused,
     RecordRefused, Stop
<1>3. CASE Header \/ SectionEnds \/ NextItem \/ Question \/ Record
  <2>1. ~InRecord'
    BY <1>3 DEF Header, SectionEnds, NextItem, StartName, Question, Record, InRecord
  <2> QED
    BY <2>1 DEF Fit
<1>4. CASE NameLabel \/ NamePointer
  <2>1. Fit /\ (InRecord' => InRecord) /\ UNCHANGED <<todo, off, end>>
    BY <1>4 DEF NameLabel, NamePointer, record, InRecord
  <2> QED
    BY <2>1, FitStays
<1>5. CASE FieldName
  <2>1. Fit /\ InRecord /\ UNCHANGED <<todo, off, end>>
    BY <1>5 DEF FieldName, AtField, StartName, record, InRecord
  <2> QED
    BY <2>1, FitStays
<1>6. CASE NameEnds
  <2>1. CASE purpose = "field"
    <3>1. /\ up = "name" /\ up' = "field" /\ off' = NameEnd /\ todo' = Rest(off')
          /\ UNCHANGED <<lim, end>> /\ Fit /\ todo # <<>>
      BY <1>1, <1>6, <2>1 DEF NameEnds, IInv, Place
    <3>2. InRecord /\ InRecord'
      BY <2>1, <3>1 DEF InRecord
    <3>3. off' <= lim
      BY <3>1, <3>2 DEF IInv, Limits
    <3> QED
      BY <1>1, <3>1, <3>2, <3>3, RestIsFit
  <2>2. CASE purpose # "field"
    <3>1. ~InRecord'
      BY <1>6, <2>2 DEF NameEnds, InRecord
    <3> QED
      BY <3>1 DEF Fit
  <2> QED
    BY <2>1, <2>2
<1>7. CASE Fixed
  BY <1>1, <1>7, FixedFits
<1>8. CASE Field
  <2>1. /\ up = "field" /\ up' = "field" /\ todo # <<>> /\ UNCHANGED <<lim, end>>
        /\ off' <= lim /\ todo' = Rest(off')
    BY <1>8 DEF Field, AtField
  <2>2. InRecord /\ InRecord' /\ Fit
    BY <2>1 DEF InRecord
  <2> QED
    BY <1>1, <2>1, <2>2, RestIsFit
<1>9. CASE FieldSkipped
  <2>1. /\ up = "field" /\ todo # <<>> /\ Head(todo) \in Repeated /\ todo' = Tail(todo)
    BY <1>9 DEF FieldSkipped, AtField
  <2>2. InTurn(todo)
    BY <2>1 DEF Reads, InData
  <2>3. todo' = <<>>
    BY <2>1, <2>2, InTurnOn, WrittenKinds
  <2> QED
    BY <2>3 DEF Fit, Tolerant
<1> QED
  BY <1>2, <1>3, <1>4, <1>5, <1>6, <1>7, <1>8, <1>9 DEF UnpackNext, UnpackName, UnpackField
-----------------------------------------------------------------------------
(* What the writer writes of acceptable messages.                          *)
Bears(w) == /\ w.kind = "name" => Short(w.labels)
            /\ w.kind = "opt" /\ w.num = Sound =>
                 w.end - w.at >= 4 + OptionLeast[w.type]

Light == {e \in Entry : Bearable(e[1], e[2])}

Borne == /\ \A w \in written : Bears(w)
         /\ pk = "field" => fields \in Seq(Light)

LEMMA NameBears ==
  ASSUME Laid, Pointable, NEW labels \in Seq(Label), NEW o \in Nat, NEW compress \in BOOLEAN,
         Short(labels), NEW w \in NameWritten(labels, o, compress)
  PROVE  Bears(w)
<1> DEFINE p == Pointed(labels, compress)
<1>1. \/ w = NameItem(labels, o, compress)
      \/ w = LastItem(labels, o, p)
      \/ \E i \in 1 .. p - 1 : w = LabelItem(labels, o, i)
  <2>1. \A x \in NameWritten(labels, o, compress) :
          \/ x = NameItem(labels, o, compress)
          \/ x = LastItem(labels, o, p)
          \/ \E i \in 1 .. p - 1 : x = LabelItem(labels, o, i)
    BY NameShapes
  <2> QED
    BY <2>1
<1>2. /\ NameItem(labels, o, compress).kind = "name"
      /\ NameItem(labels, o, compress).labels = labels
      /\ LastItem(labels, o, p).kind \in {"pointer", "root"}
  BY NameShapes
<1>3. \A i \in 1 .. p - 1 : LabelItem(labels, o, i).kind = "label"
  <2> TAKE i \in 1 .. p - 1
  <2>1. Shape(LabelItem(labels, o, i), o + 2 * (i - 1), o + 2 * i, "label", <<labels[i]>>, 0)
    BY NameShapes
  <2> QED
    BY <2>1 DEF Shape
<1> QED
  BY <1>1, <1>2, <1>3 DEF Bears

LEMMA FieldsAreLight ==
  ASSUME Acceptable, NEW m \in Messages, NEW rr \in ToSet(m.records)
  PROVE  Fields(rr) \in Seq(Light)
<1> DEFINE X == Light
           n == Len(rr.data)
           kind(i) == PackLayout[rr.type][i]
           group(i) == IF kind(i) = "names"
                       THEN [j \in 1 .. Len(rr.data[i]) |-> <<"name", rr.data[i][j]>>]
                       ELSE << <<kind(i), rr.data[i]>> >>
           ss == [i \in 1 .. n |-> group(i)]
           r == [i \in 1 .. n |-> Sum(Costs(group(i)))]
<1>1. /\ n \in Nat
      /\ \A i \in 1 .. n : kind(i) \in PackKind /\ rr.data[i] \in Says(kind(i))
  BY RecordFacts
<1>2. \A i \in 1 .. n : Bearable(kind(i), rr.data[i])
  BY DEF Acceptable
<1>3. \A e \in X : FieldCost(e) \in Nat
  BY EntryCost DEF Light
<1>4. ASSUME NEW i \in 1 .. n
      PROVE  group(i) \in Seq(X) /\ Sum(Costs(group(i))) \in Nat
  <2> DEFINE v == rr.data[i]
  <2>1. group(i) \in Seq(X)
    <3>1. CASE kind(i) = "names"
      <4>1. v \in Seq(Seq(Label))
        BY <1>1, <3>1, SizeFacts DEF Says
      <4>2. group(i) = [j \in 1 .. Len(v) |-> <<"name", v[j]>>]
        BY <3>1
      <4>3. \A j \in 1 .. Len(v) : Short(v[j])
        BY <1>2, <3>1 DEF Bearable
      <4> HIDE DEF v, group, kind, X
      <4>4. \A j \in 1 .. Len(v) : <<"name", v[j]>> \in X
        <5> TAKE j \in 1 .. Len(v)
        <5>1. v[j] \in Seq(Label) /\ Short(v[j])
          BY <4>1, <4>3
        <5>2. "name" \in PackKind \ {"names"} /\ Says("name") = Seq(Label)
          BY SizeFacts DEF PackKind, Says
        <5>3. <<"name", v[j]>> \in Entry
          BY <5>1, <5>2 DEF Entry
        <5>4. Bearable("name", v[j])
          BY <5>1 DEF Bearable
        <5>5. <<"name", v[j]>>[1] = "name" /\ <<"name", v[j]>>[2] = v[j]
          OBVIOUS
        <5> QED
          BY <5>3, <5>4, <5>5 DEF X, Light
      <4>5. Len(v) \in Nat
        BY <4>1
      <4> QED
        BY <4>2, <4>4, <4>5
    <3>2. CASE kind(i) # "names"
      <4> DEFINE e == <<kind(i), v>>
      <4>1. group(i) = <<e>>
        BY <3>2
      <4>2. e \in X
        <5>1. e[1] = kind(i) /\ e[2] = v
          OBVIOUS
        <5>2. e \in Entry
          BY <1>1, <3>2 DEF Entry
        <5> QED
          BY <1>2, <5>1, <5>2 DEF Light
      <4> HIDE DEF e, group, X
      <4> QED
        BY <4>1, <4>2
    <3> QED
      BY <3>1, <3>2
  <2> HIDE DEF group, X
  <2>2. Costs(group(i)) \in Seq(Nat)
    BY <1>3, <2>1, CostsFacts
  <2> QED
    BY <2>1, <2>2, SumTyped
<1>5. Fields(rr) = FlattenSeq(ss)
  BY Zenon DEF Fields
<1> HIDE DEF X, group
<1>6. ss \in Seq(Seq(X)) /\ Len(ss) = n /\ r \in Seq(Nat) /\ Len(r) = n
  <2>1. n \in Nat
    BY <1>1
  <2> DEFINE cost(i) == Sum(Costs(group(i)))
  <2>2. \A i \in 1 .. n : group(i) \in Seq(X) /\ cost(i) \in Nat
    BY <1>4
  <2> HIDE DEF n, cost
  <2>3. ss \in Seq(Seq(X)) /\ Len(ss) = n
    BY <2>1, <2>2
  <2>4. r = [i \in 1 .. n |-> cost(i)]
    BY DEF cost
  <2> HIDE DEF r
  <2>5. r \in Seq(Nat) /\ Len(r) = n
    BY <2>1, <2>2, <2>4
  <2> QED
    BY <2>3, <2>5
<1>7. \A i \in 1 .. n : Sum(Costs(ss[i])) = r[i]
  OBVIOUS
<1> HIDE DEF ss, r, n
<1>8. FlattenSeq(ss) \in Seq(X)
  BY <1>1, <1>3, <1>6, <1>7, FlattenFacts
<1> QED
  BY <1>5, <1>8 DEF X

LEMMA BorneGrows ==
  ASSUME Borne, NEW N, written' = written \cup N, \A w \in N : Bears(w),
         pk' = "field" => fields' \in Seq(Light)
  PROVE  Borne'
<1>1. \A w \in written' : Bears(w)
  BY DEF Borne
<1> QED
  BY <1>1 DEF Borne, Bears, Short

(* An option that is cut is sound no more.                                 *)
LEMMA CutBears ==
  ASSUME NEW kind \in NotNames, NEW v \in Says(kind), Bearable(kind, v)
  PROVE  Bearable(kind, Cut(kind, v))
<1> DEFINE last == Len(v)
           free == room - (at + Sum(Pieces(kind, v))) + v[last][2]
           x == <<v[last][1], free, Torn>>
           w == [v EXCEPT ![last] = x]
<1>1. CASE Cut(kind, v) = v
  BY <1>1
<1>2. CASE Cut(kind, v) # v
  <2>1. kind = "opt" /\ v # <<>> /\ Cut(kind, v) = w
    BY <1>2 DEF Cut
  <2>2. v \in Seq(Option)
    BY <2>1, SizeFacts DEF Says
  <2>3. x[3] # Sound
    BY DEF Torn, Sound
  <2> HIDE DEF x
  <2>4. Len(w) = Len(v) /\ \A j \in 1 .. Len(v) : w[j] = IF j = last THEN x ELSE v[j]
    BY <2>2
  <2>5. \A j \in 1 .. Len(v) : v[j][3] = Sound => v[j][2] >= OptionLeast[v[j][1]]
    BY <2>1 DEF Bearable
  <2> HIDE DEF w, last
  <2>6. \A j \in 1 .. Len(w) : w[j][3] = Sound => w[j][2] >= OptionLeast[w[j][1]]
    BY <2>3, <2>4, <2>5
  <2>7. Bearable("opt", w)
    BY <2>6 DEF Bearable
  <2> QED
    BY <2>1, <2>7
<1> QED
  BY <1>1, <1>2

LEMMA DataBears ==
  ASSUME WInv, Borne, PackData
  PROVE  Borne'
<1> DEFINE kind == Head(fields)[1]
           says == Head(fields)[2]
           v == Cut(kind, says)
           s == Pieces(kind, v)
           extra == {DataItem(kind, v, at, i) : i \in 1 .. Len(s)}
<1>1. /\ pk = "field" /\ fields # <<>> /\ kind \notin {"name", "cname"} /\ at \in Nat
  BY DEF PackData, AtData, WInv, Source
<1>2. kind \in NotNames /\ says \in Says(kind) /\ v \in Puts(kind)
  BY DataHere DEF PackData
<1>3. Head(fields) \in Light /\ Tail(fields) \in Seq(Light) /\ Bearable(kind, v)
  <2>1. Head(fields) \in Light /\ Tail(fields) \in Seq(Light)
    BY <1>1 DEF Borne
  <2>2. Bearable(kind, says)
    BY <2>1 DEF Light
  <2> QED
    BY <1>2, <2>1, <2>2, CutBears
<1>4. written' = written \cup extra /\ fields' = Tail(fields)
  BY DEF PackData, DataItem
<1>5. kind # "name"
  BY <1>1
<1>6. ASSUME NEW i \in 1 .. Len(s)
      PROVE  Bears(DataItem(kind, v, at, i))
  <2> DEFINE w == DataItem(kind, v, at, i)
             a == at + Sum(SubSeq(s, 1, i - 1))
             b == at + Sum(SubSeq(s, 1, i))
  <2>1. w.kind = kind
    BY DataItemIs
  <2>2. ASSUME kind = "opt", w.num = Sound
        PROVE  w.end - w.at >= 4 + OptionLeast[w.type]
    <3>1. v \in Seq(OptionCode \X Nat \X Fate)
      BY <1>2, <2>2 DEF Puts
    <3>2. s = [j \in 1 .. Len(v) |-> v[j][2] + 4]
      BY <2>2, SizeFacts DEF Pieces
    <3>3. Bearable("opt", v)
      BY <1>3, <2>2
    <3>4. w.at = a /\ w.end = b /\ w.type = v[i][1] /\ v[i][3] = Sound
      BY <2>2, DataItemIs
    <3> HIDE DEF s, v, w, a, b, kind
    <3>5. Len(v) \in Nat
      BY <3>1
    <3>6. \A j \in 1 .. Len(v) : v[j][1] \in OptionCode /\ v[j][2] \in Nat
      BY <3>1
    <3>7. s \in Seq(Nat) /\ Len(s) = Len(v) /\ i \in 1 .. Len(v)
      BY <3>2, <3>5, <3>6 DEF s
    <3>8. s[i] = v[i][2] + 4 /\ v[i][2] >= OptionLeast[v[i][1]]
          /\ v[i][2] \in Nat /\ OptionLeast[v[i][1]] \in Nat
      <4>1. v[i][2] >= OptionLeast[v[i][1]]
        BY <3>3, <3>4, <3>7 DEF Bearable
      <4>2. OptionLeast[v[i][1]] \in Nat
        BY <3>6, <3>7, UnpackAssumption
      <4> QED
        BY <3>2, <3>6, <3>7, <4>1, <4>2
    <3>9. /\ Sum(SubSeq(s, 1, i)) = Sum(SubSeq(s, 1, i - 1)) + s[i]
          /\ Sum(SubSeq(s, 1, i - 1)) \in Nat /\ Sum(SubSeq(s, 1, i)) \in Nat
      <4>1. i \in 0 .. Len(s) /\ i - 1 \in 0 .. Len(s) /\ i > 0 /\ i \in Nat
        BY <3>5, <3>7
      <4> QED
        BY <3>7, <4>1, SumUpTo
    <3>10. PICK x, y, k, l : /\ x = Sum(SubSeq(s, 1, i - 1)) /\ y = Sum(SubSeq(s, 1, i))
                             /\ k = v[i][2] /\ l = OptionLeast[v[i][1]]
      OBVIOUS
    <3>11. a = at + x /\ b = at + y
      BY <3>10 DEF a, b
    <3>12. /\ y = x + (k + 4) /\ k >= l /\ x \in Nat /\ y \in Nat /\ k \in Nat /\ l \in Nat
      BY <3>8, <3>9, <3>10
    <3>13. b - a >= 4 + l
      BY <1>1, <3>11, <3>12
    <3> QED
      BY <3>4, <3>10, <3>13
  <2> HIDE DEF w
  <2> QED
    BY <1>5, <2>1, <2>2 DEF Bears, w
<1>7. \A w \in extra : Bears(w)
  BY <1>6
<1> HIDE DEF extra
<1> QED
  BY <1>3, <1>4, <1>7, BorneGrows
LEMMA HeaderBears ==
  ASSUME PackHeader
  PROVE  Borne'
<1>1. PICK m \in Messages :
        /\ pk' = IF m.question = <<>> THEN "rr" ELSE "question"
        /\ written' = {[Plain(0, 12, "header") EXCEPT !.counts = SectionCounts(m)]}
  BY DEF PackHeader
<1>2. \A w \in written' : w.kind = "header"
  BY <1>1 DEF Plain
<1> QED
  BY <1>1, <1>2 DEF Borne, Bears

LEMMA QuestionBears ==
  ASSUME Acceptable, WInv, Borne, PackQuestion, pk' # "overflow"
  PROVE  Borne'
<1> DEFINE labels == src.question[1]
           e == NameEndsAt(labels, at, src.compress)
           N == NameWritten(labels, at, src.compress) \cup {Plain(e, e + 4, "question")}
<1>1. /\ pk = "question" /\ src \in Messages /\ Len(src.question) = 1
      /\ at \in Nat /\ Laid /\ Pointable
  BY DEF PackQuestion, WInv, Source
<1>2. labels \in Seq(Label) /\ src.compress \in BOOLEAN
  BY <1>1, LensFacts, MessageFacts
<1>3. Short(labels)
  BY <1>1 DEF Acceptable
<1>4. pk' = "rr" /\ written' = written \cup N
  BY DEF PackQuestion, Overflow
<1>5. \A w \in N : Bears(w)
  <2>1. Bears(Plain(e, e + 4, "question"))
    BY DEF Bears, Plain
  <2> HIDE DEF labels, e
  <2>2. \A w \in NameWritten(labels, at, src.compress) : Bears(w)
    BY <1>1, <1>2, <1>3, NameBears
  <2> QED
    BY <2>1, <2>2
<1> HIDE DEF N
<1> QED
  BY <1>4, <1>5, BorneGrows

LEMMA OwnerBears ==
  ASSUME Acceptable, WInv, Borne, PackOwner, pk' # "overflow"
  PROVE  Borne'
<1> DEFINE rr == src.records[rec + 1]
           N == NameWritten(rr.owner, at, src.compress)
<1>1. /\ pk = "rr" /\ src \in Messages /\ rec \in Nat /\ rec < Len(src.records)
      /\ at \in Nat /\ Laid /\ Pointable
  BY DEF PackOwner, WInv, Source
<1>2. rr \in ToSet(src.records) /\ rr.owner \in Seq(Label) /\ src.compress \in BOOLEAN
  <2>1. Len(src.records) \in Nat
    BY <1>1, LensFacts
  <2>2. rec + 1 \in 1 .. Len(src.records)
    BY <1>1, <2>1
  <2>3. rr \in ToSet(src.records) /\ src.compress \in BOOLEAN
    BY <1>1, <2>2, MessageFacts
  <2> QED
    BY <1>1, <2>3, RecordFacts
<1>3. Short(rr.owner)
  BY <1>1, <1>2 DEF Acceptable
<1>4. pk' = "field" /\ fields' = Fields(rr) /\ written' = written \cup N
  BY DEF PackOwner, Overflow
<1>5. Fields(rr) \in Seq(Light)
  BY <1>1, <1>2, FieldsAreLight
<1>6. \A w \in N : Bears(w)
  <2> DEFINE labels == rr.owner
  <2> HIDE DEF labels
  <2>1. \A w \in NameWritten(labels, at, src.compress) : Bears(w)
    BY <1>1, <1>2, <1>3, NameBears DEF labels
  <2> QED
    BY <2>1 DEF labels
<1> HIDE DEF N
<1> QED
  BY <1>4, <1>5, <1>6, BorneGrows

LEMMA NameFieldBears ==
  ASSUME WInv, Borne, PackName, pk' # "overflow"
  PROVE  Borne'
<1> DEFINE labels == Head(fields)[2]
           compress == src.compress /\ Head(fields)[1] = "cname"
           N == NameWritten(labels, at, compress)
<1>1. /\ pk = "field" /\ fields # <<>> /\ Head(fields)[1] \in {"name", "cname"}
      /\ at \in Nat /\ Laid /\ Pointable
  BY DEF PackName, AtKind, WInv, Source
<1>2. labels \in Seq(Label) /\ compress \in BOOLEAN
  <2>1. Head(fields) \in Entry /\ src.compress \in BOOLEAN
    BY <1>1, HeadFacts
  <2> QED
    BY <1>1, <2>1, EntryCost
<1>3. Head(fields) \in Light /\ Tail(fields) \in Seq(Light)
  BY <1>1 DEF Borne
<1>4. Short(labels)
  BY <1>1, <1>3 DEF Light, Bearable
<1>5. written' = written \cup N /\ fields' = Tail(fields)
  BY DEF PackName, Overflow
<1>6. \A w \in N : Bears(w)
  <2> HIDE DEF labels, compress
  <2> QED
    BY <1>1, <1>2, <1>4, NameBears
<1> HIDE DEF N
<1> QED
  BY <1>3, <1>5, <1>6, BorneGrows

LEMMA RdlengthBears ==
  ASSUME Borne, PackRdlength
  PROVE  Borne'
<1> DEFINE num == at - (OwnerEnd + 10)
           type == src.records[rec].type
           fixed == [Plain(OwnerEnd, OwnerEnd + 10, "fixed") EXCEPT !.num = num, !.type = type]
           whole == Plain(begin, at, "record")
<1>1. pk' = "rr" /\ written' = written \cup {fixed, whole}
  BY DEF PackRdlength
<1>2. fixed.kind = "fixed"
  <2> DEFINE a == OwnerEnd
             b == OwnerEnd + 10
             l == <<>>
  <2> HIDE DEF a, b, num, type
  <2>1. [Plain(a, b, "fixed") EXCEPT !.num = num, !.type = type]
          = [at |-> a, end |-> b, kind |-> "fixed", counts |-> l, labels |-> l, num |-> num,
             type |-> type]
    BY FixedIs, ZenonT(30) DEF l
  <2> DEFINE f == [Plain(a, b, "fixed") EXCEPT !.num = num, !.type = type]
  <2> HIDE DEF l
  <2>2. f.kind = "fixed"
    BY <2>1
  <2>3. fixed = f
    BY DEF a, b
  <2> HIDE DEF f, fixed
  <2> QED
    BY <2>2, <2>3
<1>3. whole.kind = "record"
  BY DEF Plain
<1> HIDE DEF fixed, whole
<1> DEFINE N == {fixed, whole}
<1>4. \A w \in N : Bears(w)
  BY <1>2, <1>3 DEF Bears
<1>5. written' = written \cup N /\ pk' # "field"
  BY <1>1
<1> HIDE DEF N
<1> QED
  BY <1>4, <1>5, BorneGrows

LEMMA WriterBears ==
  ASSUME Acceptable, WInv, Borne, PackNext
  PROVE  Borne'
<1>1. CASE PackHeader \/ PackData \/ PackRdlength
  BY <1>1, HeaderBears, DataBears, RdlengthBears
<1>2. ASSUME written' = written, pk' # "field"
      PROVE  Borne'
  BY <1>2 DEF Borne, Bears
<1>3. CASE PackDataFails \/ RdlengthRefused \/ Packed
  BY <1>2, <1>3 DEF PackDataFails, RdlengthRefused, Packed
<1>4. CASE PackQuestion \/ PackOwner \/ PackName
  <2>1. CASE pk' = "overflow"
    <3>1. PackName => pk = "field"
      BY DEF PackName, AtKind
    <3>2. written' = written
      BY <1>4, <2>1, <3>1 DEF PackQuestion, PackOwner, PackName, Overflow
    <3> QED
      BY <1>2, <2>1, <3>2
  <2>2. CASE pk' # "overflow"
    BY <1>4, <2>2, QuestionBears, OwnerBears, NameFieldBears
  <2> QED
    BY <2>1, <2>2
<1> QED
  BY <1>1, <1>3, <1>4 DEF PackNext

LEMMA BorneStays ==
  ASSUME Borne, UNCHANGED packVars
  PROVE  Borne'
  BY DEF Borne, Bears, packVars

-----------------------------------------------------------------------------
(* Where a message may have been cut and still be taken, nothing is cut.   *)
LEMMA QuestionEnds ==
  ASSUME NEW R, NEW F, Ready(R, F), NEW q \in Fresh({"question"})
  PROVE  /\ q.end = q.at + 4 /\ \E n \in Names(12) : n.end = q.at
         /\ q.at \in Nat /\ 12 < q.at
<1>1. PICK v \in written, n \in Names(12) :
        Fresh({"question"}) = {v} /\ v.at = n.end /\ v.end = n.end + 4
  BY DEF Ready, Placed, Questioned
<1>2. q = v
  BY <1>1
<1>3. n \in written /\ n.at = 12 /\ n.kind = "name"
  BY DEF Names
<1>4. n.at < n.end
  BY <1>3, ReadyIs, KindsApart DEF Filled
<1>5. v.at \in Nat
  BY ReadyIs
<1> QED
  BY <1>1, <1>2, <1>3, <1>4, <1>5

LEMMA RecordIsFilled ==
  ASSUME NEW R, NEW F, Ready(R, F), NEW r \in Fresh({"record"})
  PROVE  r \in written /\ r.kind = "record" /\ r.at \in Nat /\ r.end \in Nat /\ r.at < r.end /\ 12 <= r.at
<1>1. r \in written /\ r.kind = "record"
  BY DEF Fresh
<1>2. r.at < r.end
  BY <1>1, ReadyIs, KindsApart DEF Filled
<1>3. 12 <= r.at
  BY <1>1 DEF Ready, Placed, InOrder
<1> QED
  BY <1>1, <1>2, <1>3, ReadyIs

LEMMA BoundaryIs ==
  ASSUME NEW R, NEW F, Ready(R, F), received \in Boundaries
  PROVE  \/ \E s \in Fresh({"record"}) : s.end = received
         \/ \E q \in Fresh({"question"}) : received \in {q.at, q.at + 2, q.at + 3, q.at + 4}
  BY DEF Boundaries

LEMMA BoundaryAbove ==
  ASSUME NEW R, NEW F, Ready(R, F), received \in Boundaries
  PROVE  12 < received
<1>1. CASE \E s \in Fresh({"record"}) : s.end = received
  <2>1. PICK s \in Fresh({"record"}) : s.end = received
    BY <1>1
  <2>2. s.at \in Nat /\ s.end \in Nat /\ s.at < s.end /\ 12 <= s.at
    BY RecordIsFilled
  <2> QED
    BY <2>1, <2>2
<1>2. CASE \E q \in Fresh({"question"}) : received \in {q.at, q.at + 2, q.at + 3, q.at + 4}
  <2>1. PICK q \in Fresh({"question"}) : received \in {q.at, q.at + 2, q.at + 3, q.at + 4}
    BY <1>2
  <2>2. q.at \in Nat /\ 12 < q.at
    BY QuestionEnds
  <2> QED
    BY <2>1, <2>2
<1> QED
  BY <1>1, <1>2, BoundaryIs

LEMMA RecordUncut ==
  ASSUME NEW R, NEW F, Ready(R, F), received \in Boundaries, NEW r \in Fresh({"record"}),
         r.at < received
  PROVE  r.end <= received
<1>1. r.at \in Nat /\ r.end \in Nat /\ received \in Nat
  BY RecordIsFilled, ReadyIs
<1>2. CASE \E s \in Fresh({"record"}) : s.end = received
  <2>1. PICK s \in Fresh({"record"}) : s.end = received
    BY <1>2
  <2>2. s.at \in Nat /\ s.at < s.end
    BY RecordIsFilled
  <2>3. r # s => Abreast(r, s)
    BY DEF Ready, Placed, Separate
  <2> QED
    BY <1>1, <2>1, <2>2, <2>3 DEF Abreast
<1>3. CASE \E q \in Fresh({"question"}) : received \in {q.at, q.at + 2, q.at + 3, q.at + 4}
  <2>1. PICK q \in Fresh({"question"}) : received \in {q.at, q.at + 2, q.at + 3, q.at + 4}
    BY <1>3
  <2>2. q.end <= r.at
    BY DEF Ready, Placed, Separate
  <2>3. q.end = q.at + 4 /\ q.at \in Nat
    BY QuestionEnds
  <2> QED
    BY <1>1, <2>1, <2>2, <2>3
<1> QED
  BY <1>2, <1>3, BoundaryIs

LEMMA NameUncut ==
  ASSUME NEW R, NEW F, Ready(R, F), received \in Boundaries, NEW w \in written, w.kind = "name",
         w.at < received
  PROVE  w.end <= received
<1>1. w.at \in Nat /\ w.end \in Nat /\ w.end <= at /\ received \in Nat /\ at \in Nat
  BY ReadyIs
<1>2. \A x \in written : Whole(x.kind) /\ w # x => Abreast(w, x)
  BY DEF Ready, Placed, InOrder, Judged
<1>3. Whole("name") /\ Whole("question")
  BY DEF Whole, NameItems
<1>4. CASE \E s \in Fresh({"record"}) : s.end = received
  <2>1. PICK s \in Fresh({"record"}) : s.end = received
    BY <1>4
  <2>2. Stands(s.end)
    <3>1. s \in written /\ s.kind = "record"
      BY RecordIsFilled
    <3>2. Reached(s.end)
      BY <3>1 DEF Ready, Chained
    <3> QED
      BY <3>2, ReadyIs
  <2>3. CASE received = at
    BY <1>1, <2>3
  <2>4. CASE Owned(received)
    <3>1. PICK r \in written : r.kind = "record" /\ r.at = received
      BY <2>4 DEF Owned
    <3>2. Framed(written, F, r)
      BY <3>1 DEF Ready, Lays
    <3>3. PICK n \in written : n.kind = "name" /\ n.at = received
      BY <3>1, <3>2 DEF Framed
    <3>4. w # n
      BY <1>1, <3>3
    <3>5. Abreast(w, n) /\ n.at < n.end /\ n.end \in Nat
      BY <1>2, <1>3, <3>3, <3>4, ReadyIs, KindsApart DEF Filled
    <3> QED
      BY <1>1, <3>3, <3>5 DEF Abreast
  <2> QED
    BY <2>1, <2>2, <2>3, <2>4 DEF Stands
<1>5. CASE \E q \in Fresh({"question"}) : received \in {q.at, q.at + 2, q.at + 3, q.at + 4}
  <2>1. PICK q \in Fresh({"question"}) : received \in {q.at, q.at + 2, q.at + 3, q.at + 4}
    BY <1>5
  <2>2. PICK n \in Names(12) : n.end = q.at
    BY QuestionEnds
  <2>3. q.end = q.at + 4 /\ q.at \in Nat /\ 12 < q.at
    BY QuestionEnds
  <2>4. n \in written /\ n.kind = "name" /\ n.at = 12 /\ q \in written /\ q.kind = "question"
    BY DEF Names, Fresh
  <2>5. w # n => Abreast(w, n)
    BY <1>2, <1>3, <2>4
  <2>6. Abreast(w, q)
    BY <1>2, <1>3, <2>4
  <2>7. CASE received = q.at
    <3>1. w = n => w.end = received
      BY <2>2, <2>7
    <3>2. w # n => w.end <= received
      BY <1>1, <2>2, <2>3, <2>4, <2>5, <2>7 DEF Abreast
    <3> QED
      BY <1>1, <3>1, <3>2
  <2>8. CASE received # q.at
    <3>1. received \in {q.at + 2, q.at + 3, q.at + 4}
      BY <2>1, <2>8
    <3> QED
      BY <1>1, <2>3, <2>6, <3>1 DEF Abreast
  <2> QED
    BY <2>7, <2>8
<1> QED
  BY <1>4, <1>5, BoundaryIs

LEMMA DataUncut ==
  ASSUME NEW R, NEW F, Ready(R, F), received \in Boundaries, InData(F), InRecord
  PROVE  lim = end /\ end <= received /\ ~Broken
<1>1. PICK b \in Nat : Within(F, b)
  BY DEF InData
<1>2. PICK r \in written : r.kind = "record" /\ r.at = b /\ r.end = end
  BY <1>1 DEF Within, Ends
<1>3. b < off /\ off \in Nat /\ lim \in Nat /\ end \in Nat /\ received \in Nat
  BY <1>1, ReadyIs DEF Within
<1>4. off <= lim /\ lim <= received
  BY DEF Ready, IInv, Limits, InRecord
<1>5. end <= received
  <2>1. r \in Fresh({"record"}) /\ r.at < received
    BY <1>2, <1>3, <1>4 DEF Fresh
  <2> QED
    BY <1>2, <2>1, RecordUncut
<1>6. lim = Least(end, received)
  BY DEF InData
<1> QED
  BY <1>3, <1>5, <1>6 DEF Least, Broken
-----------------------------------------------------------------------------
(* Then nothing is refused but a name that is too deep, and an option that *)
(* was cut or is not read.                                                 *)
LEMMA HeaderTaken ==
  ASSUME NEW R, NEW F, Ready(R, F), received \in Boundaries, HeaderRefused
  PROVE  FALSE
<1>1. 12 < received /\ received \in Nat
  BY BoundaryAbove, ReadyIs
<1> QED
  BY <1>1 DEF HeaderRefused

(* The name that is being read is there to its end.                        *)
LEMMA NameIsWhole ==
  ASSUME NEW R, NEW F, Ready(R, F), Reads(R, F), received \in Boundaries, up = "name"
  PROVE  \E w \in Names(off), s \in Seq(Label), e, d \in Nat :
           /\ Spells4(R, w, s, e, d) /\ w.end <= lim /\ w.end <= received
           /\ pos < e /\ e <= lim /\ pos < received
<1>1. InName(R, F)
  BY DEF Reads
<1>2. off \in Nat /\ lim \in Nat /\ received \in Nat /\ off <= lim /\ lim <= received
  BY ReadyIs DEF Ready, IInv, Limits
<1>3. purpose = "field" => ~Broken /\ InData(F) /\ lim = end /\ todo # <<>> /\ Head(todo) \in Named
  <2> SUFFICES ASSUME purpose = "field"
               PROVE  ~Broken /\ InData(F) /\ lim = end /\ todo # <<>> /\ Head(todo) \in Named
    OBVIOUS
  <2>1. InData(F) /\ Head(todo) \in Named /\ InRecord
    BY <1>1 DEF InName, InRecord
  <2>2. todo # <<>>
    BY DEF Ready, IInv, Place
  <2> QED
    BY <2>1, <2>2, DataUncut
<1>4. off < lim /\ Spelling(R)
  BY <1>1, <1>3 DEF InName
<1>5. PICK w \in Names(off), s \in Seq(Label), e \in Nat, d \in Nat : Spells4(R, w, s, e, d)
  BY <1>4 DEF Spelling
<1>6. w \in written /\ w.kind = "name" /\ w.at = off /\ w.end \in Nat
  BY <1>5, ReadyIs DEF Names
<1>7. w.end <= received
  BY <1>2, <1>4, <1>6, NameUncut
<1>8. w.end <= lim
  <2>1. CASE purpose # "field"
    <3>1. lim = received
      BY <2>1 DEF Ready, IInv, Limits, InRecord
    <3> QED
      BY <1>7, <3>1
  <2>2. CASE purpose = "field"
    <3>1. PICK x \in written : x.at = off /\ x.kind = Written(Head(todo)) /\ x.end <= end
      BY <1>3, <1>4, <2>2, FieldStands
    <3>2. x.kind = "name"
      BY <1>3, <2>2, <3>1, WrittenKinds
    <3>3. x = w
      BY <1>6, <3>1, <3>2, ReadyIs DEF Unique
    <3> QED
      BY <1>3, <2>2, <3>1, <3>3
  <2> QED
    BY <2>1, <2>2
<1>9. <<pos, s, e, d>> \in R /\ e <= w.end
  BY <1>5 DEF Spells4
<1>10. pos < e /\ pos \in Nat
  BY <1>9 DEF Ready, Spells, SpellsIn, IInv, UnpackTypeOK
<1>11. e <= lim /\ pos < received
  BY <1>2, <1>6, <1>8, <1>9, <1>10
<1> QED
  BY <1>5, <1>7, <1>8, <1>10, <1>11

LEMMA PointerIs ==
  ASSUME NEW R, NEW F, Ready(R, F), NEW p, NEW s, NEW e, NEW d, <<p, s, e, d>> \in R, p < received
  PROVE  \A w \in Found(p, {"pointer"}) :
           /\ e = p + 2
           /\ \E f, c \in Nat : f <= p /\ d = c + 1 /\ <<w.num, s, f, c>> \in R
<1> SUFFICES ASSUME NEW w \in Found(p, {"pointer"})
             PROVE  e = p + 2 /\ \E f, c \in Nat : f <= p /\ d = c + 1 /\ <<w.num, s, f, c>> \in R
  OBVIOUS
<1>1. w \in written /\ w.at = p /\ w.kind = "pointer"
  BY ReadyIs DEF Found
<1>2. \A x \in written : x.at = p /\ x.kind \in {"root", "label", "pointer"} => x = w
  BY <1>1, ReadyIs, KindsApart DEF Unique, NameItems
<1>3. Spelt(written, R, p, s, e, d)
  BY DEF Ready, Spells, SpellsIn
<1>4. \E x \in written : /\ x.at = p /\ x.kind \in {"root", "label", "pointer"}
                        /\ \/ x.kind # "pointer"
                           \/ /\ e = p + 2
                              /\ \E f, c \in Nat : f <= p /\ d = c + 1 /\ <<x.num, s, f, c>> \in R
  BY <1>3 DEF Spelt
<1> QED
  BY <1>1, <1>2, <1>4

LEMMA NameTaken ==
  ASSUME NEW R, NEW F, Ready(R, F), Reads(R, F), Borne, received \in Boundaries, ~TooDeep, NameRefused
  PROVE  FALSE
<1>1. up = "name"
  BY DEF NameRefused
<1>2. PICK w \in Names(off), s \in Seq(Label), e \in Nat, d \in Nat :
        /\ Spells4(R, w, s, e, d) /\ w.end <= lim /\ w.end <= received
        /\ pos < e /\ e <= lim /\ pos < received
  BY <1>1, NameIsWhole
<1>3. <<pos, s, e, d>> \in R /\ heard \o s = w.labels /\ ptr + d = w.num
  BY <1>2 DEF Spells4
<1>4. w \in written /\ w.kind = "name" /\ w.num \in Nat
  BY ReadyIs DEF Names
<1>5. pos \in Nat /\ ptr \in Nat /\ octets \in Nat /\ lim \in Nat /\ MaxPointers \in Nat /\ MaxName \in Nat
      /\ heard \in Seq(Label)
  BY LayoutRead DEF Ready, IInv, UnpackTypeOK
<1>6. /\ ~Blank(pos)
      /\ Found(pos, {"root"}) # {} => s = <<>>
      /\ \A x \in Found(pos, {"label"}) : <<x.end, Tail(s), e, d>> \in R
      /\ \A x \in Found(pos, {"pointer"}) : e = pos + 2 /\ \E c \in Nat : d = c + 1
  <2>1. <<pos, s, e, d>> \in R /\ pos < received
    BY <1>2, <1>3
  <2>2. ~Blank(pos) /\ (Found(pos, {"root"}) # {} => s = <<>>)
    BY <2>1, SpellingIs
  <2>3. \A x \in Found(pos, {"label"}) : <<x.end, Tail(s), e, d>> \in R
    BY <2>1, SpellingIs
  <2>4. \A x \in Found(pos, {"pointer"}) :
          /\ e = pos + 2
          /\ \E f, c \in Nat : f <= pos /\ d = c + 1 /\ <<x.num, s, f, c>> \in R
    BY <2>1, PointerIs
  <2>5. \A x \in Found(pos, {"pointer"}) : e = pos + 2 /\ \E c \in Nat : d = c + 1
    BY <2>4
  <2> QED
    BY <2>2, <2>3, <2>5
<1>7. ~(pos >= lim)
  BY <1>2, <1>5
<1>8. ASSUME NEW g \in LabelEnds(pos), g > lim
      PROVE  FALSE
  <2>1. PICK x \in Found(pos, {"label"}) : g = x.end
    BY <1>6, <1>8 DEF LabelEnds
  <2>2. <<g, Tail(s), e, d>> \in R
    BY <1>6, <2>1
  <2>3. g < e /\ g \in Nat
    BY <2>2 DEF Ready, Spells, SpellsIn
  <2> QED
    BY <1>2, <1>5, <1>8, <2>3
<1>9. ASSUME Targets(pos) # {}, pos + 2 > lim \/ ptr = MaxPointers
      PROVE  FALSE
  <2>1. PICK x \in Found(pos, {"pointer"}) : TRUE
    BY <1>6, <1>9 DEF Targets
  <2>2. PICK c \in Nat : e = pos + 2 /\ d = c + 1
    BY <1>6, <2>1
  <2>3. ptr = MaxPointers
    BY <1>2, <1>5, <1>9, <2>2
  <2>4. w.num > MaxPointers
    BY <1>3, <1>4, <1>5, <2>2, <2>3
  <2> QED
    BY <1>2, <1>4, <2>4 DEF TooDeep, Fresh
<1>10. ASSUME Root(pos), octets = MaxName
       PROVE  FALSE
  <2>1. s = <<>>
    BY <1>6, <1>10 DEF Root
  <2>2. heard = w.labels
    BY <1>3, <1>5, <2>1, ConcatEmptySeq
  <2>3. 2 * Len(w.labels) < MaxName
    BY <1>4 DEF Borne, Bears, Short
  <2>4. octets <= 2 * Len(heard)
    BY <1>1 DEF Reads, InName
  <2>5. PICK k : k = Len(heard)
    OBVIOUS
  <2>6. k \in Nat /\ 2 * k < MaxName /\ octets <= 2 * k
    BY <1>5, <2>2, <2>3, <2>4, <2>5
  <2> QED
    BY <1>5, <1>10, <2>6
<1> QED
  BY <1>6, <1>7, <1>8, <1>9, <1>10 DEF NameRefused

LEMMA QuestionTaken ==
  ASSUME NEW R, NEW F, Ready(R, F), Reads(R, F), received \in Boundaries, QuestionRefused
  PROVE  FALSE
<1>1. up = "question" /\ off + 1 = received /\ off \in Nat
  BY ReadyIs DEF QuestionRefused
<1>2. Expected
  BY <1>1 DEF Reads
<1>3. PICK n \in Names(12) : off = n.end
  BY <1>1 DEF Reads
<1>4. PICK q \in written : Fresh({"question"}) = {q} /\ q.at = n.end /\ q.end = n.end + 4
  BY <1>2, <1>3, QuestionIs
<1>5. CASE \E s \in Fresh({"record"}) : s.end = received
  <2>1. PICK s \in Fresh({"record"}) : s.end = received
    BY <1>5
  <2>2. s.at \in Nat /\ s.at < s.end
    BY RecordIsFilled
  <2>3. q.end <= s.at
    BY <1>4 DEF Ready, Placed, Separate
  <2> QED
    BY <1>1, <1>3, <1>4, <2>1, <2>2, <2>3
<1>6. CASE \E x \in Fresh({"question"}) : received \in {x.at, x.at + 2, x.at + 3, x.at + 4}
  <2>1. received \in {off, off + 2, off + 3, off + 4}
    BY <1>3, <1>4, <1>6
  <2> QED
    BY <1>1, <2>1
<1> QED
  BY <1>5, <1>6, BoundaryIs

LEMMA FixedTaken ==
  ASSUME NEW R, NEW F, Ready(R, F), Reads(R, F), received \in Boundaries, FixedRefused
  PROVE  FALSE
<1>1. up = "fixed" /\ off + 10 > received /\ off \in Nat /\ received \in Nat
  BY ReadyIs DEF FixedRefused
<1>2. off <= received
  BY <1>1, ReadyIs DEF Ready, IInv, Limits, InRecord
<1>3. PICK n \in written : n.kind = "name" /\ Owned(n.at) /\ off = n.end
  BY <1>1 DEF Reads
<1>4. PICK r \in written : r.kind = "record" /\ r.at = n.at
  BY <1>3 DEF Owned
<1>5. Framed(written, F, r)
  BY <1>4 DEF Ready, Lays
<1>6. PICK m \in written, f \in written : m.kind = "name" /\ m.at = r.at /\ m.end + 10 + f.num = r.end
  BY <1>5 DEF Framed
<1>7. m = n
  BY <1>3, <1>4, <1>6, ReadyIs DEF Unique
<1>8. f.num \in Nat /\ n.at \in Nat
  BY ReadyIs
<1>9. n.at < n.end
  BY <1>3, ReadyIs, KindsApart DEF Filled
<1>10. r.at < received
  BY <1>1, <1>2, <1>3, <1>4, <1>8, <1>9
<1>11. r.end <= received
  BY <1>4, <1>10, RecordUncut DEF Fresh
<1> QED
  BY <1>1, <1>3, <1>6, <1>7, <1>8, <1>11

LEMMA RecordTaken ==
  ASSUME NEW R, NEW F, Ready(R, F), Reads(R, F), received \in Boundaries, RecordRefused
  PROVE  FALSE
<1>1. up = "field" /\ todo = <<>> /\ off # end
  BY DEF RecordRefused
<1>2. InData(F) /\ InRecord
  BY <1>1 DEF Reads, InRecord
<1>3. ~Broken
  BY <1>2, DataUncut
<1>4. PICK b \in Nat : Within(F, b)
  BY <1>2 DEF InData
<1>5. <<off, todo, b>> \in F
  BY <1>1, <1>3, <1>4 DEF Within
<1> QED
  BY <1>1, <1>4, <1>5, FieldFollows

LEMMA FieldTaken ==
  ASSUME NEW R, NEW F, Ready(R, F), Reads(R, F), Borne, Fit, received \in Boundaries, ~Unsound,
         FieldRefused
  PROVE  FALSE
<1>1. up = "field" /\ todo # <<>> /\ Head(todo) \in Kind
  BY DEF FieldRefused, AtField
<1>2. InData(F) /\ InRecord
  BY <1>1 DEF Reads, InRecord
<1>3. lim = end /\ end <= received /\ ~Broken /\ lim \in Nat /\ end \in Nat /\ off \in Nat
  BY <1>2, DataUncut, ReadyIs
<1>4. /\ Head(todo) \in Kind \ Named /\ ~NoPiece
      /\ \/ \E e \in FieldEnds(Head(todo)) : e > lim
         \/ Head(todo) \in {"nsec", "opt"} /\ Found(off, {Head(todo)}) = {}
         \/ Head(todo) = "opt" /\ ~Legible
  <2>1. ~(end > lim)
    BY <1>3
  <2> QED
    BY <1>1, <2>1 DEF FieldRefused
<1>5. content \subseteq written /\ received \in Nat
  BY ReadyIs
<1>6. ASSUME NEW w \in content, w.at = off, w.kind = "opt", w.end <= end
      PROVE  Legible
  <2>1. w \in Fresh({"opt"}) /\ w.end \in Nat
    BY <1>5, <1>6, ReadyIs DEF Fresh
  <2>2. w.end <= received
    BY <1>3, <1>5, <1>6, <2>1
  <2>3. w.num = Sound
    BY <2>1, <2>2 DEF Unsound
  <2>4. w.end - w.at >= 4 + OptionLeast[w.type]
    BY <1>5, <1>6, <2>3 DEF Borne, Bears
  <2>5. \A x \in Found(off, {"opt"}) : x = w
    <3> TAKE x \in Found(off, {"opt"})
    <3>1. x \in written /\ w \in written /\ x.at = w.at /\ x.kind = w.kind
      BY <1>5, <1>6 DEF Found
    <3> QED
      BY <3>1, ReadyIs DEF Unique
  <2> QED
    BY <2>3, <2>4, <2>5 DEF Legible
<1>7. ASSUME NEW b \in Nat, Within(F, b), NEW w \in content, w.at = off,
             w.kind = Written(Head(todo)), <<w.end, After(todo), b>> \in F, w.end <= end
      PROVE  FALSE
  <2>1. \A e \in FieldEnds(Head(todo)) : e = w.end \/ e = lim
    BY <1>2, <1>1, <1>4, <1>7, FieldEndIs
  <2>2. w.end \in Nat
    BY <1>7, ReadyIs
  <2>3. ~(\E e \in FieldEnds(Head(todo)) : e > lim)
    BY <1>3, <1>7, <2>1, <2>2
  <2>4. ASSUME Head(todo) \in {"nsec", "opt"}
        PROVE  Found(off, {Head(todo)}) # {}
    <3>1. Written(Head(todo)) = Head(todo)
      BY <2>4 DEF Written
    <3> QED
      BY <1>7, <3>1 DEF Found
  <2>5. Head(todo) = "opt" => Legible
    <3>1. Written("opt") = "opt"
      BY DEF Written
    <3> QED
      BY <1>6, <1>7, <3>1
  <2> QED
    BY <1>4, <2>3, <2>4, <2>5
<1>8. CASE off < lim
  BY <1>1, <1>2, <1>7, <1>8, FieldStands
<1>9. CASE ~(off < lim)
  <2>1. off = lim /\ off = end
    BY <1>2, <1>3, <1>9, AtLimit
  <2>2. Head(todo) \notin Absent
    <3>1. Head(todo) \notin Repeated \ {"opt"}
      BY <1>4, <2>1 DEF NoPiece
    <3>2. Head(todo) \notin Unending
      BY <1>1, <1>2, <2>1 DEF Fit
    <3> QED
      BY <3>1, <3>2 DEF Absent, Unending
  <2>3. PICK b \in Nat : Within(F, b)
    BY <1>2 DEF InData
  <2>4. PICK w \in written : /\ w.at = end /\ w.kind = Written(Head(todo)) /\ w.end = end
                             /\ <<end, After(todo), b>> \in F
    BY <1>1, <1>2, <1>3, <2>1, <2>2, <2>3, NoneLeft
  <2>5. w \in content
    BY <1>3, <2>4 DEF Ready
  <2>6. w.at = off /\ w.end <= end /\ <<w.end, After(todo), b>> \in F
    BY <1>3, <2>1, <2>4
  <2> QED
    BY <1>7, <2>3, <2>4, <2>5, <2>6
<1> QED
  BY <1>8, <1>9
-----------------------------------------------------------------------------
(* When no section is left, all that came has been read, up to where a     *)
(* message may be cut.                                                     *)
Verdict ==
  /\ result = "accepted" <=> received \in Boundaries /\ ~tc /\ ~TooDeep /\ ~Unsound
  /\ result = "accepted" =>
       /\ asked = Cardinality({w \in Fresh({"question"}) : w.at <= received})
       /\ taken = Cardinality({w \in Fresh({"record"}) : w.end <= received})

LEMMA AllRead ==
  ASSUME NEW R, NEW F, Ready(R, F), Reads(R, F), Tells, up = "next", counts = <<>>
  PROVE  off = received /\ (Stands(off) \/ Clipped(off)) /\ Passed(off) = taken
<1>1. Len(counts) # 4
  OBVIOUS
<1>2. Stands(off) \/ Clipped(off)
  BY <1>1 DEF Reads, AtItem
<1>3. /\ off \in Nat /\ received \in Nat /\ at \in Nat /\ off <= received /\ received <= at
  BY ReadyIs DEF Ready, IInv, Limits, InRecord
<1>4. Passed(off) = taken /\ taken \in Nat
  BY DEF Tells, Numbers, InRecord, Ready, IInv, UnpackTypeOK
<1>5. ASSUME off < received
      PROVE  FALSE
  <2>1. Owing(counts) = 0
    BY <1>1, SumEmpty DEF Owing
  <2>2. Owing(counts) + taken = Len(src.records)
    BY <1>5 DEF Tells, Owed
  <2>3. Passed(off) = Len(src.records)
    BY <1>4, <2>1, <2>2
  <2>4. Earlier(off) = Fresh({"record"})
    BY <2>3, PassedIs
  <2>5. off # at /\ ~Clipped(off)
    BY <1>3, <1>5 DEF Clipped
  <2>6. PICK r \in written : r.kind = "record" /\ r.at = off
    BY <1>2, <2>5 DEF Stands, Owned
  <2>7. r \in Earlier(off)
    BY <2>4, <2>6 DEF Fresh
  <2>8. r.at < off
    BY <2>7 DEF Earlier
  <2> QED
    BY <1>3, <2>6, <2>8
<1> QED
  BY <1>2, <1>3, <1>4, <1>5

LEMMA CutWell ==
  ASSUME NEW R, NEW F, Ready(R, F), 12 < received, Stands(received) \/ Clipped(received)
  PROVE  received \in Boundaries
<1>1. CASE Clipped(received)
  BY <1>1 DEF Clipped, Boundaries
<1>2. CASE Stands(received)
  <2>1. Behind(at) /\ \A r \in Fresh({"record"}) : Behind(r.at)
    BY DEF Ready, Placed, Linked
  <2>2. Owned(received) => \E r \in Fresh({"record"}) : r.at = received
    BY DEF Owned, Fresh
  <2>3. Behind(received)
    BY <1>2, <2>1, <2>2 DEF Stands
  <2>4. received # 12
    BY ReadyIs
  <2>5. PICK w \in Fresh({"question", "record"}) : w.end = received
    BY <2>3, <2>4 DEF Behind
  <2>6. CASE w.kind = "record"
    BY <2>5, <2>6 DEF Fresh, Boundaries
  <2>7. CASE w.kind = "question"
    <3>1. w \in Fresh({"question"})
      BY <2>7 DEF Fresh
    <3>2. w.end = w.at + 4
      BY <3>1, QuestionEnds
    <3> QED
      BY <2>5, <3>1, <3>2 DEF Boundaries
  <2> QED
    BY <2>6, <2>7 DEF Fresh
<1> QED
  BY <1>1, <1>2

(* And what it has counted is what came whole.                             *)
LEMMA CountedWhole ==
  ASSUME NEW R, NEW F, Ready(R, F), Reads(R, F), Tells, up = "next", counts = <<>>
  PROVE  /\ received \in Boundaries /\ ~TooDeep /\ ~Unsound
         /\ asked = Cardinality({w \in Fresh({"question"}) : w.at <= received})
         /\ taken = Cardinality({w \in Fresh({"record"}) : w.end <= received})
<1>1. off = received /\ (Stands(off) \/ Clipped(off)) /\ Passed(off) = taken
  BY AllRead
<1>2. received \in Boundaries
  <2>1. 12 < received
    BY DEF Reads
  <2> QED
    BY <1>1, <2>1, CutWell
<1>3. ~TooDeep
  <2> SUFFICES ASSUME NEW w \in Fresh({"name"}), w.num > MaxPointers, w.end <= received
               PROVE  FALSE
    BY DEF TooDeep
  <2>1. w.num <= MaxPointers
    BY <1>1 DEF Tells, Shallow, Passable, Judged, Fresh
  <2>2. w.num \in Nat /\ MaxPointers \in Nat
    BY ReadyIs, LayoutRead DEF Fresh
  <2> QED
    BY <2>1, <2>2
<1>4. asked = Cardinality({w \in Fresh({"question"}) : w.at <= received})
  <2>1. Len(counts) # 4
    OBVIOUS
  <2>2. asked = Cardinality(Fresh({"question"})) /\ \A q \in Fresh({"question"}) : q.at <= received
    BY <2>1 DEF Tells, Queried
  <2>3. {w \in Fresh({"question"}) : w.at <= received} = Fresh({"question"})
    BY <2>2
  <2> QED
    BY <2>2, <2>3
<1>5. taken = Cardinality({w \in Fresh({"record"}) : w.end <= received})
  <2>1. \A r \in Fresh({"record"}) : r.at < received => r.end <= received
    BY <1>2, RecordUncut
  <2>2. \A r \in Fresh({"record"}) : r.end <= received => r.at < received
    BY RecordIsFilled, ReadyIs
  <2>3. Earlier(received) = {w \in Fresh({"record"}) : w.end <= received}
    BY <2>1, <2>2 DEF Earlier
  <2> QED
    BY <1>1, <2>3 DEF Passed
<1>6. ~Unsound
  BY <1>1 DEF Tells, Shallow, Passable, Judged, Fresh, Unsound
<1> QED
  BY <1>2, <1>3, <1>4, <1>5, <1>6

LEMMA VerdictIs ==
  ASSUME UNCHANGED packVars, UNCHANGED <<received, tc, asked, taken>>,
         \/ (result' = "refused" /\ ~(received \in Boundaries /\ ~tc /\ ~TooDeep /\ ~Unsound))
         \/ /\ result' = "accepted" /\ received \in Boundaries /\ ~tc /\ ~TooDeep /\ ~Unsound
            /\ asked = Cardinality({w \in Fresh({"question"}) : w.at <= received})
            /\ taken = Cardinality({w \in Fresh({"record"}) : w.end <= received})
  PROVE  Verdict'
<1>1. written' = written
  BY DEF packVars
<1>2. Boundaries' = Boundaries /\ TooDeep' = TooDeep /\ Unsound' = Unsound
  BY <1>1 DEF Boundaries, TooDeep, Unsound, Fresh
<1>3. /\ {w \in Fresh({"question"}) : w.at <= received}' = {w \in Fresh({"question"}) : w.at <= received}
      /\ {w \in Fresh({"record"}) : w.end <= received}' = {w \in Fresh({"record"}) : w.end <= received}
  BY <1>1 DEF Fresh
<1>4. (result' = "accepted") <=> (received' \in Boundaries' /\ ~tc' /\ ~TooDeep' /\ ~Unsound')
  BY <1>2
<1>5. result' = "accepted" =>
        /\ asked' = Cardinality({w \in Fresh({"question"}) : w.at <= received}')
        /\ taken' = Cardinality({w \in Fresh({"record"}) : w.end <= received}')
  BY <1>3
<1> QED
  BY <1>4, <1>5 DEF Verdict

(* The last step of the reader in a message of the writer's.               *)
LEMMA ReaderDecides ==
  ASSUME NEW R, NEW F, Ready(R, F), up = "header" \/ (Reads(R, F) /\ Tells /\ Fit), Borne,
         UnpackNext, up' = "done", UNCHANGED packVars
  PROVE  Verdict'
<1>1. \/ HeaderRefused \/ Finish \/ NameRefused \/ QuestionRefused \/ FixedRefused
      \/ FieldRefused \/ RecordRefused
  <2>1. up = "name" => purpose \in {"question", "fixed", "field"}
    BY DEF Ready, IInv, Place, UnpackTypeOK
  <2> QED
    BY <2>1 DEF UnpackNext, UnpackName, UnpackField, Header, SectionEnds, NextItem, StartName,
       NameLabel, NamePointer, NameEnds, Question, Fixed, Field, FieldSkipped, FieldName, Record,
       AtField
<1>2. CASE Finish
  <2>1. /\ up = "next" /\ counts = <<>> /\ UNCHANGED <<received, tc, asked, taken>>
        /\ result' = IF off = received /\ tc THEN "refused" ELSE "accepted"
    BY <1>2 DEF Finish, Stop, message, progress
  <2>2. Reads(R, F) /\ Tells
    BY <2>1
  <2>3. /\ received \in Boundaries /\ ~TooDeep /\ ~Unsound
        /\ asked = Cardinality({w \in Fresh({"question"}) : w.at <= received})
        /\ taken = Cardinality({w \in Fresh({"record"}) : w.end <= received})
    BY <2>1, <2>2, CountedWhole
  <2>4. off = received
    BY <2>1, <2>2, AllRead
  <2>5. (result' = "refused" /\ tc) \/ (result' = "accepted" /\ ~tc)
    BY <2>1, <2>4
  <2> QED
    BY <2>1, <2>3, <2>5, VerdictIs
<1>3. CASE ~Finish
  <2>1. up = "header" => HeaderRefused
    BY <1>1, <1>3 DEF NameRefused, QuestionRefused, FixedRefused, FieldRefused, RecordRefused, AtField
  <2>2. UNCHANGED <<received, tc, asked, taken>> /\ result' = "refused"
    BY <1>1, <1>3 DEF HeaderRefused, NameRefused, QuestionRefused, FixedRefused, FieldRefused,
       RecordRefused, Stop, message, progress
  <2>3. ~(received \in Boundaries /\ ~tc /\ ~TooDeep /\ ~Unsound)
    <3> SUFFICES ASSUME received \in Boundaries, ~TooDeep, ~Unsound
                 PROVE  FALSE
      OBVIOUS
    <3>1. CASE HeaderRefused
      BY <3>1, HeaderTaken
    <3>2. CASE ~HeaderRefused
      <4>1. Reads(R, F) /\ Fit
        BY <2>1, <3>2
      <4> QED
        BY <1>1, <1>3, <3>2, <4>1, NameTaken, QuestionTaken, FixedTaken, FieldTaken, RecordTaken
    <3> QED
      BY <3>1, <3>2
  <2> QED
    BY <2>2, <2>3, VerdictIs
<1> QED
  BY <1>2, <1>3

-----------------------------------------------------------------------------
(* Together, for the messages that the reader may take whole.              *)
Decided == Known /\ up = "done" => Verdict
DInv    == RInv /\ Borne /\ (Midway => Tells /\ Fit) /\ Decided

LEMMA DecisionStarts == Init => DInv
<1> SUFFICES ASSUME Init
             PROVE  DInv
  OBVIOUS
<1>1. ~Known /\ Borne
  BY DEF Init, PackInit, UnpackInit, Known, Borne
<1> QED
  BY <1>1, ReadBackStarts DEF DInv, Midway, Decided

(* A step of the reader.                                                   *)
LEMMA ReaderStepDecides ==
  ASSUME LayoutsAgree, Acceptable, DInv, RInv', UnpackNext, UNCHANGED packVars
  PROVE  (Midway' => Tells' /\ Fit') /\ Decided'
<1>1. up \notin {"idle", "done"} /\ up' # "idle" /\ UNCHANGED <<received, content>>
  BY ReaderGoesOn DEF DInv, RInv, message
<1>2. CASE ~Known
  <2>1. ~Known'
    BY <1>1, <1>2 DEF Known
  <2> QED
    BY <2>1 DEF Midway, Decided
<1>3. CASE Known
  <2>1. PICK R, F : Ready(R, F) /\ (up = "header" \/ Reads(R, F))
    BY <1>1, <1>3, ReadyForIt DEF DInv
  <2>2. up # "header" => Tells /\ Fit
    BY <1>1, <1>3 DEF DInv, Midway
  <2>3. up = "header" \/ (Reads(R, F) /\ Tells /\ Fit)
    BY <2>1, <2>2
  <2>4. CASE up' = "done"
    <3>1. Verdict'
      BY <2>1, <2>3, <2>4, ReaderDecides DEF DInv
    <3> QED
      BY <2>4, <3>1 DEF Midway, Decided
  <2>5. CASE up' # "done"
    <3>1. Reads(R, F)'
      BY <2>1, <2>5, ReadsOn
    <3>2. Tells'
      BY <2>1, <2>3, <2>5, <3>1, ReaderTells
    <3>3. Fit'
      BY <2>1, <2>3, <2>5, ReaderFits DEF RInv
    <3> QED
      BY <2>5, <3>2, <3>3 DEF Decided
  <2> QED
    BY <2>4, <2>5
<1> QED
  BY <1>2, <1>3

LEMMA DecisionRests ==
  ASSUME DInv, UNCHANGED <<packVars, unpackVars>>
  PROVE  (Midway' => Tells' /\ Fit') /\ Decided'
<1>1. /\ UNCHANGED packVars
      /\ UNCHANGED <<received, content, tc, up, off, lim, end, todo, purpose, counts, asked, taken, result>>
  BY DEF unpackVars, message, record, name, progress
<1>2. UNCHANGED <<src, written>>
  BY DEF packVars
<1>3. Fresh({"question"})' = Fresh({"question"}) /\ Fresh({"record"})' = Fresh({"record"})
      /\ Fresh({"name"})' = Fresh({"name"})
  BY <1>2 DEF Fresh
<1>4. Owed => Owed'
  BY <1>1, <1>2 DEF Owed, Owing
<1>5. Numbers => Numbers'
  <2>1. PICK o : o = off'
    OBVIOUS
  <2>2. Passed(off)' = Passed(o)
    BY <1>1, <2>1, PassedStays
  <2> QED
    BY <1>1, <2>1, <2>2 DEF Numbers, InRecord
<1>6. Queried => Queried'
  BY <1>1, QueriedStays
<1>7. Shallow => Shallow'
  BY <1>1, ShallowStays
<1>8. Fit => Fit'
  BY <1>1, FitStays DEF InRecord
<1>9. Midway' = Midway
  BY <1>1 DEF Midway, Known
<1>10. Midway' => Tells' /\ Fit'
  BY <1>4, <1>5, <1>6, <1>7, <1>8, <1>9 DEF DInv, Tells
<1>11. Boundaries' = Boundaries /\ TooDeep' = TooDeep /\ Unsound' = Unsound
  BY <1>1, <1>2 DEF Boundaries, TooDeep, Unsound, Fresh
<1>12. /\ {w \in Fresh({"question"}) : w.at <= received}' = {w \in Fresh({"question"}) : w.at <= received}
       /\ {w \in Fresh({"record"}) : w.end <= received}' = {w \in Fresh({"record"}) : w.end <= received}
  BY <1>1, <1>3
<1>13. Verdict => Verdict'
  BY <1>1, <1>11, <1>12 DEF Verdict
<1>14. Decided'
  BY <1>1, <1>13 DEF DInv, Decided, Known
<1> QED
  BY <1>10, <1>14

LEMMA DecisionKeeps ==
  ASSUME LayoutsAgree, Acceptable, DInv, [Next]_<<packVars, unpackVars>>
  PROVE  DInv'
<1>1. RInv'
  BY ReadBackKeeps DEF DInv
<1>2. Borne'
  <2>1. WInv
    BY DEF DInv, RInv
  <2>2. PackNext \/ UNCHANGED packVars
    BY <2>1, WireSteps
  <2> QED
    BY <2>1, <2>2, WriterBears, BorneStays DEF DInv
<1>3. CASE up = "idle" /\ PackNext /\ UNCHANGED unpackVars
  <2>1. ~Known' /\ up' = "idle"
    BY <1>3 DEF DInv, RInv, Came, Known, unpackVars, message
  <2> QED
    BY <1>1, <1>2, <2>1 DEF DInv, Midway, Decided
<1>4. CASE Send \/ Stranger
  <2>1. up' = "header"
    BY <1>4 DEF Send, Stranger, Deliver
  <2> QED
    BY <1>1, <1>2, <2>1 DEF DInv, Midway, Decided
<1>5. CASE UnpackNext /\ UNCHANGED packVars
  BY <1>1, <1>2, <1>5, ReaderStepDecides DEF DInv
<1>6. CASE UNCHANGED <<packVars, unpackVars>>
  BY <1>1, <1>2, <1>6, DecisionRests DEF DInv
<1> QED
  BY <1>3, <1>4, <1>5, <1>6 DEF Next

(* A message is accepted exactly if it was cut where a record ends, or in  *)
(* its question but not after the first octet behind the name, is not      *)
(* marked as truncated, has no name that takes too many pointers and no    *)
(* option whose end the writer left out (msg_helpers.go:487) or that the   *)
(* reader does not read though it was written (edns.go:267, 276); and what *)
(* has been counted as read is what came whole: for any messages that the  *)
(* reader could take whole, any layout of the types that the two agree on, *)
(* any buffers and any limits.                                             *)
THEOREM PrefixesAccepted ==
  ASSUME LayoutsAgree, Acceptable
  PROVE  Spec => []AcceptsPrefixes
<1>1. Init => DInv
  BY DecisionStarts
<1>2. DInv /\ [Next]_<<packVars, unpackVars>> => DInv'
  BY DecisionKeeps
<1>3. DInv => AcceptsPrefixes
  BY DEF DInv, Decided, Verdict, AcceptsPrefixes
<1> QED
  BY <1>1, <1>2, <1>3, PTL DEF Spec
=============================================================================
