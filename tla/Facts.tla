-------------------------------- MODULE Facts --------------------------------
(***************************************************************************)
(* Facts on numbers and sequences that the proofs of this directory share. *)
(***************************************************************************)
EXTENDS Selection, SequencesExt, WellFoundedInduction, TLAPS

(* A non-empty set of naturals has a least element.                        *)
LEMMA LeastNatural ==
  ASSUME NEW T, T \subseteq Nat, T # {}
  PROVE  \E t \in T : \A u \in T : t <= u
<1> DEFINE R == {p \in Nat \X Nat : p[1] < p[2]}
<1>1. R = OpToRel(<, Nat)
  BY DEF OpToRel
<1>2. IsWellFoundedOn(R, Nat)
  BY <1>1, NatLessThanWellFounded
<1> HIDE DEF R
<1>3. PICK t \in T : \A u \in T : <<u, t>> \notin R
  BY <1>2, WFMin
<1>4. ASSUME NEW u \in T
      PROVE  t <= u
  <2>1. CASE u < t
    <3>1. <<u, t>> \in R
      BY <2>1 DEF R
    <3> QED
      BY <3>1, <1>3
  <2> QED
    BY <2>1, t \in Nat, u \in Nat
<1> QED
  BY <1>4

(* Reversing keeps the elements and turns their order round.               *)
LEMMA ReverseFacts ==
  ASSUME NEW T, NEW q \in Seq(T)
  PROVE  /\ Reverse(q) \in Seq(T)
         /\ Len(Reverse(q)) = Len(q)
         /\ \A i \in 1 .. Len(q) : Reverse(q)[i] = q[Len(q) - i + 1]
  BY DEF Reverse

(* A suffix, element by element.                                           *)
LEMMA SuffixFacts ==
  ASSUME NEW T, NEW s \in Seq(T), NEW t \in Seq(T)
  PROVE  IsSuffix(s, t) <=>
           /\ Len(s) <= Len(t)
           /\ \A i \in 1 .. Len(s) : s[i] = t[Len(t) - Len(s) + i]
<1> DEFINE m == Len(s)
           n == Len(t)
           r == Reverse(s)
           u == Reverse(t)
<1>1. /\ m \in Nat /\ n \in Nat
      /\ r \in Seq(T) /\ Len(r) = m /\ \A i \in 1 .. m : r[i] = s[m - i + 1]
      /\ u \in Seq(T) /\ Len(u) = n /\ \A i \in 1 .. n : u[i] = t[n - i + 1]
  BY ReverseFacts
<1>2. IsSuffix(s, t) <=> m <= n /\ SubSeq(r, 1, m) = SubSeq(u, 1, m)
  BY <1>1 DEF IsSuffix, IsPrefix
<1> HIDE DEF m, n, r, u
<1>3. ASSUME m <= n
      PROVE  SubSeq(r, 1, m) = SubSeq(u, 1, m) <=> \A i \in 1 .. m : r[i] = u[i]
  <2>1. /\ SubSeq(r, 1, m) = [i \in 1 .. m |-> r[i]]
        /\ SubSeq(u, 1, m) = [i \in 1 .. m |-> u[i]]
    BY <1>1, <1>3
  <2> QED
    BY <2>1
<1>4. ASSUME m <= n
      PROVE  (\A i \in 1 .. m : r[i] = u[i]) <=> \A i \in 1 .. m : s[i] = t[n - m + i]
  <2>1. ASSUME \A i \in 1 .. m : r[i] = u[i], NEW i \in 1 .. m
        PROVE  s[i] = t[n - m + i]
    <3>1. m - i + 1 \in 1 .. m /\ m - i + 1 \in 1 .. n
      BY <1>1, <1>4
    <3>2. m - (m - i + 1) + 1 = i /\ n - (m - i + 1) + 1 = n - m + i
      BY <1>1
    <3> QED
      BY <1>1, <2>1, <3>1, <3>2
  <2>2. ASSUME \A i \in 1 .. m : s[i] = t[n - m + i], NEW i \in 1 .. m
        PROVE  r[i] = u[i]
    <3>1. m - i + 1 \in 1 .. m /\ i \in 1 .. n
      BY <1>1, <1>4
    <3>2. n - m + (m - i + 1) = n - i + 1
      BY <1>1
    <3>3. s[m - i + 1] = t[n - m + (m - i + 1)]
      BY <2>2, <3>1
    <3>4. r[i] = s[m - i + 1] /\ u[i] = t[n - i + 1]
      BY <1>1, <3>1
    <3> QED
      BY <3>2, <3>3, <3>4
  <2> QED
    BY <2>1, <2>2
<1>5. IsSuffix(s, t) <=> m <= n /\ \A i \in 1 .. m : s[i] = t[n - m + i]
  <2>1. CASE m <= n
    BY <1>2, <1>3, <1>4, <2>1, Zenon
  <2>2. CASE ~(m <= n)
    BY <1>2, <2>2, Zenon
  <2> QED
    BY <2>1, <2>2
<1> QED
  BY <1>5, Zenon DEF m, n

-----------------------------------------------------------------------------
(* Selections: what Only computes, step by step.                           *)

Selects(f, n, s, S) ==
  f = [i \in 0 .. n |->
         IF i = 0 THEN <<>>
         ELSE IF s[i] \in S THEN Append(f[i - 1], s[i]) ELSE f[i - 1]]

(* The function exists: a least length for which it does not would be one  *)
(* more than a length for which it does.                                   *)
LEMMA SelectsExists ==
  ASSUME NEW s, NEW S, NEW n \in Nat
  PROVE  \E f : Selects(f, n, s, S)
<1> DEFINE T == {k \in Nat : ~ \E f : Selects(f, k, s, S)}
<1>1. ASSUME T # {}
      PROVE  FALSE
  <2>1. PICK k \in T : \A j \in T : k <= j
    BY <1>1, LeastNatural
  <2>2. k \in Nat /\ ~ \E f : Selects(f, k, s, S)
    OBVIOUS
  <2>3. CASE k = 0
    <3> DEFINE g == [i \in 0 .. 0 |-> <<>>]
    <3>1. Selects(g, 0, s, S)
      BY DEF Selects
    <3> QED
      BY <2>2, <2>3, <3>1
  <2>4. CASE k # 0
    <3>1. k - 1 \in Nat /\ k - 1 \notin T
      BY <2>1, <2>2, <2>4
    <3>2. PICK f : Selects(f, k - 1, s, S)
      BY <3>1
    <3> DEFINE next(i) == IF s[i] \in S THEN Append(f[i - 1], s[i]) ELSE f[i - 1]
               g == [i \in 0 .. k |-> IF i = k THEN next(k) ELSE f[i]]
    <3>3. \A i \in 0 .. k - 1 : f[i] = IF i = 0 THEN <<>> ELSE next(i)
      BY <3>1, <3>2 DEF Selects
    <3>4. \A i \in 1 .. k : g[i - 1] = f[i - 1]
      BY <2>2
    <3>5. \A i \in 0 .. k : g[i] = IF i = 0 THEN <<>> ELSE next(i)
      BY <2>2, <2>4, <3>3
    <3>6. g = [i \in 0 .. k |->
                 IF i = 0 THEN <<>>
                 ELSE IF s[i] \in S THEN Append(g[i - 1], s[i]) ELSE g[i - 1]]
      <4> HIDE DEF next
      <4>1. g = [i \in 0 .. k |-> IF i = 0 THEN <<>> ELSE next(i)]
        BY <3>5
      <4> HIDE DEF g
      <4>2. \A i \in 1 .. k : next(i) = IF s[i] \in S THEN Append(g[i - 1], s[i])
                                                     ELSE g[i - 1]
        BY <3>4 DEF next
      <4>3. ASSUME NEW i \in 0 .. k
            PROVE  (IF i = 0 THEN <<>> ELSE next(i))
                     = (IF i = 0 THEN <<>>
                        ELSE IF s[i] \in S THEN Append(g[i - 1], s[i]) ELSE g[i - 1])
        <5>1. CASE i = 0
          BY <5>1
        <5>2. CASE i # 0
          <6>1. i \in 1 .. k
            BY <2>2, <5>2
          <6> QED
            BY <4>2, <5>2, <6>1, Zenon
        <5> QED
          BY <5>1, <5>2
      <4> QED
        BY <4>1, <4>3, Zenon
    <3>7. Selects(g, k, s, S)
      BY <3>6 DEF Selects
    <3> QED
      BY <2>2, <3>7
  <2> QED
    BY <2>3, <2>4
<1> QED
  BY <1>1

(* The steps that it takes.                                                *)
Steps(f, n, s, S) ==
  /\ f[0] = <<>>
  /\ \A i \in 1 .. n : f[i] = IF s[i] \in S THEN Append(f[i - 1], s[i]) ELSE f[i - 1]

LEMMA SelectsSteps ==
  ASSUME NEW f, NEW n \in Nat, NEW s, NEW S, Selects(f, n, s, S)
  PROVE  Steps(f, n, s, S)
<1>1. \A i \in 0 .. n :
        f[i] = IF i = 0 THEN <<>>
               ELSE IF s[i] \in S THEN Append(f[i - 1], s[i]) ELSE f[i - 1]
  BY Zenon DEF Selects
<1>2. \A i \in 1 .. n : i \in 0 .. n /\ i # 0
  OBVIOUS
<1>3. 0 \in 0 .. n
  OBVIOUS
<1> QED
  BY <1>1, <1>2, <1>3, Zenon DEF Steps

(* Whatever takes the steps of the selection ends where the selection does. *)
LEMMA OnlyOf ==
  ASSUME NEW s, NEW S, NEW n \in Nat, Len(s) = n, NEW f, Steps(f, n, s, S)
  PROVE  Only(s, S) = f[n]
<1> DEFINE g == CHOOSE h : Selects(h, n, s, S)
<1>1. Selects(g, n, s, S)
  BY SelectsExists
<1>2. Only(s, S) = g[n]
  BY Zenon DEF Only, Selects
<1> HIDE DEF g
<1>3. Steps(g, n, s, S)
  BY <1>1, SelectsSteps
<1> DEFINE T == {k \in 0 .. n : g[k] # f[k]}
<1>4. ASSUME T # {}
      PROVE  FALSE
  <2>0. T \subseteq Nat
    OBVIOUS
  <2>1. PICK k \in T : \A j \in T : k <= j
    BY <1>4, <2>0, LeastNatural
  <2>2. CASE k = 0
    BY <1>3, <2>2 DEF Steps
  <2>3. CASE k # 0
    <3>1. k - 1 \in 0 .. n /\ k - 1 \notin T /\ k \in 1 .. n
      BY <2>1, <2>3
    <3> QED
      BY <1>3, <3>1 DEF Steps
  <2> QED
    BY <2>2, <2>3
<1> QED
  BY <1>2, <1>4

LEMMA OnlySteps ==
  ASSUME NEW s, NEW S, NEW n \in Nat, Len(s) = n
  PROVE  \E f : Steps(f, n, s, S) /\ Only(s, S) = f[n]
<1>1. PICK f : Selects(f, n, s, S)
  BY SelectsExists
<1>2. Steps(f, n, s, S)
  BY <1>1, SelectsSteps
<1> QED
  BY <1>2, OnlyOf

(* What is selected is selected from the sequence.                         *)
LEMMA OnlyTyped ==
  ASSUME NEW X, NEW s \in Seq(X), NEW S
  PROVE  Only(s, S) \in Seq(X \cap S)
<1> DEFINE n == Len(s)
<1>1. n \in Nat /\ Len(s) = n /\ \A i \in 1 .. n : s[i] \in X
  OBVIOUS
<1> HIDE DEF n
<1>2. PICK f : Steps(f, n, s, S) /\ Only(s, S) = f[n]
  BY <1>1, OnlySteps
<1> DEFINE T == {k \in 0 .. n : f[k] \notin Seq(X \cap S)}
<1>3. ASSUME T # {}
      PROVE  FALSE
  <2>0. T \subseteq Nat
    BY <1>1
  <2>1. PICK k \in T : \A j \in T : k <= j
    BY <1>3, <2>0, LeastNatural
  <2>2. CASE k = 0
    <3>1. <<>> \in Seq(X \cap S)
      OBVIOUS
    <3> QED
      BY <1>2, <2>2, <3>1 DEF Steps
  <2>3. CASE k # 0
    <3>1. k - 1 \in 0 .. n /\ k - 1 \notin T /\ k \in 1 .. n
      BY <1>1, <2>1, <2>3
    <3>2. f[k - 1] \in Seq(X \cap S)
      BY <3>1
    <3>3. f[k] \in Seq(X \cap S)
      <4>1. CASE s[k] \in S
        <5>1. s[k] \in X \cap S /\ f[k] = Append(f[k - 1], s[k])
          BY <1>1, <1>2, <3>1, <4>1 DEF Steps
        <5> QED
          BY <3>2, <5>1
      <4>2. CASE s[k] \notin S
        BY <1>2, <3>1, <3>2, <4>2 DEF Steps
      <4> QED
        BY <4>1, <4>2
    <3> QED
      BY <3>3
  <2> QED
    BY <2>2, <2>3
<1> QED
  BY <1>1, <1>2, <1>3

(* What a sequence ends in counts for nothing if it is not selected.       *)
LEMMA OnlyPrefix ==
  ASSUME NEW X, NEW s \in Seq(X), NEW S, NEW t \in Seq(X), Len(t) <= Len(s),
         \A i \in 1 .. Len(t) : t[i] = s[i],
         \A i \in Len(t) + 1 .. Len(s) : s[i] \notin S
  PROVE  Only(s, S) = Only(t, S)
<1> DEFINE n == Len(s)
           m == Len(t)
<1>1. n \in Nat /\ m \in Nat /\ m <= n
  OBVIOUS
<1>2. /\ \A i \in 1 .. m : t[i] = s[i]
      /\ \A i \in m + 1 .. n : s[i] \notin S
  OBVIOUS
<1>3. Len(s) = n /\ Len(t) = m
  OBVIOUS
<1> HIDE DEF n, m
<1>4. PICK f : Steps(f, n, s, S) /\ Only(s, S) = f[n]
  BY <1>1, <1>3, OnlySteps
<1>5. Only(t, S) = f[m]
  <2>1. Steps(f, m, t, S)
    BY <1>1, <1>2, <1>4 DEF Steps
  <2> QED
    BY <1>1, <1>3, <1>4, <2>1, OnlyOf
<1> DEFINE T == {k \in m .. n : f[k] # f[m]}
<1>6. ASSUME T # {}
      PROVE  FALSE
  <2>0. T \subseteq Nat
    BY <1>1
  <2>1. PICK k \in T : \A j \in T : k <= j
    BY <1>6, <2>0, LeastNatural
  <2>2. k # m
    OBVIOUS
  <2>3. k - 1 \in m .. n /\ k - 1 \notin T /\ k \in 1 .. n /\ k \in m + 1 .. n
    BY <1>1, <2>1, <2>2
  <2> QED
    BY <1>2, <1>4, <2>3 DEF Steps
<1> QED
  BY <1>1, <1>4, <1>5, <1>6
=============================================================================
