---------------------------- MODULE ParseIPsProof ----------------------------
(***************************************************************************)
(* The scan of parseIPs over every set of well-formed texts: its slices    *)
(* stay in the text, its addresses come out in order and apart, it cannot  *)
(* go round for ever, it panics on the first labels it is said to, of a    *)
(* text made of parts it hands out the parts that are addresses, it misses *)
(* no address that shows, and it does what AddressScan promises.           *)
(***************************************************************************)
EXTENDS PartText, Facts

(***************************************************************************)
(* The inductive invariant.  Around the two indexes: what is still looked  *)
(* at lies in the text and ends where a label ends, and no address that    *)
(* ends there starts further right than the left index.                    *)
(***************************************************************************)
Bounds ==
  /\ leftIndex < 0 => rightIndex <= 0
  /\ leftIndex >= 0 => leftIndex < rightIndex

AtLabels ==
  /\ rightIndex = -1 \/ LabelEnd(name, rightIndex)
  /\ leftIndex >= 0 => leftIndex = rightIndex - 1 \/ LabelStart(name, leftIndex)

Tried == \A s \in name.ips : s[2] = rightIndex => s[1] <= leftIndex

(* Until the result is reversed, the responses run from right to left, all *)
(* of them right of what is still looked at.                               *)
Taken ==
  pc # "done" =>
    /\ \A i \in 1 .. Len(responses) : rightIndex < responses[i][1]
    /\ \A i, j \in 1 .. Len(responses) :
         i < j => responses[j][2] < responses[i][1]

IInv == TypeOK /\ Bounds /\ AtLabels /\ Tried /\ Taken /\ LeftToRight

(* No address right of the right index is left without a response.         *)
Covered ==
  pc # "done" =>
    \A s \in name.ips :
      s[2] > rightIndex => \E i \in 1 .. Len(responses) : Overlap(s, responses[i])

-----------------------------------------------------------------------------
(* Facts on numbers and sequences.                                         *)

(* A set of naturals bounded above has a greatest element.                 *)
LEMMA MaxBelow ==
  ASSUME NEW S, S \subseteq Nat, NEW n \in Int, {i \in S : i < n} # {}
  PROVE  /\ Max({i \in S : i < n}) \in S
         /\ Max({i \in S : i < n}) < n
         /\ \A j \in S : j < n => j <= Max({i \in S : i < n})
<1> DEFINE B == {i \in S : i < n}
           T == {n - i : i \in B}
<1>1. T \subseteq Nat
  <2> SUFFICES ASSUME NEW i \in B PROVE n - i \in Nat
    OBVIOUS
  <2> QED
    BY i < n, i \in Nat
<1>2. T # {}
  OBVIOUS
<1> HIDE DEF T
<1>3. PICK t \in T : \A u \in T : t <= u
  BY <1>1, <1>2, LeastNatural
<1> USE DEF T
<1>4. PICK b \in B : t = n - b
  OBVIOUS
<1>5. \A i \in B : b >= i
  BY <1>3, <1>4
<1>6. Max(B) \in B /\ \A i \in B : Max(B) >= i
  BY <1>5 DEF Max
<1> QED
  BY <1>6

(* What strings.LastIndex returns for text[0:n].                           *)
LEMMA LastIndexFacts ==
  ASSUME NEW S, S \subseteq Nat, NEW n \in Int
  PROVE  /\ LastIndex(S, n) \in Int /\ LastIndex(S, n) >= -1
         /\ LastIndex(S, n) < 0 => \A i \in S : ~(i < n)
         /\ LastIndex(S, n) >= 0 => /\ LastIndex(S, n) \in S
                                    /\ LastIndex(S, n) < n
                                    /\ \A i \in S : i < n => i <= LastIndex(S, n)
<1>1. CASE {i \in S : i < n} = {}
  BY <1>1 DEF LastIndex
<1>2. CASE {i \in S : i < n} # {}
  <2>1. LastIndex(S, n) = Max({i \in S : i < n})
    BY <1>2 DEF LastIndex
  <2>2. /\ LastIndex(S, n) \in S
        /\ LastIndex(S, n) < n
        /\ \A i \in S : i < n => i <= LastIndex(S, n)
    BY <1>2, <2>1, MaxBelow
  <2>3. LastIndex(S, n) \in Nat
    BY <2>2
  <2> QED
    BY <2>2, <2>3
<1> QED
  BY <1>1, <1>2

LEMMA ReverseAppend ==
  ASSUME NEW T, NEW q \in Seq(T), NEW e \in T
  PROVE  Reverse(Append(q, e)) = <<e>> \o Reverse(q)
<1>1. /\ Append(q, e) \in Seq(T)
      /\ Len(Append(q, e)) = Len(q) + 1
      /\ \A i \in 1 .. Len(q) + 1 :
           Append(q, e)[i] = IF i = Len(q) + 1 THEN e ELSE q[i]
  OBVIOUS
<1>2. Reverse(q) \in Seq(T) /\ Len(Reverse(q)) = Len(q)
  BY ReverseFacts
<1>3. /\ <<e>> \o Reverse(q) \in Seq(T)
      /\ Len(<<e>> \o Reverse(q)) = Len(q) + 1
      /\ \A i \in 1 .. Len(q) + 1 :
           (<<e>> \o Reverse(q))[i] = IF i = 1 THEN e ELSE Reverse(q)[i - 1]
  BY <1>2
<1>4. /\ Reverse(Append(q, e)) \in Seq(T)
      /\ Len(Reverse(Append(q, e))) = Len(q) + 1
  BY <1>1, ReverseFacts
<1>5. ASSUME NEW i \in 1 .. Len(q) + 1
      PROVE  Reverse(Append(q, e))[i] = (<<e>> \o Reverse(q))[i]
  <2>1. Reverse(Append(q, e))[i] = Append(q, e)[Len(q) + 1 - i + 1]
    BY <1>1 DEF Reverse
  <2>2. CASE i = 1
    BY <2>1, <2>2, <1>1, <1>3
  <2>3. CASE i # 1
    <3>1. i - 1 \in 1 .. Len(q) /\ Len(q) + 1 - i + 1 \in 1 .. Len(q)
      BY <2>3
    <3>2. Reverse(q)[i - 1] = q[Len(q) - (i - 1) + 1]
      BY <3>1, ReverseFacts
    <3> QED
      BY <2>1, <2>3, <3>1, <3>2, <1>1, <1>3
  <2> QED
    BY <2>2, <2>3
<1> QED
  BY <1>3, <1>4, <1>5

-----------------------------------------------------------------------------
(* Facts on the texts and the indexes.                                     *)

(* Dots, label ends and addresses of a well-formed text are in its range.  *)
LEMMA TextFacts ==
  ASSUME TypeOK
  PROVE  /\ name.len \in Nat
         /\ name.dots \subseteq Nat /\ name.colons \subseteq Nat
         /\ \A d \in name.dots : 1 <= d /\ d <= name.len - 2
         /\ \A s \in name.ips : /\ s = <<s[1], s[2]>>
                               /\ s[1] \in Nat /\ s[2] \in Nat
                               /\ s[1] + 2 <= s[2] /\ s[2] <= name.len
         /\ leftIndex \in Int /\ rightIndex \in Int
  BY DEF TypeOK, WellFormed

(* The round that skips a label finds a dot to skip to.                    *)
LEMMA SkipFindsDot ==
  ASSUME IInv, SkipRight
  PROVE  /\ leftIndex = 0
         /\ rightIndex > 2
         /\ rightIndex' \in name.dots
         /\ rightIndex' < rightIndex - 1
         /\ \A d \in name.dots : d < rightIndex - 1 => d <= rightIndex'
         /\ leftIndex' = rightIndex' - 1
         /\ UNCHANGED <<name, responses, pc>>
<1>1. leftIndex = 0 /\ ~NoDotLeft
  BY TextFacts DEF SkipRight, CanJump, InLoop, IInv
<1> DEFINE d == LastIndex(name.dots, rightIndex - 1)
<1>2. name.dots \subseteq Nat /\ rightIndex - 1 \in Int
  BY TextFacts DEF IInv
<1>3. d \in name.dots /\ d < rightIndex - 1
      /\ \A e \in name.dots : e < rightIndex - 1 => e <= d
  <2>1. d \in Int /\ ~(d < 0)
    BY <1>1, <1>2, LastIndexFacts DEF NoDotLeft
  <2> QED
    BY <1>2, <2>1, LastIndexFacts
<1>4. rightIndex > 2
  BY <1>3, TextFacts DEF IInv
<1> QED
  BY <1>1, <1>3, <1>4 DEF SkipRight

(* The left index jumps to the start of a label.                           *)
LEMMA JumpFindsStart ==
  ASSUME IInv, JumpLeft
  PROVE  /\ 0 < leftIndex
         /\ leftIndex' \in Nat /\ leftIndex' < leftIndex
         /\ LabelStart(name, leftIndex')
         /\ \A d \in name.dots : d < leftIndex - 1 => d < leftIndex'
         /\ UNCHANGED <<name, rightIndex, responses, pc>>
<1> DEFINE d == LastIndex(name.dots, leftIndex - 1)
<1>1. 0 < leftIndex /\ leftIndex' = d + 1
  BY DEF JumpLeft
<1>2. name.dots \subseteq Nat /\ leftIndex \in Int /\ leftIndex - 1 \in Int
  BY TextFacts DEF IInv
<1>3. d \in Int /\ d >= -1
  BY <1>2, LastIndexFacts
<1> HIDE DEF d
<1>4. CASE d < 0
  <2>1. \A e \in name.dots : ~(e < leftIndex - 1)
    BY <1>2, <1>4, LastIndexFacts DEF d
  <2> QED
    BY <1>1, <1>2, <1>3, <1>4, <2>1 DEF JumpLeft, LabelStart
<1>5. CASE d >= 0
  <2>1. d \in name.dots /\ d < leftIndex - 1
        /\ \A e \in name.dots : e < leftIndex - 1 => e <= d
    BY <1>2, <1>5, LastIndexFacts DEF d
  <2> QED
    BY <1>1, <1>2, <1>3, <1>5, <2>1 DEF JumpLeft, LabelStart
<1> QED
  BY <1>3, <1>4, <1>5

(* An accepted slice is made of labels.                                    *)
LEMMA MatchTakesLabels ==
  ASSUME IInv, Match
  PROVE  /\ <<leftIndex, rightIndex>> \in name.ips
         /\ leftIndex \in Nat /\ leftIndex + 2 <= rightIndex
         /\ LabelStart(name, leftIndex)
         /\ responses' = Append(responses, <<leftIndex, rightIndex>>)
         /\ rightIndex' = leftIndex - 1 /\ leftIndex' = leftIndex - 2
         /\ UNCHANGED <<name, pc>> /\ pc = "scan"
<1>1. <<leftIndex, rightIndex>> \in name.ips
  BY DEF Match, Parses
<1>2. leftIndex \in Nat /\ leftIndex + 2 <= rightIndex
  BY <1>1, TextFacts DEF IInv
<1>3. LabelStart(name, leftIndex)
  BY <1>1 DEF IInv, TypeOK, WellFormed
<1>4. rightIndex' = leftIndex - 1 /\ leftIndex' = leftIndex - 2
  BY <1>2 DEF Match
<1> QED
  BY <1>1, <1>2, <1>3, <1>4 DEF Match, InLoop

(* Reversed, the responses stand from left to right.                       *)
LEMMA ReversedResponses ==
  ASSUME IInv, pc = "scan", responses' = Reverse(responses), UNCHANGED name
  PROVE  /\ responses' \in Seq(name.ips)
         /\ LeftToRight'
<1>1. responses \in Seq(name.ips)
  BY DEF IInv, TypeOK
<1>2. /\ responses' \in Seq(name.ips)
      /\ Len(responses') = Len(responses)
      /\ \A i \in 1 .. Len(responses) :
           responses'[i] = responses[Len(responses) - i + 1]
  BY <1>1, ReverseFacts
<1>3. ASSUME NEW i \in 1 .. Len(responses), NEW j \in 1 .. Len(responses), i < j
      PROVE  responses'[i][2] < responses'[j][1]
  <2>1. /\ Len(responses) - i + 1 \in 1 .. Len(responses)
        /\ Len(responses) - j + 1 \in 1 .. Len(responses)
        /\ Len(responses) - j + 1 < Len(responses) - i + 1
    BY <1>1, <1>3
  <2> QED
    BY <1>2, <2>1 DEF IInv, Taken
<1> QED
  BY <1>2, <1>3 DEF LeftToRight

-----------------------------------------------------------------------------
(* The invariant holds at first and is kept by each action.                *)

LEMMA InitInvariant == Init => IInv
<1> SUFFICES ASSUME Init PROVE IInv
  OBVIOUS
<1>1. WellFormed(name)
  BY NamesAssumption DEF Init
<1>2. TypeOK
  BY <1>1 DEF Init, TypeOK, WellFormed
<1>3. Tried
  BY <1>2, TextFacts DEF Init, Tried
<1>4. Bounds /\ AtLabels /\ Taken /\ LeftToRight
  BY <1>2, TextFacts DEF Init, Bounds, AtLabels, LabelEnd, Taken, LeftToRight
<1> QED
  BY <1>2, <1>3, <1>4 DEF IInv

LEMMA MatchInvariant ==
  ASSUME IInv, Match
  PROVE  IInv'
<1>1. /\ <<leftIndex, rightIndex>> \in name.ips
      /\ leftIndex \in Nat /\ leftIndex + 2 <= rightIndex
      /\ LabelStart(name, leftIndex)
      /\ responses' = Append(responses, <<leftIndex, rightIndex>>)
      /\ rightIndex' = leftIndex - 1 /\ leftIndex' = leftIndex - 2
      /\ UNCHANGED <<name, pc>> /\ pc = "scan"
  BY MatchTakesLabels
<1>2. TypeOK'
  BY <1>1, TextFacts DEF IInv, TypeOK
<1>3. Bounds'
  BY <1>1 DEF Bounds
<1>4. AtLabels'
  BY <1>1, TextFacts DEF AtLabels, LabelStart, LabelEnd, IInv
<1>5. Tried'
  BY <1>1, TextFacts DEF Tried, IInv
<1>6. Taken'
  <2> DEFINE n == Len(responses)
  <2>1. /\ responses \in Seq(name.ips)
        /\ n \in Nat /\ Len(responses') = n + 1
        /\ \A i \in 1 .. n : responses'[i] = responses[i]
        /\ responses'[n + 1] = <<leftIndex, rightIndex>>
    BY <1>1 DEF IInv, TypeOK
  <2>2. \A i \in 1 .. n : responses[i] \in name.ips /\ rightIndex < responses[i][1]
    BY <2>1, <1>1 DEF IInv, Taken
  <2>3. \A i \in 1 .. n : responses[i][1] \in Int
    BY <2>2, TextFacts DEF IInv
  <2>4. \A i \in 1 .. n + 1 : rightIndex' < responses'[i][1]
    <3>1. TAKE i \in 1 .. n + 1
    <3>2. CASE i \in 1 .. n
      <4>1. responses'[i] = responses[i]
        BY <2>1, <3>2
      <4>2. rightIndex < responses[i][1] /\ responses[i][1] \in Int
        BY <2>2, <2>3, <3>2
      <4>3. rightIndex \in Int
        BY TextFacts DEF IInv
      <4> QED
        BY <1>1, <4>1, <4>2, <4>3
    <3>3. CASE i = n + 1
      BY <1>1, <2>1, <3>3
    <3> QED
      BY <2>1, <3>2, <3>3
  <2>5. ASSUME NEW i \in 1 .. n + 1, NEW j \in 1 .. n + 1, i < j
        PROVE  responses'[j][2] < responses'[i][1]
    <3>1. i \in 1 .. n
      BY <2>1, <2>5
    <3>2. CASE j \in 1 .. n
      BY <1>1, <2>1, <2>5, <3>1, <3>2 DEF IInv, Taken
    <3>3. CASE j = n + 1
      BY <2>1, <2>2, <3>1, <3>3
    <3> QED
      BY <2>1, <3>2, <3>3
  <2> QED
    BY <2>1, <2>4, <2>5 DEF Taken
<1>7. LeftToRight'
  BY <1>1 DEF LeftToRight
<1> QED
  BY <1>2, <1>3, <1>4, <1>5, <1>6, <1>7 DEF IInv

LEMMA SkipRightInvariant ==
  ASSUME IInv, SkipRight
  PROVE  IInv'
<1>1. /\ leftIndex = 0 /\ rightIndex > 2
      /\ rightIndex' \in name.dots /\ rightIndex' < rightIndex - 1
      /\ leftIndex' = rightIndex' - 1
      /\ UNCHANGED <<name, responses, pc>>
  BY SkipFindsDot
<1>2. TypeOK'
  BY <1>1, TextFacts DEF IInv, TypeOK
<1>3. Bounds'
  BY <1>1, TextFacts DEF Bounds, IInv
<1>4. AtLabels'
  BY <1>1 DEF AtLabels, LabelEnd
<1>5. Tried'
  BY <1>1, TextFacts DEF Tried, IInv
<1>6. Taken'
  <2>1. responses \in Seq(name.ips)
    BY DEF IInv, TypeOK
  <2>2. \A i \in 1 .. Len(responses) : responses[i][1] \in Int
    BY <2>1, TextFacts DEF IInv
  <2> QED
    BY <1>1, <2>2, TextFacts DEF Taken, IInv
<1>7. LeftToRight'
  BY <1>1 DEF LeftToRight, SkipRight, CanJump, InLoop
<1> QED
  BY <1>2, <1>3, <1>4, <1>5, <1>6, <1>7 DEF IInv

LEMMA JumpLeftInvariant ==
  ASSUME IInv, JumpLeft
  PROVE  IInv'
<1>1. /\ 0 < leftIndex /\ leftIndex' \in Nat /\ leftIndex' < leftIndex
      /\ LabelStart(name, leftIndex')
      /\ \A d \in name.dots : d < leftIndex - 1 => d < leftIndex'
      /\ UNCHANGED <<name, rightIndex, responses, pc>>
  BY JumpFindsStart
<1>2. TypeOK'
  BY <1>1, TextFacts DEF IInv, TypeOK
<1>3. Bounds'
  BY <1>1, TextFacts DEF Bounds, IInv
<1>4. AtLabels'
  BY <1>1 DEF AtLabels, LabelEnd, IInv
<1>5. Tried'
  <2> SUFFICES ASSUME NEW s \in name.ips, s[2] = rightIndex
               PROVE  s[1] <= leftIndex'
    BY <1>1 DEF Tried
  <2>1. s = <<s[1], s[2]>> /\ s[1] \in Nat
    BY TextFacts DEF IInv
  <2>2. s[1] # leftIndex
    BY <2>1 DEF JumpLeft, CanJump, Parses
  <2>3. s[1] < leftIndex
    BY <2>1, <2>2, TextFacts DEF IInv, Tried
  <2>4. LabelStart(name, s[1])
    BY DEF IInv, TypeOK, WellFormed
  <2> QED
    BY <1>1, <2>1, <2>3, <2>4, TextFacts DEF LabelStart, IInv
<1>6. Taken' /\ LeftToRight'
  BY <1>1 DEF IInv, Taken, LeftToRight
<1> QED
  BY <1>2, <1>3, <1>4, <1>5, <1>6 DEF IInv

(* Leaving the loop moves no index, and nothing is found after it.         *)
LEMMA LeaveInvariant ==
  ASSUME IInv, Break \/ Exhausted
  PROVE  IInv'
<1>1. /\ pc = "scan" /\ pc' = "done" /\ responses' = Reverse(responses)
      /\ UNCHANGED <<name, leftIndex, rightIndex>>
  BY DEF Break, Exhausted, InLoop
<1>2. responses' \in Seq(name.ips) /\ LeftToRight'
  BY <1>1, ReversedResponses
<1> QED
  BY <1>1, <1>2 DEF IInv, TypeOK, Bounds, AtLabels, Tried, Taken

LEMMA NextInvariant == IInv /\ [Next]_vars => IInv'
<1> SUFFICES ASSUME IInv, [Next]_vars PROVE IInv'
  OBVIOUS
<1>1. CASE Match
  BY <1>1, MatchInvariant
<1>2. CASE SlicePanic
  BY <1>2 DEF SlicePanic, InLoop, IInv, TypeOK, Bounds, AtLabels, Tried, Taken,
              LeftToRight
<1>3. CASE Break
  BY <1>3, LeaveInvariant
<1>4. CASE SkipRight
  BY <1>4, SkipRightInvariant
<1>5. CASE JumpLeft
  BY <1>5, JumpLeftInvariant
<1>6. CASE Exhausted
  BY <1>6, LeaveInvariant
<1>7. CASE UNCHANGED vars
  BY <1>7 DEF vars, IInv, TypeOK, Bounds, AtLabels, Tried, Taken, LeftToRight
<1> QED
  BY <1>1, <1>2, <1>3, <1>4, <1>5, <1>6, <1>7 DEF Next

(* The scan keeps the invariant whatever the texts.                        *)
THEOREM Invariance == Spec => []IInv
  BY InitInvariant, NextInvariant, PTL DEF Spec

(* The scan's state keeps its shape (gyip.go:56-62).                       *)
THEOREM TypeCorrect == Spec => []TypeOK
<1>1. IInv => TypeOK
  BY DEF IInv
<1> QED
  BY <1>1, Invariance, PTL

(* The slices tried and searched lie in the text (gyip.go:66, 75, 82).     *)
THEOREM SlicesStayInText == Spec => []SlicesInText
<1>1. IInv => SlicesInText
  BY DEF IInv, Bounds, TypeOK, SlicesInText, InLoop
<1> QED
  BY <1>1, Invariance, PTL

(* What parseIPs returns stands from left to right and apart, whatever was *)
(* skipped on the way (gyip.go:50-53, README.md:119).                      *)
THEOREM AnswersLeftToRight == Spec => []LeftToRight
<1>1. IInv => LeftToRight
  BY DEF IInv
<1> QED
  BY <1>1, Invariance, PTL

(* At the start of the text a dot is left, so two labels at least are.     *)
LEMMA NoRoundIsIdle == IInv => NoIdleRound
<1> SUFFICES ASSUME IInv, CanJump, leftIndex <= 0 PROVE rightIndex > 2
  BY DEF NoIdleRound
<1>1. ~NoDotLeft
  BY TextFacts DEF CanJump, IInv
<1> DEFINE d == LastIndex(name.dots, rightIndex - 1)
<1>2. name.dots \subseteq Nat /\ rightIndex - 1 \in Int
  BY TextFacts DEF IInv
<1>3. d \in name.dots /\ d < rightIndex - 1
  <2>1. d \in Int /\ ~(d < 0)
    BY <1>1, <1>2, LastIndexFacts DEF NoDotLeft
  <2> QED
    BY <1>2, <2>1, LastIndexFacts
<1> QED
  BY <1>3, TextFacts DEF IInv

(* Each round leaves less text to look at, and none leaves all as it was   *)
(* (gyip.go:73-74, 81): with at most len + 2 values for each index, no text *)
(* is scanned for ever.                                                    *)
THEOREM RoundsShrink == Spec => EveryRoundShrinks
<1>1. IInv /\ [Next]_vars => [RoundShrinks]_vars
  <2> SUFFICES ASSUME IInv, Next PROVE RoundShrinks
    BY DEF vars, RoundShrinks
  <2>1. CASE Match
    BY <2>1, MatchTakesLabels, TextFacts DEF RoundShrinks, IInv
  <2>2. CASE SkipRight
    BY <2>2, SkipFindsDot, TextFacts DEF RoundShrinks, IInv
  <2>3. CASE JumpLeft
    BY <2>3, JumpFindsStart DEF RoundShrinks
  <2>4. CASE SlicePanic \/ Break \/ Exhausted
    BY <2>4 DEF SlicePanic, Break, Exhausted, RoundShrinks
  <2> QED
    BY <2>1, <2>2, <2>3, <2>4 DEF Next
<1> QED
  BY <1>1, NoRoundIsIdle, Invariance, PTL DEF Spec, EveryRoundShrinks

-----------------------------------------------------------------------------
(* No address is missed.                                                   *)

(* No label ends right before another ends.                                *)
LEMMA EndsApart ==
  ASSUME TypeOK, NEW e \in Int, LabelEnd(name, e)
  PROVE  e - 1 \notin name.dots
  BY TextFacts DEF TypeOK, WellFormed, LabelEnd

(* The round that skips a label: no address ends where it does.            *)
LEMMA SkipMissesNothing ==
  ASSUME IInv, SkipRight
  PROVE  /\ rightIndex - 1 \notin name.dots
         /\ \A s \in name.ips : s[2] > rightIndex' => s[2] > rightIndex
<1>1. /\ leftIndex = 0 /\ rightIndex > 2 /\ rightIndex' \in name.dots
      /\ \A d \in name.dots : d < rightIndex - 1 => d <= rightIndex'
  BY SkipFindsDot
<1>2. LabelEnd(name, rightIndex)
  BY <1>1 DEF IInv, AtLabels
<1>3. rightIndex - 1 \notin name.dots
  BY <1>2, EndsApart, TextFacts DEF IInv
<1>4. ASSUME NEW s \in name.ips, s[2] > rightIndex'
      PROVE  s[2] > rightIndex
  <2>1. s = <<s[1], s[2]>> /\ s[1] \in Nat /\ s[2] \in Nat /\ s[2] <= name.len
    BY TextFacts DEF IInv
  <2>2. s[2] # rightIndex
    <3>1. SUFFICES ASSUME s[2] = rightIndex PROVE FALSE
      OBVIOUS
    <3>2. s[1] = 0
      BY <1>1, <2>1, <3>1 DEF IInv, Tried
    <3> QED
      BY <1>1, <2>1, <3>1, <3>2 DEF SkipRight, CanJump, Parses
  <2>3. ~(s[2] < rightIndex)
    <3>1. SUFFICES ASSUME s[2] < rightIndex PROVE FALSE
      OBVIOUS
    <3>2. s[2] \in name.dots
      <4>1. LabelEnd(name, s[2])
        BY DEF IInv, TypeOK, WellFormed
      <4>2. rightIndex <= name.len
        BY TextFacts DEF IInv, TypeOK
      <4> QED
        BY <2>1, <3>1, <4>1, <4>2, TextFacts DEF LabelEnd, IInv
    <3>3. s[2] # rightIndex - 1
      BY <1>3, <3>2
    <3> QED
      BY <1>1, <1>4, <2>1, <3>1, <3>2, <3>3, TextFacts DEF IInv
  <2> QED
    BY <2>1, <2>2, <2>3, TextFacts DEF IInv
<1> QED
  BY <1>3, <1>4

(* When the loop is left, nothing that shows is left.                      *)
LEMMA NothingLeft ==
  ASSUME IInv, Break \/ Exhausted
  PROVE  /\ \A d \in name.dots : ~(d < rightIndex)
         /\ \A s \in name.ips : ColonShows(name, s) => s[2] > rightIndex
<1>1. CASE Exhausted
  <2>1. rightIndex <= 0
    BY <1>1 DEF Exhausted, IInv, Bounds
  <2> QED
    BY <2>1, TextFacts DEF IInv
<1>2. CASE Break
  <2>1. leftIndex > 0 /\ leftIndex < rightIndex
        /\ leftIndex \in Int /\ rightIndex \in Int
    BY <1>2, TextFacts DEF Break, InLoop, IInv, Bounds
  <2>2. \A d \in name.dots : ~(d < rightIndex - 1)
    <3>1. name.dots \subseteq Nat /\ rightIndex - 1 \in Int
      BY <2>1, TextFacts DEF IInv
    <3>2. LastIndex(name.dots, rightIndex - 1) < 0
      BY <1>2 DEF Break, NoDotLeft
    <3> QED
      BY <3>1, <3>2, LastIndexFacts
  <2>3. \A c \in name.colons : ~(c < leftIndex - 1)
    <3>1. name.colons \subseteq Nat /\ leftIndex - 1 \in Int
      BY <2>1, TextFacts DEF IInv
    <3>2. LastIndex(name.colons, leftIndex - 1) < 0
      BY <1>2 DEF Break, NoColonLeft
    <3> QED
      BY <3>1, <3>2, LastIndexFacts
  <2>4. rightIndex - 1 \notin name.dots
    BY <2>1, EndsApart, TextFacts DEF IInv, AtLabels
  <2>5. \A d \in name.dots : rightIndex <= d
    BY <2>1, <2>2, <2>4, TextFacts DEF IInv
  <2>6. leftIndex = rightIndex - 1
    BY <2>1, <2>5, TextFacts DEF IInv, AtLabels, LabelStart
  <2>7. ASSUME NEW s \in name.ips, ColonShows(name, s)
        PROVE  s[2] > rightIndex
    <3>1. s = <<s[1], s[2]>> /\ s[1] \in Nat /\ s[2] \in Nat
          /\ s[1] + 2 <= s[2] /\ s[2] <= name.len
      BY TextFacts DEF IInv
    <3>2. ~(s[2] < rightIndex)
      BY <2>1, <2>5, <3>1, TextFacts DEF IInv, TypeOK, WellFormed, LabelEnd
    <3>3. s[2] # rightIndex
      <4>1. SUFFICES ASSUME s[2] = rightIndex PROVE FALSE
        OBVIOUS
      <4>2. LabelStart(name, s[1])
        BY DEF IInv, TypeOK, WellFormed
      <4>3. s[1] = 0
        BY <2>1, <2>5, <3>1, <4>1, <4>2, TextFacts DEF LabelStart, IInv
      <4>4. \E c \in name.colons : c + 2 < s[2]
        BY <2>5, <2>7, <4>1, <4>3 DEF ColonShows
      <4> QED
        BY <2>1, <2>3, <2>6, <4>1, <4>4, TextFacts DEF IInv
    <3> QED
      BY <2>1, <3>1, <3>2, <3>3
  <2> QED
    BY <2>1, <2>5, <2>7, TextFacts DEF IInv
<1> QED
  BY <1>1, <1>2

Known == name \in Names /\ IInv /\ Covered /\ NoAddressMissed

LEMMA InitKnown == Init => Known
<1> SUFFICES ASSUME Init PROVE Known
  OBVIOUS
<1>1. IInv
  BY InitInvariant
<1>2. Covered /\ NoAddressMissed
  BY <1>1, TextFacts DEF Init, Covered, NoAddressMissed, IInv
<1> QED
  BY <1>1, <1>2 DEF Known, Init

LEMMA MatchCovers ==
  ASSUME Known, Match
  PROVE  Covered'
<1>1. /\ <<leftIndex, rightIndex>> \in name.ips
      /\ leftIndex \in Nat /\ leftIndex + 2 <= rightIndex
      /\ LabelStart(name, leftIndex)
      /\ responses' = Append(responses, <<leftIndex, rightIndex>>)
      /\ rightIndex' = leftIndex - 1
      /\ UNCHANGED <<name, pc>> /\ pc = "scan"
  BY MatchTakesLabels DEF Known
<1> DEFINE n == Len(responses)
<1>2. /\ n \in Nat /\ Len(responses') = n + 1
      /\ \A i \in 1 .. n : responses'[i] = responses[i]
      /\ responses'[n + 1] = <<leftIndex, rightIndex>>
  BY <1>1 DEF Known, IInv, TypeOK
<1> HIDE DEF n
<1>3. ASSUME NEW s \in name.ips, s[2] > rightIndex'
      PROVE  \E i \in 1 .. n + 1 : Overlap(s, responses'[i])
  <2>1. s[1] \in Nat /\ s[2] \in Nat /\ s[1] + 2 <= s[2] /\ rightIndex \in Int
    BY TextFacts DEF Known, IInv
  <2>2. CASE s[2] > rightIndex
    <3>1. PICK i \in 1 .. n : Overlap(s, responses[i])
      BY <1>1, <2>2 DEF Known, Covered, n
    <3> QED
      BY <1>2, <3>1
  <2>3. CASE s[2] <= rightIndex
    <3>1. s[2] # leftIndex
      <4>1. SUFFICES ASSUME s[2] = leftIndex PROVE FALSE
        OBVIOUS
      <4>2. LabelEnd(name, s[2])
        BY DEF Known, IInv, TypeOK, WellFormed
      <4>3. s[2] - 1 \notin name.dots
        BY <2>1, <4>2, EndsApart DEF Known, IInv
      <4> QED
        BY <1>1, <2>1, <4>1, <4>3 DEF LabelStart
    <3>2. leftIndex < s[2] /\ s[1] < rightIndex
      BY <1>1, <1>3, <2>1, <2>3, <3>1
    <3>3. Overlap(s, responses'[n + 1])
      BY <1>2, <3>2 DEF Overlap
    <3> QED
      BY <1>2, <3>3
  <2> QED
    BY <2>1, <2>2, <2>3
<1> QED
  BY <1>1, <1>2, <1>3 DEF Covered

LEMMA LeaveMissesNothing ==
  ASSUME Known, Break \/ Exhausted
  PROVE  NoAddressMissed'
<1>1. /\ pc = "scan" /\ responses' = Reverse(responses) /\ name' = name
  BY DEF Break, Exhausted, InLoop
<1>2. \A s \in name.ips : ColonShows(name, s) => s[2] > rightIndex
  BY NothingLeft DEF Known
<1>3. responses \in Seq(name.ips)
  BY DEF Known, IInv, TypeOK
<1>4. /\ Len(responses') = Len(responses) /\ Len(responses) \in Nat
      /\ \A i \in 1 .. Len(responses) :
           responses'[i] = responses[Len(responses) - i + 1]
  BY <1>1, <1>3, ReverseFacts
<1>5. ASSUME NEW s \in name.ips, ColonShows(name, s)
      PROVE  \E i \in 1 .. Len(responses) : Overlap(s, responses'[i])
  <2>1. PICK i \in 1 .. Len(responses) : Overlap(s, responses[i])
    BY <1>1, <1>2, <1>5 DEF Known, Covered
  <2> DEFINE j == Len(responses) - i + 1
  <2>2. j \in 1 .. Len(responses) /\ Len(responses) - j + 1 = i
    BY <1>4
  <2>3. responses'[j] = responses[i]
    BY <1>4, <2>2
  <2> QED
    BY <2>1, <2>2, <2>3
<1> QED
  BY <1>1, <1>4, <1>5 DEF NoAddressMissed

LEMMA KnownAlways == Spec => []Known
<1>1. Known /\ [Next]_vars => Known'
  <2> SUFFICES ASSUME Known, [Next]_vars PROVE Known'
    OBVIOUS
  <2>1. IInv'
    BY NextInvariant DEF Known
  <2>2. CASE Match
    <3>1. name' = name /\ NoAddressMissed'
      BY <2>2 DEF Match, InLoop, NoAddressMissed
    <3> QED
      BY <2>1, <2>2, <3>1, MatchCovers DEF Known
  <2>3. CASE SkipRight
    <3>1. UNCHANGED <<name, responses, pc>>
          /\ \A s \in name.ips : s[2] > rightIndex' => s[2] > rightIndex
      BY <2>3, SkipFindsDot, SkipMissesNothing DEF Known
    <3>2. Covered' /\ NoAddressMissed'
      BY <3>1 DEF Known, Covered, NoAddressMissed
    <3> QED
      BY <2>1, <3>1, <3>2 DEF Known
  <2>4. CASE JumpLeft
    BY <2>1, <2>4 DEF JumpLeft, Known, Covered, NoAddressMissed
  <2>5. CASE SlicePanic
    BY <2>1, <2>5 DEF SlicePanic, InLoop, Known, Covered, NoAddressMissed
  <2>6. CASE Break \/ Exhausted
    <3>1. name' = name /\ Covered'
      BY <2>6 DEF Break, Exhausted, Covered
    <3> QED
      BY <2>1, <2>6, <3>1, LeaveMissesNothing DEF Known
  <2>7. CASE UNCHANGED vars
    BY <2>1, <2>7 DEF vars, Known, Covered, NoAddressMissed
  <2> QED
    BY <2>2, <2>3, <2>4, <2>5, <2>6, <2>7 DEF Next
<1> QED
  BY <1>1, InitKnown, PTL DEF Spec

(* Skipping what is no address loses none (gyip.go:50-53), provided that a *)
(* leading address shows by its colon: gyip.go:75 looks for one only       *)
(* before the last two characters.                                         *)
THEOREM AddressesFound == Spec => []NoAddressMissed
<1>1. Known => NoAddressMissed
  BY DEF Known
<1> QED
  BY <1>1, KnownAlways, PTL

-----------------------------------------------------------------------------
(* The scan does what AddressScan promises.                                *)

(* Two bounds with the same positions below them have the same last one.   *)
LEMMA SameLastIndex ==
  ASSUME NEW S, NEW m, NEW n, \A i \in S : i < m <=> i < n
  PROVE  LastIndex(S, m) = LastIndex(S, n)
<1>1. {i \in S : i < m} = {i \in S : i < n}
  OBVIOUS
<1> QED
  BY <1>1 DEF LastIndex

(* Both modules mean the same by it. *)
LEMMA ScanLastIndex ==
  ASSUME NEW S, NEW n
  PROVE  Scan!LastIndex(S, n) = LastIndex(S, n)
<1>1. Scan!Max({i \in S : i < n}) = Max({i \in S : i < n})
  BY DEF Scan!Max, Max
<1> QED
  BY <1>1 DEF Scan!LastIndex, LastIndex

LEMMA MatchTakes ==
  ASSUME Known, Match
  PROVE  Scan!Take
<1>1. /\ <<leftIndex, rightIndex>> \in name.ips
      /\ leftIndex \in Nat /\ leftIndex + 2 <= rightIndex
      /\ responses' = Append(responses, <<leftIndex, rightIndex>>)
      /\ rightIndex' = leftIndex - 1
      /\ UNCHANGED <<name, pc>> /\ pc = "scan"
  BY MatchTakesLabels DEF Known
<1> DEFINE E == Scan!StartsOf(rightIndex)
<1>2. leftIndex \in E
  <2>1. leftIndex \in 0 .. name.len
    BY <1>1, TextFacts DEF Known, IInv, TypeOK
  <2> QED
    BY <1>1, <2>1 DEF Scan!StartsOf
<1>3. \A l \in E : l \in Int /\ leftIndex >= l
  <2>1. TAKE l \in E
  <2>2. l \in 0 .. name.len /\ <<l, rightIndex>> \in name.ips
    BY DEF Scan!StartsOf
  <2>3. <<l, rightIndex>>[1] <= leftIndex
    BY <2>2 DEF Known, IInv, Tried
  <2> QED
    BY <1>1, <2>2, <2>3, TextFacts DEF Known, IInv
<1> HIDE DEF E
<1>4. Max(E) \in E /\ \A l \in E : Max(E) >= l
  BY <1>2, <1>3 DEF Max
<1>5. Scan!Max(E) = leftIndex
  <2>1. Max(E) \in Int /\ leftIndex >= Max(E) /\ Max(E) >= leftIndex
    BY <1>2, <1>3, <1>4
  <2>2. Max(E) = leftIndex
    BY <1>1, <2>1
  <2> QED
    BY <2>2 DEF Max, Scan!Max
<1>6. responses \in Seq(name.ips)
  BY DEF Known, IInv, TypeOK
<1>7. Reverse(responses') = <<<<leftIndex, rightIndex>>>> \o Reverse(responses)
  BY <1>1, <1>6, ReverseAppend
<1> QED
  BY <1>1, <1>2, <1>5, <1>7 DEF Scan!Take, E

LEMMA SkipSkips ==
  ASSUME Known, SkipRight
  PROVE  Scan!Skip
<1>1. /\ rightIndex' \in name.dots /\ rightIndex' < rightIndex - 1
      /\ \A d \in name.dots : d < rightIndex - 1 => d <= rightIndex'
      /\ UNCHANGED <<name, responses, pc>> /\ pc = "scan"
  BY SkipFindsDot DEF Known, SkipRight, CanJump, InLoop
<1>2. Scan!StartsOf(rightIndex) = {}
  <2>1. SUFFICES ASSUME NEW l \in Scan!StartsOf(rightIndex) PROVE FALSE
    OBVIOUS
  <2>2. <<l, rightIndex>> \in name.ips
    BY DEF Scan!StartsOf
  <2>3. <<l, rightIndex>>[2] > rightIndex' => <<l, rightIndex>>[2] > rightIndex
    BY <2>2, SkipMissesNothing DEF Known
  <2> QED
    BY <1>1, <2>3, TextFacts DEF Known, IInv
<1>3. rightIndex' = LastIndex(name.dots, rightIndex - 1)
  BY SkipFindsDot DEF Known, SkipRight
<1>4. \A d \in name.dots : d < rightIndex - 1 <=> d < rightIndex
  BY SkipMissesNothing, TextFacts DEF Known, IInv
<1>5. rightIndex' = Scan!LastIndex(name.dots, rightIndex)
  BY <1>3, <1>4, SameLastIndex, ScanLastIndex
<1>6. rightIndex' >= 0
  BY <1>1, TextFacts DEF Known, IInv
<1> QED
  BY <1>1, <1>2, <1>5, <1>6 DEF Scan!Skip

LEMMA LeaveFinishes ==
  ASSUME Known, Break \/ Exhausted
  PROVE  Scan!Finish \/ Scan!Overlook
<1>1. /\ pc = "scan" /\ pc' = "done" /\ responses' = Reverse(responses)
      /\ UNCHANGED <<name, rightIndex>>
  BY DEF Break, Exhausted, InLoop
<1>2. /\ \A d \in name.dots : ~(d < rightIndex)
      /\ \A s \in name.ips : ColonShows(name, s) => s[2] > rightIndex
  BY NothingLeft DEF Known
<1>3. ASSUME NEW l \in Scan!StartsOf(rightIndex)
      PROVE  ~Scan!ColonShows(name, <<l, rightIndex>>)
  <2>1. <<l, rightIndex>> \in name.ips
    BY <1>3 DEF Scan!StartsOf
  <2>2. ~(<<l, rightIndex>>[2] > rightIndex)
    BY TextFacts DEF Known, IInv
  <2>3. ~ColonShows(name, <<l, rightIndex>>)
    BY <1>2, <2>1, <2>2
  <2> QED
    BY <2>3 DEF ColonShows, Scan!ColonShows
<1>4. Scan!LastIndex(name.dots, rightIndex) < 0
  <2>1. {d \in name.dots : d < rightIndex} = {}
    BY <1>2
  <2>2. LastIndex(name.dots, rightIndex) = -1
    BY <2>1 DEF LastIndex
  <2> QED
    BY <2>2, ScanLastIndex
<1>5. CASE Scan!StartsOf(rightIndex) = {}
  BY <1>1, <1>4, <1>5 DEF Scan!Finish
<1>6. CASE Scan!StartsOf(rightIndex) # {}
  <2>1. \E l \in Scan!StartsOf(rightIndex) : ~Scan!ColonShows(name, <<l, rightIndex>>)
    BY <1>3, <1>6
  <2> QED
    BY <1>1, <1>4, <2>1 DEF Scan!Overlook
<1> QED
  BY <1>5, <1>6

(* The rounds of parseIPs amount to taking the shortest address that ends  *)
(* where the text left ends, or to skipping a label (gyip.go:50-53), and a *)
(* leading address that does not show is overlooked.                       *)
THEOREM ImplementsScan == Spec => ScansAddresses
<1>1. Init => Scan!Init
  <2>1. Reverse(<<>>) = <<>>
    BY DEF Reverse
  <2> QED
    BY <2>1 DEF Init, Scan!Init
<1>2. Known /\ [Next]_vars => [Scan!Next]_Scan!vars
  <2> SUFFICES ASSUME Known, [Next]_vars PROVE [Scan!Next]_Scan!vars
    OBVIOUS
  <2>1. CASE Match
    BY <2>1, MatchTakes DEF Scan!Next
  <2>2. CASE SkipRight
    BY <2>2, SkipSkips DEF Scan!Next
  <2>3. CASE Break \/ Exhausted
    BY <2>3, LeaveFinishes DEF Scan!Next, Known
  <2>4. CASE JumpLeft \/ SlicePanic
    BY <2>4 DEF JumpLeft, SlicePanic, CanJump, InLoop, Scan!vars
  <2>5. CASE UNCHANGED vars
    BY <2>5 DEF vars, Scan!vars
  <2> QED
    BY <2>1, <2>2, <2>3, <2>4, <2>5 DEF Next
<1>3. Spec => []Known
  BY KnownAlways
<1> QED
  BY <1>1, <1>2, <1>3, PTL DEF Spec, ScansAddresses, Scan!Spec

-----------------------------------------------------------------------------
(* Where the stop test panics.                                             *)

(* The first label ends at the first dot or with the text, and nowhere else *)
(* ends a label with no dot before it.                                     *)
LEMMA FirstLabelFacts ==
  ASSUME TypeOK, name.len > 0
  PROVE  /\ FirstLabelEnd \in 1 .. name.len
         /\ \A d \in name.dots : FirstLabelEnd <= d
         /\ \A e \in 1 .. name.len :
              LabelEnd(name, e) /\ (\A d \in name.dots : e <= d) => e = FirstLabelEnd
<1> DEFINE IsEnd(e) == LabelEnd(name, e) /\ \A d \in name.dots : e <= d
<1>1. /\ name.len \in Nat /\ name.dots \subseteq Nat
      /\ \A d \in name.dots : 1 <= d /\ d <= name.len - 2
  BY TextFacts
<1>2. \E e \in 1 .. name.len : IsEnd(e)
  <2>1. CASE name.dots = {}
    <3>1. name.len \in 1 .. name.len /\ IsEnd(name.len)
      BY <1>1, <2>1 DEF LabelEnd
    <3> QED
      BY <3>1
  <2>2. CASE name.dots # {}
    <3>1. PICK t \in name.dots : \A u \in name.dots : t <= u
      BY <1>1, <2>2, LeastNatural
    <3>2. t \in 1 .. name.len /\ IsEnd(t)
      BY <1>1, <3>1 DEF LabelEnd
    <3> QED
      BY <3>2
  <2> QED
    BY <2>1, <2>2
<1>3. FirstLabelEnd \in 1 .. name.len /\ IsEnd(FirstLabelEnd)
  BY <1>2, Zenon DEF FirstLabelEnd
<1>4. ASSUME NEW e \in 1 .. name.len, IsEnd(e)
      PROVE  e = FirstLabelEnd
  <2>1. e <= FirstLabelEnd /\ FirstLabelEnd <= e
    BY <1>1, <1>3, <1>4 DEF LabelEnd
  <2> QED
    BY <1>3, <2>1
<1> QED
  BY <1>3, <1>4

(* A colon that the stop test sees, or a label too short for it. *)
Shown == FirstLabelEnd = 1 \/ \E c \in name.colons : c + 2 < FirstLabelEnd

FInv ==
  /\ IInv
  /\ pc = "scan" /\ name.len > 0 =>
       /\ rightIndex = FirstLabelEnd =>
            leftIndex = FirstLabelEnd - 1 \/ (leftIndex = 0 /\ Shown)
       /\ leftIndex < 0 => responses # <<>> /\ responses[Len(responses)][1] = 0
  /\ PanicsOnFirstLabel

(* When no dot is left the scan is at the first label.                     *)
LEMMA AtFirstLabel ==
  ASSUME IInv, InLoop, NoDotLeft
  PROVE  name.len > 0 /\ rightIndex = FirstLabelEnd
<1>1. /\ name.len \in Nat /\ name.dots \subseteq Nat /\ rightIndex \in Int
      /\ \A d \in name.dots : d <= name.len - 2 /\ d + 1 \notin name.dots
  BY TextFacts DEF IInv, TypeOK, WellFormed
<1>2. rightIndex > 0 /\ rightIndex <= name.len /\ LabelEnd(name, rightIndex)
  BY TextFacts DEF InLoop, IInv, Bounds, AtLabels, TypeOK
<1>3. \A d \in name.dots : ~(d < rightIndex - 1)
  BY <1>1, LastIndexFacts DEF NoDotLeft
<1>4. \A d \in name.dots : rightIndex <= d
  <2> TAKE d \in name.dots
  <2>1. d # rightIndex - 1
    BY <1>1, <1>2 DEF LabelEnd
  <2> QED
    BY <1>1, <1>3, <2>1
<1>5. rightIndex \in 1 .. name.len /\ name.len > 0
  BY <1>1, <1>2
<1> QED
  BY <1>2, <1>4, <1>5, FirstLabelFacts DEF IInv

LEMMA MatchFirst ==
  ASSUME FInv, Match
  PROVE  FInv'
<1>1. /\ leftIndex \in Nat /\ LabelStart(name, leftIndex)
      /\ responses' = Append(responses, <<leftIndex, rightIndex>>)
      /\ rightIndex' = leftIndex - 1 /\ leftIndex' = leftIndex - 2
      /\ UNCHANGED <<name, pc>> /\ pc = "scan"
  BY MatchTakesLabels DEF FInv
<1>2. IInv' /\ FirstLabelEnd' = FirstLabelEnd
  BY <1>1, MatchInvariant DEF FInv, FirstLabelEnd, LabelEnd
<1>3. rightIndex' = FirstLabelEnd => leftIndex' = FirstLabelEnd - 1
  BY <1>1
<1>4. ASSUME leftIndex' < 0
      PROVE  responses' # <<>> /\ responses'[Len(responses')][1] = 0
  <2>1. leftIndex = 0
    BY <1>1, <1>4, TextFacts DEF LabelStart, FInv, IInv
  <2>2. responses \in Seq(name.ips)
    BY DEF FInv, IInv, TypeOK
  <2>3. /\ Len(responses') = Len(responses) + 1 /\ Len(responses) \in Nat
        /\ responses'[Len(responses')] = <<leftIndex, rightIndex>>
    BY <1>1, <2>2
  <2> QED
    BY <2>1, <2>3
<1>5. PanicsOnFirstLabel'
  BY <1>1 DEF PanicsOnFirstLabel
<1> QED
  BY <1>2, <1>3, <1>4, <1>5 DEF FInv

LEMMA SkipRightFirst ==
  ASSUME FInv, SkipRight
  PROVE  FInv'
<1>1. /\ rightIndex' \in name.dots /\ leftIndex' = rightIndex' - 1
      /\ UNCHANGED <<name, responses, pc>>
  BY SkipFindsDot DEF FInv
<1>2. IInv' /\ FirstLabelEnd' = FirstLabelEnd
  BY <1>1, SkipRightInvariant DEF FInv, FirstLabelEnd, LabelEnd
<1>3. leftIndex' >= 0
  BY <1>1, TextFacts DEF FInv, IInv
<1>4. leftIndex' \in Int /\ pc' = "scan"
  BY <1>1, <1>2, TextFacts DEF IInv, TypeOK, SkipRight, CanJump, InLoop
<1>5. PanicsOnFirstLabel'
  BY <1>4 DEF PanicsOnFirstLabel
<1> QED
  BY <1>1, <1>2, <1>3, <1>4, <1>5 DEF FInv

LEMMA JumpLeftFirst ==
  ASSUME FInv, JumpLeft
  PROVE  FInv'
<1>1. /\ 0 < leftIndex /\ leftIndex' \in Nat /\ leftIndex' < leftIndex
      /\ LabelStart(name, leftIndex')
      /\ UNCHANGED <<name, rightIndex, responses, pc>> /\ pc = "scan"
  BY JumpFindsStart DEF FInv, JumpLeft, CanJump, InLoop
<1>2. IInv' /\ FirstLabelEnd' = FirstLabelEnd /\ Shown' = Shown
  BY <1>1, JumpLeftInvariant DEF FInv, FirstLabelEnd, LabelEnd, Shown
<1>3. ASSUME name.len > 0, rightIndex = FirstLabelEnd
      PROVE  leftIndex' = 0 /\ Shown
  <2>1. /\ FirstLabelEnd \in Nat /\ \A d \in name.dots : FirstLabelEnd <= d
        /\ name.dots \subseteq Nat /\ name.colons \subseteq Nat /\ leftIndex \in Int
    BY <1>3, FirstLabelFacts, TextFacts DEF FInv, IInv
  <2>2. leftIndex = FirstLabelEnd - 1
    BY <1>1, <1>3 DEF FInv
  <2>3. leftIndex' = 0
    BY <1>1, <2>1, <2>2 DEF LabelStart
  <2>4. NoDotLeft
    <3>1. rightIndex - 1 \in Int /\ ~\E d \in name.dots : d < rightIndex - 1
      BY <1>3, <2>1
    <3>2. LastIndex(name.dots, rightIndex - 1) \in Int
          /\ ~(LastIndex(name.dots, rightIndex - 1) >= 0)
      BY <2>1, <3>1, LastIndexFacts
    <3> QED
      BY <3>2 DEF NoDotLeft
  <2>5. ~NoColonLeft
    BY <2>4 DEF JumpLeft, CanJump
  <2>6. \E c \in name.colons : c < leftIndex - 1
    <3>1. leftIndex - 1 \in Int
      BY <2>1
    <3>2. LastIndex(name.colons, leftIndex - 1) >= 0
      BY <2>1, <2>5, <3>1, LastIndexFacts DEF NoColonLeft
    <3> QED
      BY <2>1, <3>1, <3>2, LastIndexFacts
  <2>7. Shown
    BY <2>1, <2>2, <2>6 DEF Shown
  <2> QED
    BY <2>3, <2>7
<1>4. PanicsOnFirstLabel'
  BY <1>1 DEF PanicsOnFirstLabel
<1> QED
  BY <1>1, <1>2, <1>3, <1>4 DEF FInv

LEMMA PanicFirst ==
  ASSUME FInv, SlicePanic
  PROVE  FInv'
<1>1. /\ InLoop /\ pc = "scan" /\ leftIndex = 0 /\ ~Parses /\ NoDotLeft /\ pc' = "panic"
      /\ UNCHANGED <<name, leftIndex, rightIndex, responses>>
  BY DEF SlicePanic, InLoop
<1>2. IInv'
  BY <1>1, NextInvariant DEF FInv, Next
<1>3. name.len > 0 /\ rightIndex = FirstLabelEnd
  BY <1>1, AtFirstLabel DEF FInv
<1>4. FirstLabelEnd \in Nat
  BY <1>3, FirstLabelFacts DEF FInv, IInv
<1>5. Shown
  <2>1. CASE leftIndex = FirstLabelEnd - 1
    BY <1>1, <1>4, <2>1 DEF Shown
  <2> QED
    BY <1>1, <1>3, <2>1 DEF FInv
<1>6. FirstLabelCrashes
  BY <1>1, <1>3, <1>5 DEF FirstLabelCrashes, Shown, Parses
<1>7. FirstLabelCrashes' = FirstLabelCrashes
  BY <1>1 DEF FirstLabelCrashes, FirstLabelEnd, LabelEnd
<1> QED
  BY <1>1, <1>2, <1>6, <1>7 DEF FInv, PanicsOnFirstLabel

LEMMA LeaveFirst ==
  ASSUME FInv, Break \/ Exhausted
  PROVE  FInv'
<1>1. /\ pc = "scan" /\ pc' = "done" /\ responses' = Reverse(responses)
      /\ UNCHANGED <<name, leftIndex, rightIndex>>
  BY DEF Break, Exhausted, InLoop
<1>2. IInv'
  BY LeaveInvariant DEF FInv
<1>3. FirstLabelCrashes' = FirstLabelCrashes
  BY <1>1 DEF FirstLabelCrashes, FirstLabelEnd, LabelEnd
<1>4. ASSUME Break PROVE ~FirstLabelCrashes
  <2>1. InLoop /\ NoDotLeft /\ leftIndex > 0 /\ NoColonLeft
    BY <1>4 DEF Break
  <2>2. name.len > 0 /\ rightIndex = FirstLabelEnd
    BY <2>1, AtFirstLabel DEF FInv
  <2>3. FirstLabelEnd \in Nat /\ leftIndex \in Int /\ name.colons \subseteq Nat
    BY <2>2, FirstLabelFacts, TextFacts DEF FInv, IInv
  <2>4. leftIndex = FirstLabelEnd - 1
    BY <1>1, <2>1, <2>2, <2>3 DEF FInv
  <2>5. \A c \in name.colons : ~(c < leftIndex - 1)
    <3>1. leftIndex - 1 \in Int /\ LastIndex(name.colons, leftIndex - 1) < 0
      BY <2>1, <2>3 DEF NoColonLeft
    <3> QED
      BY <2>3, <3>1, LastIndexFacts
  <2> QED
    BY <2>1, <2>3, <2>4, <2>5 DEF FirstLabelCrashes
<1>5. ASSUME Exhausted, FirstLabelCrashes
      PROVE  responses' # <<>> /\ responses'[1][1] = 0
  <2>1. leftIndex < 0 /\ name.len > 0
    BY <1>5 DEF Exhausted, FirstLabelCrashes
  <2>2. responses # <<>> /\ responses[Len(responses)][1] = 0
    BY <1>1, <2>1 DEF FInv
  <2>3. responses \in Seq(name.ips)
    BY DEF FInv, IInv, TypeOK
  <2>4. 1 \in 1 .. Len(responses) /\ Len(responses) - 1 + 1 = Len(responses)
    BY <2>2, <2>3
  <2>5. Len(responses') = Len(responses) /\ responses'[1] = responses[Len(responses)]
    BY <1>1, <2>3, <2>4, ReverseFacts
  <2>6. responses' # <<>>
    BY <2>4, <2>5
  <2> QED
    BY <2>2, <2>5, <2>6
<1>6. PanicsOnFirstLabel'
  BY <1>1, <1>3, <1>4, <1>5 DEF PanicsOnFirstLabel
<1> QED
  BY <1>1, <1>2, <1>6 DEF FInv

LEMMA InitFirst == Init => FInv
<1> SUFFICES ASSUME Init PROVE FInv
  OBVIOUS
<1>1. IInv /\ pc = "scan" /\ leftIndex = name.len - 1 /\ rightIndex = name.len
  BY InitInvariant DEF Init
<1>2. name.len \in Nat
  BY <1>1, TextFacts DEF IInv
<1> QED
  BY <1>1, <1>2 DEF FInv, PanicsOnFirstLabel

LEMMA FirstLabelInvariant == FInv /\ [Next]_vars => FInv'
<1> SUFFICES ASSUME FInv, [Next]_vars PROVE FInv'
  OBVIOUS
<1>1. CASE UNCHANGED vars
  <2>1. IInv' /\ UNCHANGED <<name, leftIndex, rightIndex, responses, pc>>
    BY <1>1, NextInvariant DEF FInv, vars
  <2>2. /\ FirstLabelEnd' = FirstLabelEnd /\ Shown' = Shown
        /\ PanicsOnFirstLabel' = PanicsOnFirstLabel
    BY <2>1 DEF PanicsOnFirstLabel, FirstLabelCrashes, FirstLabelEnd, LabelEnd, Shown
  <2> QED
    BY <2>1, <2>2 DEF FInv
<1> QED
  BY <1>1, MatchFirst, SkipRightFirst, JumpLeftFirst, PanicFirst, LeaveFirst DEF Next

(* Of any texts the stop test crashes exactly on those whose first label is *)
(* no address, and is one character long or shows a colon (gyip.go:75).    *)
THEOREM PanicsAsStated == Spec => []PanicsOnFirstLabel
<1>1. FInv => PanicsOnFirstLabel
  BY DEF FInv
<1> QED
  BY <1>1, InitFirst, FirstLabelInvariant, PTL DEF Spec

-----------------------------------------------------------------------------
(* Texts made of parts.                                                    *)

LEMMA OnlyAppend ==
  ASSUME NEW T, NEW s \in Seq(T), NEW e \in T, NEW S
  PROVE  Only(Append(s, e), S) = IF e \in S THEN Append(Only(s, S), e) ELSE Only(s, S)
<1> DEFINE n == Len(s)
           u == Append(s, e)
<1>1. /\ n \in Nat /\ n + 1 \in Nat /\ Len(u) = n + 1 /\ Len(s) = n /\ u[n + 1] = e
      /\ \A i \in 1 .. n : u[i] = s[i]
  OBVIOUS
<1> HIDE DEF n, u
<1>2. PICK f : Steps(f, n + 1, u, S) /\ Only(u, S) = f[n + 1]
  BY <1>1, OnlySteps
<1>3. Steps(f, n, s, S)
  BY <1>1, <1>2 DEF Steps
<1>4. Only(s, S) = f[n]
  BY <1>1, <1>3, OnlyOf
<1>5. f[n + 1] = IF e \in S THEN Append(f[n], e) ELSE f[n]
  <2>1. n + 1 \in 1 .. n + 1 /\ (n + 1) - 1 = n
    BY <1>1
  <2>2. f[n + 1] = IF u[n + 1] \in S THEN Append(f[(n + 1) - 1], u[n + 1])
                                     ELSE f[(n + 1) - 1]
    BY <1>2, <2>1 DEF Steps
  <2> QED
    BY <1>1, <2>1, <2>2
<1> QED
  BY <1>2, <1>4, <1>5 DEF u

LEMMA OnlyNone ==
  ASSUME NEW S
  PROVE  Only(<<>>, S) = <<>>
<1>1. Len(<<>>) = 0 /\ 0 \in Nat
  OBVIOUS
<1>2. PICK f : Steps(f, 0, <<>>, S) /\ Only(<<>>, S) = f[0]
  BY <1>1, OnlySteps
<1>3. f[0] = <<>>
  BY <1>2 DEF Steps
<1> QED
  BY <1>2, <1>3

(* What parseIPs makes of one part more.                                   *)
LEMMA ParsedAppend ==
  ASSUME NEW s \in Seq(Part), NEW p \in Part
  PROVE  Parsed(Append(s, p)) = IF IsAddress(p) /\ (s = <<>> => Kind[p] # "bare")
                                THEN Append(Parsed(s), p) ELSE Parsed(s)
<1> DEFINE S == {q \in Part : IsAddress(q)}
           u == Append(s, p)
<1>1. p \in S <=> IsAddress(p)
  OBVIOUS
<1> HIDE DEF S
<1>2. CASE s = <<>>
  <2>1. u # <<>> /\ u[1] = p /\ Tail(u) = <<>>
    BY <1>2
  <2>2. Parsed(s) = <<>>
    BY <1>2, OnlyNone DEF Parsed, Addresses
  <2>3. CASE Kind[p] = "bare"
    <3>1. Parsed(u) = Only(<<>>, S)
      BY <2>1, <2>3 DEF Parsed, Addresses, S
    <3> QED
      BY <1>2, <2>2, <2>3, <3>1, OnlyNone
  <2>4. CASE Kind[p] # "bare"
    <3>1. Parsed(u) = Only(u, S)
      BY <2>1, <2>4 DEF Parsed, Addresses, S
    <3>2. Only(u, S) = IF p \in S THEN Append(Only(s, S), p) ELSE Only(s, S)
      BY OnlyAppend
    <3>3. Only(s, S) = Parsed(s)
      BY <1>2, <2>2, OnlyNone
    <3> QED
      BY <1>1, <2>4, <3>1, <3>2, <3>3
  <2> QED
    BY <2>3, <2>4
<1>3. CASE s # <<>>
  <2>1. u # <<>> /\ u[1] = s[1] /\ Tail(u) = Append(Tail(s), p) /\ Tail(s) \in Seq(Part)
    BY <1>3
  <2> DEFINE v == IF Kind[s[1]] = "bare" THEN Tail(s) ELSE s
  <2>2. Parsed(s) = Only(v, S)
    BY <1>3 DEF Parsed, Addresses, S
  <2>3. Parsed(u) = Only(Append(v, p), S)
    BY <2>1 DEF Parsed, Addresses, S
  <2>4. v \in Seq(Part)
    BY <2>1
  <2> HIDE DEF v
  <2>5. Only(Append(v, p), S) = IF p \in S THEN Append(Only(v, S), p) ELSE Only(v, S)
    BY <2>4, OnlyAppend
  <2> QED
    BY <1>1, <1>3, <2>2, <2>3, <2>5
<1> QED
  BY <1>2, <1>3

LEMMA ParsedTyped ==
  ASSUME NEW n, n \in Seq(Part)
  PROVE  Parsed(n) \in Seq(Part)
<1> DEFINE S == {p \in Part : IsAddress(p)}
           v == IF n # <<>> /\ Kind[n[1]] = "bare" THEN Tail(n) ELSE n
<1>1. v \in Seq(Part)
  OBVIOUS
<1>2. Parsed(n) = Only(v, S)
  BY DEF Parsed, Addresses
<1> HIDE DEF v
<1>3. Only(v, S) \in Seq(Part \cap S) /\ Part \cap S \subseteq Part
  BY <1>1, OnlyTyped
<1> QED
  BY <1>2, <1>3

-----------------------------------------------------------------------------
(* The parts of a text stand in it one after the other.                    *)
LEMMA PartFacts ==
  ASSUME NEW n \in Names, "parts" \in DOMAIN n, NEW i \in 1 .. Len(n.parts)
  PROVE  /\ n.parts \in Seq(Part) /\ n.parts[i] \in Part
         /\ PartStart(n, i) \in Nat /\ n.ends[i] \in Nat
         /\ PartStart(n, i) < n.ends[i]
         /\ i = 1 => PartStart(n, i) = 0
         /\ i # 1 => /\ i - 1 \in 1 .. Len(n.parts)
                     /\ PartStart(n, i) = n.ends[i - 1] + 1
                     /\ n.ends[i - 1] \in n.dots
<1>1. MadeOfParts(n)
  BY PartsAssumption
<1>2. /\ n.parts \in Seq(Part) /\ n.ends \in Seq(Nat) /\ Len(n.ends) = Len(n.parts)
      /\ \A j \in 1 .. Len(n.parts) :
           /\ PartStart(n, j) < n.ends[j]
           /\ j < Len(n.parts) => n.ends[j] \in n.dots
  BY <1>1 DEF MadeOfParts
<1>3. CASE i = 1
  BY <1>2, <1>3 DEF PartStart
<1>4. CASE i # 1
  <2>1. i - 1 \in 1 .. Len(n.parts) /\ i - 1 < Len(n.parts)
    BY <1>2, <1>4
  <2> QED
    BY <1>2, <1>4, <2>1 DEF PartStart
<1> QED
  BY <1>3, <1>4

(* What a part's kind says of its characters.                              *)
LEMMA KindFacts ==
  ASSUME NEW n \in Names, "parts" \in DOMAIN n, NEW i \in 1 .. Len(n.parts)
  PROVE  /\ (\E d \in n.dots : PartStart(n, i) <= d /\ d + 1 < n.ends[i])
              <=> Kind[n.parts[i]] = "v4"
         /\ (\E c \in n.colons : PartStart(n, i) <= c /\ c + 2 < n.ends[i])
              <=> Kind[n.parts[i]] \in {"colon", "v6"}
         /\ PartStart(n, i) + 1 = n.ends[i] <=> Kind[n.parts[i]] = "short"
         /\ {s \in n.ips : s[2] = n.ends[i]}
              = IF IsAddress(n.parts[i]) THEN {PartSlice(n, i)} ELSE {}
  BY PartsAssumption DEF MadeOfParts

(* They end in different places.                                           *)
LEMMA EndsIncrease ==
  ASSUME NEW n \in Names, "parts" \in DOMAIN n, NEW i \in 1 .. Len(n.parts)
  PROVE  \A j \in 1 .. Len(n.parts) : i < j => n.ends[i] < n.ends[j]
<1> DEFINE k == Len(n.parts)
           T == {j \in 1 .. k : i < j /\ ~(n.ends[i] < n.ends[j])}
<1>1. n.parts \in Seq(Part)
  BY PartFacts
<1>2. k \in Nat
  BY <1>1
<1>3. ASSUME T # {}
      PROVE  FALSE
  <2>0. T \subseteq Nat
    OBVIOUS
  <2>1. PICK j \in T : \A l \in T : j <= l
    BY <1>3, <2>0, LeastNatural
  <2>2. j \in 1 .. k /\ i < j /\ ~(n.ends[i] < n.ends[j])
    OBVIOUS
  <2>3. /\ j - 1 \in 1 .. k /\ PartStart(n, j) = n.ends[j - 1] + 1
        /\ PartStart(n, j) < n.ends[j] /\ n.ends[j] \in Nat
    BY <2>2, PartFacts
  <2>4. n.ends[j - 1] \in Nat /\ n.ends[i] \in Nat
    BY <2>3, PartFacts
  <2>5. n.ends[j - 1] < n.ends[j]
    BY <2>3, <2>4
  <2>6. CASE j - 1 = i
    BY <2>2, <2>5, <2>6
  <2>7. CASE j - 1 # i
    <3>1. i < j - 1 /\ ~(j <= j - 1)
      BY <2>2, <2>7
    <3>2. n.ends[i] < n.ends[j - 1]
      BY <2>1, <2>3, <3>1
    <3> QED
      BY <2>2, <2>3, <2>4, <2>5, <3>2
  <2> QED
    BY <2>6, <2>7
<1> QED
  BY <1>3

(* So a slice is that of one part at most.                                 *)
LEMMA OnePart ==
  ASSUME name \in Names, "parts" \in DOMAIN name, NEW i \in 1 .. Len(name.parts)
  PROVE  /\ IsPartSlice(PartSlice(name, i))
         /\ PartAt(PartSlice(name, i)) = name.parts[i]
<1>0. name.parts \in Seq(Part)
  BY PartFacts
<1>1. DOMAIN name.parts = 1 .. Len(name.parts)
  BY <1>0
<1>2. ASSUME NEW j \in 1 .. Len(name.parts), PartSlice(name, i) = PartSlice(name, j)
      PROVE  i = j
  <2>1. name.ends[i] = name.ends[j] /\ name.ends[i] \in Nat
    BY <1>2, PartFacts DEF PartSlice
  <2>2. (i < j => name.ends[i] < name.ends[j]) /\ (j < i => name.ends[j] < name.ends[i])
    BY EndsIncrease
  <2> QED
    BY <2>1, <2>2, <1>0
<1>3. (CHOOSE j \in DOMAIN name.parts : PartSlice(name, i) = PartSlice(name, j)) = i
  BY <1>1, <1>2
<1> QED
  BY <1>1, <1>3 DEF IsPartSlice, PartAt

-----------------------------------------------------------------------------
(* What the scan has read of such a text: the last parts of it, one by one. *)

Found == [i \in 1 .. Len(responses) |-> PartAt(Reverse(responses)[i])]

Left(k) == SubSeq(name.parts, 1, k)

(* The text is dealt with but for its first k parts.                       *)
ReadTo(k) ==
  /\ IF k = 0 THEN rightIndex <= 0 /\ ~ParsePanics(name.parts)
              ELSE rightIndex = name.ends[k]
  /\ \A i \in 1 .. Len(responses) : IsPartSlice(responses[i])
  /\ Parsed(Left(k)) \o Found = Parsed(name.parts)

PInv ==
  /\ FInv
  /\ name \in Names
  /\ "parts" \in DOMAIN name /\ pc = "scan" => \E k \in 0 .. Len(name.parts) : ReadTo(k)
  /\ ScanReadsParts

LEMMA OneMore ==
  ASSUME NEW T, NEW s \in Seq(T), NEW k \in 1 .. Len(s)
  PROVE  /\ SubSeq(s, 1, k) = Append(SubSeq(s, 1, k - 1), s[k])
         /\ SubSeq(s, 1, k - 1) \in Seq(T)
         /\ SubSeq(s, 1, k - 1) = <<>> <=> k = 1
<1> DEFINE l == SubSeq(s, 1, k - 1)
           r == SubSeq(s, 1, k)
<1>1. k \in Nat /\ s[k] \in T /\ Len(s) \in Nat
  OBVIOUS
<1>2. l \in Seq(T) /\ Len(l) = k - 1 /\ \A i \in 1 .. k - 1 : l[i] = s[i]
  OBVIOUS
<1>3. r \in Seq(T) /\ Len(r) = k /\ \A i \in 1 .. k : r[i] = s[i]
  OBVIOUS
<1> HIDE DEF l, r
<1>4. r = Append(l, s[k])
  <2>1. /\ Append(l, s[k]) \in Seq(T) /\ Len(Append(l, s[k])) = k
        /\ \A i \in 1 .. k : Append(l, s[k])[i] = r[i]
    BY <1>1, <1>2, <1>3
  <2> QED
    BY <1>3, <2>1
<1>5. l = <<>> <=> k = 1
  BY <1>1, <1>2
<1> QED
  BY <1>2, <1>4, <1>5, Zenon DEF l, r

LEMMA LeftFacts ==
  ASSUME name \in Names, "parts" \in DOMAIN name, NEW k \in 1 .. Len(name.parts)
  PROVE  /\ Left(k) = Append(Left(k - 1), name.parts[k])
         /\ Left(k - 1) \in Seq(Part) /\ name.parts[k] \in Part
         /\ Left(k - 1) = <<>> <=> k = 1
<1>1. name.parts \in Seq(Part) /\ name.parts[k] \in Part
  BY PartFacts
<1>2. /\ SubSeq(name.parts, 1, k)
           = Append(SubSeq(name.parts, 1, k - 1), name.parts[k])
      /\ SubSeq(name.parts, 1, k - 1) \in Seq(Part)
      /\ SubSeq(name.parts, 1, k - 1) = <<>> <=> k = 1
  BY <1>1, OneMore
<1> QED
  BY <1>1, <1>2, Zenon DEF Left

(* A part that is handed out, and one that is not.                         *)
Given(k) == IsAddress(name.parts[k]) /\ (k = 1 => Kind[name.parts[k]] # "bare")

LEMMA ParsedLeft ==
  ASSUME name \in Names, "parts" \in DOMAIN name, NEW k \in 1 .. Len(name.parts)
  PROVE  /\ Parsed(Left(k - 1)) \in Seq(Part) /\ name.parts[k] \in Part
         /\ Parsed(Left(k)) = IF Given(k) THEN Append(Parsed(Left(k - 1)), name.parts[k])
                                          ELSE Parsed(Left(k - 1))
<1>1. /\ Left(k) = Append(Left(k - 1), name.parts[k])
      /\ Left(k - 1) \in Seq(Part) /\ name.parts[k] \in Part
      /\ Left(k - 1) = <<>> <=> k = 1
  BY LeftFacts
<1> QED
  BY <1>1, ParsedAppend, ParsedTyped DEF Given

(* No dot is left: the first part is.                                      *)
LEMMA FirstPartLeft ==
  ASSUME PInv, "parts" \in DOMAIN name, InLoop, NoDotLeft,
         NEW k \in 0 .. Len(name.parts), ReadTo(k)
  PROVE  /\ k = 1 /\ 1 \in 1 .. Len(name.parts)
         /\ rightIndex = FirstLabelEnd /\ rightIndex = name.ends[1] /\ name.len > 0
         /\ FirstLabelEnd \in Nat
         /\ Kind[name.parts[1]] # "v4"
         /\ Kind[name.parts[1]] = "short" <=> FirstLabelEnd = 1
         /\ Kind[name.parts[1]] \in {"colon", "v6"}
              <=> \E c \in name.colons : c + 2 < FirstLabelEnd
         /\ IsAddress(name.parts[1]) <=> <<0, rightIndex>> \in name.ips
<1>1. name.len > 0 /\ rightIndex = FirstLabelEnd /\ IInv
  BY AtFirstLabel DEF PInv, FInv
<1>2. /\ FirstLabelEnd \in 1 .. name.len /\ name.len \in Nat
      /\ \A d \in name.dots : FirstLabelEnd <= d
      /\ name.dots \subseteq Nat /\ name.colons \subseteq Nat
  BY <1>1, FirstLabelFacts, TextFacts DEF IInv
<1>3. k # 0
  BY <1>1, <1>2 DEF ReadTo
<1>4. k \in 1 .. Len(name.parts) /\ rightIndex = name.ends[k]
  BY <1>3 DEF ReadTo
<1>5. k = 1
  <2>1. CASE k # 1
    <3>1. /\ name.ends[k - 1] \in name.dots /\ PartStart(name, k) < name.ends[k]
          /\ PartStart(name, k) = name.ends[k - 1] + 1
      BY <1>4, <2>1, PartFacts DEF PInv
    <3> QED
      BY <1>1, <1>2, <1>4, <3>1
  <2> QED
    BY <2>1
<1>6. PartStart(name, 1) = 0 /\ name.ends[1] = FirstLabelEnd /\ 1 \in 1 .. Len(name.parts)
  BY <1>1, <1>4, <1>5, PartFacts DEF PInv
<1>7. /\ (\E d \in name.dots : 0 <= d /\ d + 1 < FirstLabelEnd) <=> Kind[name.parts[1]] = "v4"
      /\ (\E c \in name.colons : 0 <= c /\ c + 2 < FirstLabelEnd)
           <=> Kind[name.parts[1]] \in {"colon", "v6"}
      /\ 0 + 1 = FirstLabelEnd <=> Kind[name.parts[1]] = "short"
      /\ {s \in name.ips : s[2] = FirstLabelEnd}
           = IF IsAddress(name.parts[1]) THEN {<<0, FirstLabelEnd>>} ELSE {}
  <2>1. PartSlice(name, 1) = <<0, FirstLabelEnd>>
    BY <1>6 DEF PartSlice
  <2> QED
    BY <1>6, <2>1, KindFacts DEF PInv
<1>8. Kind[name.parts[1]] # "v4"
  BY <1>2, <1>7
<1>9. Kind[name.parts[1]] \in {"colon", "v6"}
        <=> \E c \in name.colons : c + 2 < FirstLabelEnd
  BY <1>2, <1>7
<1>10. IsAddress(name.parts[1]) <=> <<0, FirstLabelEnd>> \in name.ips
  <2>1. <<0, FirstLabelEnd>>[2] = FirstLabelEnd
    OBVIOUS
  <2> QED
    BY <1>7, <2>1
<1>11. Kind[name.parts[1]] = "short" <=> FirstLabelEnd = 1
  BY <1>2, <1>7
<1> QED
  BY <1>1, <1>2, <1>4, <1>5, <1>6, <1>8, <1>9, <1>10, <1>11

(* What the reversed result is read as.                                    *)
LEMMA FoundReversed ==
  ASSUME TypeOK
  PROVE  /\ DOMAIN responses = 1 .. Len(responses)
         /\ DOMAIN Reverse(responses) = 1 .. Len(responses)
         /\ Found = [i \in DOMAIN Reverse(responses) |-> PartAt(Reverse(responses)[i])]
         /\ (\A i \in 1 .. Len(responses) : IsPartSlice(responses[i]))
              => \A i \in DOMAIN Reverse(responses) : IsPartSlice(Reverse(responses)[i])
<1>1. responses \in Seq(name.ips)
  BY DEF TypeOK
<1>2. /\ Reverse(responses) \in Seq(name.ips)
      /\ Len(Reverse(responses)) = Len(responses)
      /\ \A i \in 1 .. Len(responses) :
           Reverse(responses)[i] = responses[Len(responses) - i + 1]
  BY <1>1, ReverseFacts
<1>3. Len(responses) \in Nat /\ DOMAIN responses = 1 .. Len(responses)
      /\ DOMAIN Reverse(responses) = 1 .. Len(responses)
  BY <1>1, <1>2
<1>4. \A i \in 1 .. Len(responses) : Len(responses) - i + 1 \in 1 .. Len(responses)
  BY <1>3
<1> QED
  BY <1>2, <1>3, <1>4 DEF Found

LEMMA AppendConcat ==
  ASSUME NEW T, NEW a \in Seq(T), NEW b \in Seq(T), NEW e \in T
  PROVE  Append(a, e) \o b = a \o (<<e>> \o b)
  OBVIOUS

LEMMA FoundTyped ==
  ASSUME name \in Names, "parts" \in DOMAIN name, TypeOK,
         \A i \in 1 .. Len(responses) : IsPartSlice(responses[i])
  PROVE  Found \in Seq(Part) /\ Len(Found) = Len(responses)
<1>1. /\ DOMAIN Reverse(responses) = 1 .. Len(responses) /\ Len(responses) \in Nat
      /\ \A i \in 1 .. Len(responses) : IsPartSlice(Reverse(responses)[i])
  <2>1. responses \in Seq(name.ips)
    BY DEF TypeOK
  <2>2. Len(responses) \in Nat
    BY <2>1
  <2> QED
    BY <2>2, FoundReversed
<1>2. ASSUME NEW i \in 1 .. Len(responses)
      PROVE  PartAt(Reverse(responses)[i]) \in Part
  <2>1. PICK j \in DOMAIN name.parts : Reverse(responses)[i] = PartSlice(name, j)
    BY <1>1 DEF IsPartSlice
  <2>2. name.parts \in Seq(Part)
    BY PartsAssumption DEF MadeOfParts
  <2>3. j \in 1 .. Len(name.parts)
    BY <2>2
  <2>4. PartAt(PartSlice(name, j)) = name.parts[j]
    BY <2>3, OnePart
  <2> QED
    BY <2>1, <2>2, <2>3, <2>4
<1> QED
  BY <1>1, <1>2 DEF Found

LEMMA FoundMore ==
  ASSUME TypeOK, UNCHANGED name, NEW e \in name.ips, responses' = Append(responses, e)
  PROVE  Found' = <<PartAt(e)>> \o Found
<1>1. responses \in Seq(name.ips)
  BY DEF TypeOK
<1>2. /\ Len(responses) \in Nat
      /\ Len(responses') = Len(responses) + 1
  BY <1>1
<1>3. Reverse(responses') = <<e>> \o Reverse(responses)
  BY <1>1, ReverseAppend
<1>4. Reverse(responses) \in Seq(name.ips) /\ Len(Reverse(responses)) = Len(responses)
  BY <1>1, ReverseFacts
<1>5. \A i \in 1 .. Len(responses) + 1 :
        Reverse(responses')[i] = IF i = 1 THEN e ELSE Reverse(responses)[i - 1]
  BY <1>2, <1>3, <1>4
<1>6. Found' = [i \in 1 .. Len(responses) + 1 |-> PartAt(Reverse(responses')[i])]
  BY <1>2 DEF Found, PartAt
<1>7. Found = [i \in 1 .. Len(responses) |-> PartAt(Reverse(responses)[i])]
  BY DEF Found
<1> HIDE DEF Found
<1>8. <<PartAt(e)>> \o Found
        = [i \in 1 .. Len(responses) + 1 |-> IF i = 1 THEN PartAt(e) ELSE Found[i - 1]]
  <2> DEFINE T == {PartAt(Reverse(responses)[i]) : i \in 1 .. Len(responses)}
  <2>1. Len(Found) = Len(responses) /\ Found \in Seq(T)
    BY <1>2, <1>7
  <2> QED
    BY <1>2, <2>1
<1>9. ASSUME NEW i \in 1 .. Len(responses) + 1
      PROVE  PartAt(Reverse(responses')[i]) = IF i = 1 THEN PartAt(e) ELSE Found[i - 1]
  <2>1. CASE i = 1
    BY <1>2, <1>5, <2>1
  <2>2. CASE i # 1
    <3>1. i - 1 \in 1 .. Len(responses)
      BY <1>2, <2>2
    <3>2. Found[i - 1] = PartAt(Reverse(responses)[i - 1])
      BY <1>7, <3>1
    <3> QED
      BY <1>5, <2>2, <3>2
  <2> QED
    BY <2>1, <2>2
<1> QED
  BY <1>6, <1>8, <1>9, Zenon

(* A match is the last part left.                                          *)
LEMMA MatchReads ==
  ASSUME PInv, "parts" \in DOMAIN name, Match, NEW k \in 0 .. Len(name.parts), ReadTo(k)
  PROVE  k - 1 \in 0 .. Len(name.parts) /\ ReadTo(k - 1)'
<1>1. /\ <<leftIndex, rightIndex>> \in name.ips
      /\ leftIndex \in Nat /\ leftIndex + 2 <= rightIndex
      /\ responses' = Append(responses, <<leftIndex, rightIndex>>)
      /\ rightIndex' = leftIndex - 1
      /\ UNCHANGED <<name, pc>> /\ pc = "scan" /\ rightIndex \in Nat
  BY MatchTakesLabels, TextFacts DEF PInv, FInv, IInv
<1>2. name \in Names /\ TypeOK
  BY DEF PInv, FInv, IInv
<1>3. k # 0 /\ k \in 1 .. Len(name.parts) /\ rightIndex = name.ends[k]
  BY <1>1 DEF ReadTo
<1>4. /\ IsAddress(name.parts[k]) /\ <<leftIndex, rightIndex>> = PartSlice(name, k)
      /\ leftIndex = PartStart(name, k)
  <2>1. /\ {s \in name.ips : s[2] = name.ends[k]}
              = IF IsAddress(name.parts[k]) THEN {PartSlice(name, k)} ELSE {}
    BY <1>2, <1>3, KindFacts
  <2>2. <<leftIndex, rightIndex>> \in {s \in name.ips : s[2] = name.ends[k]}
    BY <1>1, <1>3
  <2>3. IsAddress(name.parts[k]) /\ <<leftIndex, rightIndex>> = PartSlice(name, k)
    BY <2>1, <2>2
  <2> QED
    BY <2>3 DEF PartSlice
<1>5. k = 1 => Kind[name.parts[1]] \notin {"bare", "short", "colon"}
  <2>1. SUFFICES ASSUME k = 1, Kind[name.parts[1]] = "bare" PROVE FALSE
    BY <1>4 DEF IsAddress
  <2>2. PartStart(name, 1) = 0 /\ leftIndex = 0
    BY <1>2, <1>3, <1>4, <2>1, PartFacts
  <2>3. NoDotLeft
    <3>1. ~ \E d \in name.dots : 0 <= d /\ d + 1 < rightIndex
      BY <1>2, <1>3, <2>1, <2>2, KindFacts
    <3>2. name.dots \subseteq Nat /\ rightIndex - 1 \in Int
      BY <1>1, <1>2, TextFacts
    <3>3. \A d \in name.dots : ~(d < rightIndex - 1)
      BY <1>1, <3>1, <3>2
    <3>4. LastIndex(name.dots, rightIndex - 1) \in Int
          /\ ~(LastIndex(name.dots, rightIndex - 1) >= 0)
      BY <3>2, <3>3, LastIndexFacts
    <3> QED
      BY <3>4 DEF NoDotLeft
  <2>4. /\ rightIndex = FirstLabelEnd /\ name.len > 0
        /\ Kind[name.parts[1]] = "short" <=> FirstLabelEnd = 1
        /\ Kind[name.parts[1]] \in {"colon", "v6"}
             <=> \E c \in name.colons : c + 2 < FirstLabelEnd
    <3>1. InLoop
      BY DEF Match
    <3> QED
      BY <2>3, <3>1, FirstPartLeft
  <2>5. ~Shown
    BY <2>1, <2>4 DEF Shown
  <2>6. leftIndex = FirstLabelEnd - 1
    BY <1>1, <2>4, <2>5 DEF PInv, FInv
  <2> QED
    BY <1>1, <2>4, <2>6
<1>6. Given(k)
  BY <1>4, <1>5 DEF Given
<1>7. Parsed(Left(k)) = Append(Parsed(Left(k - 1)), name.parts[k])
      /\ Parsed(Left(k - 1)) \in Seq(Part) /\ name.parts[k] \in Part
  BY <1>2, <1>3, <1>6, ParsedLeft
<1>8. Found' = <<name.parts[k]>> \o Found
  <2>1. PartAt(<<leftIndex, rightIndex>>) = name.parts[k]
    BY <1>2, <1>3, <1>4, OnePart
  <2>2. Found' = <<PartAt(<<leftIndex, rightIndex>>)>> \o Found
    BY <1>1, <1>2, FoundMore
  <2> QED
    BY <2>1, <2>2
<1>9. Parsed(Left(k - 1)) \o Found' = Parsed(name.parts)
  <2>1. Found \in Seq(Part)
    BY <1>2, FoundTyped DEF ReadTo
  <2>2. Append(Parsed(Left(k - 1)), name.parts[k]) \o Found
          = Parsed(Left(k - 1)) \o (<<name.parts[k]>> \o Found)
    BY <1>7, <2>1, AppendConcat
  <2>3. Parsed(Left(k)) \o Found = Parsed(name.parts)
    BY DEF ReadTo
  <2> QED
    BY <1>7, <1>8, <2>2, <2>3, Zenon
<1>10. \A i \in 1 .. Len(responses)' : IsPartSlice(responses[i])'
  <2>1. responses \in Seq(name.ips)
    BY <1>2 DEF TypeOK
  <2>2. /\ Len(responses') = Len(responses) + 1 /\ Len(responses) \in Nat
        /\ \A i \in 1 .. Len(responses) : responses'[i] = responses[i]
        /\ responses'[Len(responses) + 1] = <<leftIndex, rightIndex>>
    BY <1>1, <2>1
  <2>3. IsPartSlice(<<leftIndex, rightIndex>>)
    BY <1>2, <1>3, <1>4, OnePart
  <2>4. \A i \in 1 .. Len(responses) + 1 : IsPartSlice(responses'[i])
    <3>1. \A i \in 1 .. Len(responses) : IsPartSlice(responses[i])
      BY DEF ReadTo
    <3>2. \A i \in 1 .. Len(responses) + 1 : i \in 1 .. Len(responses) \/ i = Len(responses) + 1
      BY <2>2
    <3> HIDE DEF IsPartSlice
    <3> QED
      BY <2>2, <2>3, <3>1, <3>2
  <2> QED
    BY <1>1, <2>2, <2>4 DEF IsPartSlice
<1>11. IF k - 1 = 0 THEN rightIndex' <= 0 /\ ~ParsePanics(name.parts)
                    ELSE rightIndex' = name.ends[k - 1]
  <2>1. CASE k = 1
    <3>1. leftIndex = 0
      BY <1>2, <1>3, <1>4, <2>1, PartFacts
    <3> QED
      BY <1>1, <1>5, <2>1, <3>1 DEF ParsePanics
  <2>2. CASE k # 1
    <3>1. leftIndex = name.ends[k - 1] + 1 /\ name.ends[k - 1] \in Nat
      <4>1. k - 1 \in 1 .. Len(name.parts) /\ leftIndex = name.ends[k - 1] + 1
        BY <1>2, <1>3, <1>4, <2>2, PartFacts
      <4> QED
        BY <1>2, <4>1, PartFacts
    <3> QED
      BY <1>1, <1>3, <2>2, <3>1
  <2> QED
    BY <2>1, <2>2
<1>12. Left(k - 1)' = Left(k - 1) /\ k - 1 \in 0 .. Len(name.parts)
  BY <1>1, <1>3 DEF Left
<1> QED
  BY <1>1, <1>9, <1>10, <1>11, <1>12 DEF ReadTo

(* A part that is skipped is no address, and the dot before it is next.    *)
LEMMA SkipReads ==
  ASSUME PInv, "parts" \in DOMAIN name, SkipRight, NEW k \in 0 .. Len(name.parts),
         ReadTo(k)
  PROVE  k - 1 \in 0 .. Len(name.parts) /\ ReadTo(k - 1)'
<1>1. /\ leftIndex = 0 /\ rightIndex > 2
      /\ rightIndex' \in name.dots /\ rightIndex' < rightIndex - 1
      /\ \A d \in name.dots : d < rightIndex - 1 => d <= rightIndex'
      /\ UNCHANGED <<name, responses, pc>>
  BY SkipFindsDot DEF PInv, FInv
<1>2. name \in Names /\ TypeOK /\ name.dots \subseteq Nat /\ rightIndex \in Int
  BY TextFacts DEF PInv, FInv, IInv
<1>3. k # 0 /\ k \in 1 .. Len(name.parts) /\ rightIndex = name.ends[k]
  BY <1>1, <1>2 DEF ReadTo
<1>4. /\ PartStart(name, k) \in Nat /\ PartStart(name, k) < rightIndex
      /\ k = 1 => PartStart(name, k) = 0
      /\ k # 1 => /\ k - 1 \in 1 .. Len(name.parts)
                  /\ PartStart(name, k) = name.ends[k - 1] + 1
                  /\ name.ends[k - 1] \in name.dots
  BY <1>2, <1>3, PartFacts
<1>5. ~IsAddress(name.parts[k])
  <2>1. SUFFICES ASSUME IsAddress(name.parts[k]) PROVE FALSE
    OBVIOUS
  <2>2. {s \in name.ips : s[2] = name.ends[k]} = {PartSlice(name, k)}
    BY <1>2, <1>3, <2>1, KindFacts
  <2>3. PartSlice(name, k) \in name.ips /\ PartSlice(name, k)[2] = rightIndex
    BY <1>3, <2>2
  <2>4. PartSlice(name, k) = <<PartStart(name, k), rightIndex>>
    BY <1>3 DEF PartSlice
  <2>5. <<PartStart(name, k), rightIndex>>[1] <= leftIndex
    BY <2>3, <2>4 DEF PInv, FInv, IInv, Tried
  <2>6. PartStart(name, k) = leftIndex
    BY <1>1, <1>4, <2>5
  <2> QED
    BY <2>3, <2>4, <2>6 DEF SkipRight, CanJump, Parses
<1>6. rightIndex' < PartStart(name, k)
  <2>1. ~ \E d \in name.dots : PartStart(name, k) <= d /\ d + 1 < rightIndex
    <3>1. Kind[name.parts[k]] # "v4"
      BY <1>5 DEF IsAddress
    <3> QED
      BY <1>2, <1>3, <3>1, KindFacts
  <2> QED
    BY <1>1, <1>2, <1>4, <2>1
<1>7. k # 1 /\ rightIndex' = name.ends[k - 1] /\ k - 1 \in 1 .. Len(name.parts)
  <2>1. rightIndex' \in Nat
    BY <1>1, <1>2
  <2>2. k # 1
    BY <1>4, <1>6, <2>1
  <2>3. name.ends[k - 1] \in name.dots /\ name.ends[k - 1] \in Nat
        /\ name.ends[k - 1] < rightIndex - 1
    BY <1>2, <1>4, <2>2
  <2>4. name.ends[k - 1] <= rightIndex'
    BY <1>1, <2>3
  <2> QED
    BY <1>4, <1>6, <2>1, <2>2, <2>3, <2>4
<1>8. Parsed(Left(k - 1)) = Parsed(Left(k))
  <2>1. ~Given(k)
    BY <1>5 DEF Given
  <2> QED
    BY <1>2, <1>3, <2>1, ParsedLeft
<1>9. Left(k - 1)' = Left(k - 1) /\ Found' = Found
  BY <1>1 DEF Left, Found, PartAt
<1>10. (\A i \in 1 .. Len(responses) : IsPartSlice(responses[i]))'
  BY <1>1 DEF ReadTo, IsPartSlice
<1>11. Parsed(Left(k)) \o Found = Parsed(name.parts)
  BY DEF ReadTo
<1>12. k - 1 # 0 /\ k - 1 \in 0 .. Len(name.parts)
  BY <1>3, <1>7
<1> QED
  BY <1>1, <1>7, <1>8, <1>9, <1>10, <1>11, <1>12 DEF ReadTo

(* Nothing that is handed out is left when the loop is left.               *)
LEMMA LeaveReads ==
  ASSUME PInv, "parts" \in DOMAIN name, Break \/ Exhausted,
         NEW k \in 0 .. Len(name.parts), ReadTo(k)
  PROVE  Found = Parsed(name.parts) /\ ~ParsePanics(name.parts)
<1>1. name \in Names /\ IInv /\ leftIndex \in Int /\ rightIndex \in Int
  BY TextFacts DEF PInv, FInv, IInv
<1>2. name.parts \in Seq(Part)
  BY <1>1, PartsAssumption DEF MadeOfParts
<1>3. Found \in Seq(Part) /\ Parsed(Left(k)) \o Found = Parsed(name.parts)
  BY <1>1, FoundTyped DEF ReadTo, IInv
<1>4. Parsed(<<>>) = <<>>
  BY OnlyNone DEF Parsed, Addresses
<1>5. CASE Exhausted
  <2>1. rightIndex <= 0
    BY <1>1, <1>5 DEF Exhausted, IInv, Bounds
  <2>2. k = 0
    <3>1. CASE k # 0
      <4>1. PartStart(name, k) \in Nat /\ PartStart(name, k) < name.ends[k]
            /\ name.ends[k] \in Nat /\ rightIndex = name.ends[k]
        BY <1>1, <3>1, PartFacts DEF ReadTo
      <4> QED
        BY <2>1, <4>1
    <3> QED
      BY <3>1
  <2>3. Left(k) = <<>>
    BY <1>2, <2>2 DEF Left
  <2>4. ~ParsePanics(name.parts)
    BY <2>2 DEF ReadTo
  <2>5. <<>> \o Found = Found
    BY <1>3
  <2> QED
    BY <1>3, <1>4, <2>3, <2>4, <2>5, Zenon
<1>6. CASE Break
  <2>1. InLoop /\ NoDotLeft /\ leftIndex > 0 /\ NoColonLeft /\ ~Parses /\ pc = "scan"
    BY <1>6 DEF Break, InLoop
  <2>2. /\ k = 1 /\ 1 \in 1 .. Len(name.parts)
        /\ rightIndex = FirstLabelEnd /\ name.len > 0 /\ FirstLabelEnd \in Nat
        /\ Kind[name.parts[1]] # "v4"
        /\ Kind[name.parts[1]] = "short" <=> FirstLabelEnd = 1
        /\ Kind[name.parts[1]] \in {"colon", "v6"}
             <=> \E c \in name.colons : c + 2 < FirstLabelEnd
    BY <2>1, FirstPartLeft
  <2>3. leftIndex = FirstLabelEnd - 1
    BY <1>1, <2>1, <2>2 DEF PInv, FInv
  <2>4. \A c \in name.colons : ~(c < leftIndex - 1)
    <3>1. leftIndex - 1 \in Int /\ LastIndex(name.colons, leftIndex - 1) < 0
          /\ name.colons \subseteq Nat
      BY <1>1, <2>1, TextFacts DEF NoColonLeft, IInv
    <3> QED
      BY <3>1, LastIndexFacts
  <2>5. Kind[name.parts[1]] \notin {"v4", "v6", "colon", "short"}
    <3>1. ~ \E c \in name.colons : c + 2 < FirstLabelEnd
      <4>1. name.colons \subseteq Nat
        BY <1>1, TextFacts DEF IInv
      <4> QED
        BY <2>2, <2>3, <2>4, <4>1
    <3>2. FirstLabelEnd # 1
      BY <2>1, <2>2, <2>3
    <3> QED
      BY <2>2, <3>1, <3>2
  <2>6. ~Given(1) /\ ~ParsePanics(name.parts)
    BY <2>5 DEF Given, IsAddress, ParsePanics
  <2>7. Parsed(Left(1)) = Parsed(Left(0))
    <3>1. Parsed(Left(1)) = Parsed(Left(1 - 1))
      BY <1>1, <2>2, <2>6, ParsedLeft
    <3> QED
      BY <3>1
  <2>8. Left(0) = <<>>
    BY <1>2 DEF Left
  <2>9. <<>> \o Found = Found
    BY <1>3
  <2> QED
    BY <1>3, <1>4, <2>2, <2>6, <2>7, <2>8, <2>9, Zenon
<1> QED
  BY <1>5, <1>6

(* Where the stop test panics the first part is one it is said to panic on. *)
LEMMA PanicReads ==
  ASSUME PInv, "parts" \in DOMAIN name, SlicePanic,
         NEW k \in 0 .. Len(name.parts), ReadTo(k)
  PROVE  ParsePanics(name.parts)
<1>1. InLoop /\ NoDotLeft /\ leftIndex = 0 /\ ~Parses /\ pc = "scan"
  BY DEF SlicePanic, InLoop
<1>2. /\ 1 \in 1 .. Len(name.parts)
      /\ rightIndex = FirstLabelEnd /\ name.len > 0 /\ FirstLabelEnd \in Nat
      /\ Kind[name.parts[1]] = "short" <=> FirstLabelEnd = 1
      /\ Kind[name.parts[1]] \in {"colon", "v6"}
           <=> \E c \in name.colons : c + 2 < FirstLabelEnd
      /\ IsAddress(name.parts[1]) <=> <<0, rightIndex>> \in name.ips
  BY <1>1, FirstPartLeft
<1>3. Kind[name.parts[1]] # "v6"
  BY <1>1, <1>2 DEF Parses, IsAddress
<1>4. Shown
  BY <1>1, <1>2 DEF PInv, FInv, Shown
<1>5. Kind[name.parts[1]] \in {"short", "colon"}
  BY <1>2, <1>3, <1>4 DEF Shown
<1>6. name.parts # <<>>
  BY <1>2
<1> QED
  BY <1>5, <1>6 DEF ParsePanics

LEMMA PartsInvariant == PInv /\ [Next]_vars => PInv'
<1> SUFFICES ASSUME PInv, [Next]_vars PROVE PInv'
  OBVIOUS
<1>1. FInv' /\ name' = name /\ name \in Names
  <2>1. name' = name
    BY DEF Next, vars, Match, SlicePanic, Break, SkipRight, JumpLeft, Exhausted
  <2> QED
    BY <2>1, FirstLabelInvariant DEF PInv
<1>2. CASE "parts" \notin DOMAIN name
  BY <1>1, <1>2 DEF PInv, ScanReadsParts
<1>3. CASE "parts" \in DOMAIN name
  <2>1. pc = "scan" => \E k \in 0 .. Len(name.parts) : ReadTo(k)
    BY <1>3 DEF PInv
  <2>2. CASE Match \/ SkipRight
    <3>1. pc = "scan" /\ pc' = "scan"
      BY <2>2 DEF Match, SkipRight, CanJump, InLoop
    <3>2. \E k \in 0 .. Len(name.parts) : ReadTo(k)'
      BY <1>3, <2>1, <2>2, <3>1, MatchReads, SkipReads
    <3>3. ScanReadsParts'
      BY <3>1 DEF ScanReadsParts
    <3> QED
      BY <1>1, <3>2, <3>3 DEF PInv
  <2>3. CASE JumpLeft
    <3>1. pc = "scan" /\ pc' = "scan" /\ UNCHANGED <<rightIndex, responses>>
      BY <2>3 DEF JumpLeft, CanJump, InLoop
    <3>2. PICK k \in 0 .. Len(name.parts) : ReadTo(k)
      BY <2>1, <3>1
    <3>3. ReadTo(k)' = ReadTo(k)
      BY <1>1, <3>1 DEF ReadTo, Left, Found, PartAt, IsPartSlice
    <3>4. ScanReadsParts'
      BY <3>1 DEF ScanReadsParts
    <3> QED
      BY <1>1, <3>2, <3>3, <3>4 DEF PInv
  <2>4. CASE Break \/ Exhausted
    <3>1. pc = "scan" /\ pc' = "done" /\ responses' = Reverse(responses)
      BY <2>4 DEF Break, Exhausted, InLoop
    <3>2. PICK k \in 0 .. Len(name.parts) : ReadTo(k)
      BY <2>1, <3>1
    <3>3. Found = Parsed(name.parts) /\ ~ParsePanics(name.parts)
      BY <1>3, <2>4, <3>2, LeaveReads
    <3>4. TypeOK
      BY DEF PInv, FInv, IInv
    <3>5. \A i \in 1 .. Len(responses) : IsPartSlice(responses[i])
      BY <3>2 DEF ReadTo
    <3>6. /\ Found = [i \in DOMAIN responses' |-> PartAt(responses'[i])]
          /\ \A i \in DOMAIN responses' : IsPartSlice(responses'[i])
      BY <3>1, <3>4, <3>5, FoundReversed
    <3>7. [i \in DOMAIN responses |-> PartAt(responses[i])]' = Parsed(name.parts)
      BY <1>1, <3>3, <3>6 DEF PartAt
    <3>8. (\A i \in DOMAIN responses : IsPartSlice(responses[i]))'
      BY <1>1, <3>6 DEF IsPartSlice
    <3>9. ScanReadsParts'
      BY <1>1, <3>1, <3>3, <3>7, <3>8 DEF ScanReadsParts
    <3> QED
      BY <1>1, <3>1, <3>9 DEF PInv
  <2>5. CASE SlicePanic
    <3>1. pc = "scan" /\ pc' = "panic"
      BY <2>5 DEF SlicePanic, InLoop
    <3>2. ParsePanics(name.parts)
      BY <1>3, <2>1, <2>5, <3>1, PanicReads
    <3>3. ScanReadsParts'
      BY <1>1, <3>1, <3>2 DEF ScanReadsParts
    <3> QED
      BY <1>1, <3>1, <3>3 DEF PInv
  <2>6. CASE UNCHANGED vars
    <3>1. UNCHANGED <<name, rightIndex, responses, pc>>
      BY <2>6 DEF vars
    <3>2. ScanReadsParts' = ScanReadsParts
      BY <3>1 DEF ScanReadsParts, IsPartSlice, PartAt
    <3>3. \A k \in 0 .. Len(name.parts) : ReadTo(k)' = ReadTo(k)
      BY <3>1 DEF ReadTo, Left, Found, PartAt, IsPartSlice
    <3> QED
      BY <1>1, <3>1, <3>2, <3>3 DEF PInv
  <2> QED
    BY <2>2, <2>3, <2>4, <2>5, <2>6 DEF Next
<1> QED
  BY <1>2, <1>3

(* Of a text made of parts the scan hands out the parts that are addresses, *)
(* in their order, and it panics on the first parts it is said to          *)
(* (gyip.go:56-105): what module Resolve takes parseIPs to return.         *)
THEOREM PartsAreRead == Spec => []ScanReadsParts
<1>1. Init => PInv
  <2> SUFFICES ASSUME Init PROVE PInv
    OBVIOUS
  <2>1. FInv
    BY InitFirst
  <2>2. name \in Names /\ pc = "scan" /\ rightIndex = name.len /\ responses = <<>>
    BY DEF Init
  <2>3. ScanReadsParts
    BY <2>2 DEF ScanReadsParts
  <2>4. ASSUME "parts" \in DOMAIN name
        PROVE  Len(name.parts) \in Nat /\ ReadTo(Len(name.parts))
    <3> DEFINE k == Len(name.parts)
    <3>1. /\ name.parts \in Seq(Part)
          /\ IF k = 0 THEN name.len = 0 ELSE name.ends[k] = name.len
      BY <2>2, <2>4, PartsAssumption DEF MadeOfParts
    <3>2. Found = <<>>
      BY <2>2 DEF Found, Reverse
    <3>3. Left(k) = name.parts
      BY <3>1 DEF Left
    <3>4. Parsed(name.parts) \o <<>> = Parsed(name.parts)
      BY <3>1, ParsedTyped
    <3>5. k = 0 => ~ParsePanics(name.parts)
      BY <3>1 DEF ParsePanics
    <3>6. k \in Nat /\ Len(responses) = 0
      BY <2>2, <3>1
    <3>7. Parsed(Left(k)) \o Found = Parsed(name.parts)
      BY <3>2, <3>3, <3>4
    <3> QED
      BY <2>2, <3>1, <3>5, <3>6, <3>7 DEF ReadTo
  <2> QED
    BY <2>1, <2>2, <2>3, <2>4 DEF PInv
<1>2. PInv => ScanReadsParts
  BY DEF PInv
<1> QED
  BY <1>1, <1>2, PartsInvariant, PTL DEF Spec
=============================================================================
