------------------------------ MODULE ParseIPs ------------------------------
(***************************************************************************)
(* parseIPs of gyip.go, one action for each path through the body of its   *)
(* loop.  The indexes are those of the code.  A response is the index pair *)
(* of the slice that net.ParseIP accepted.                                 *)
(***************************************************************************)
EXTENDS AddressText, SequencesExt

VARIABLES
  name,             \* addressString
  leftIndex,
  rightIndex,
  responses,
  pc                \* "scan" in the loop, "done" once returned, "panic"

vars == <<name, leftIndex, rightIndex, responses, pc>>

-----------------------------------------------------------------------------
Init ==
  /\ name \in Names
  /\ leftIndex = name.len - 1
  /\ rightIndex = name.len
  /\ responses = <<>>
  /\ pc = "scan"

(* net.ParseIP(addressString[leftIndex:rightIndex]) # nil *)
Parses == <<leftIndex, rightIndex>> \in name.ips

(* Mutants: the stop test left out, and asked of the wrong index. *)
NoStopTest       == FALSE
NoDotBeforeSlice == LastIndex(name.dots, leftIndex - 1) < 0

NoDotLeft   == LastIndex(name.dots, rightIndex - 1) < 0
NoColonLeft == LastIndex(name.colons, leftIndex - 1) < 0

InLoop == pc = "scan" /\ leftIndex >= 0

(* Mutants: the indexes move before the slice is kept, the left one stays. *)
MatchKeptLate ==
  /\ InLoop
  /\ Parses
  /\ rightIndex' = leftIndex - 1
  /\ leftIndex' = rightIndex' - 1
  /\ responses' = Append(responses, <<leftIndex, rightIndex'>>)
  /\ UNCHANGED <<name, pc>>

MatchEmptySlice ==
  /\ InLoop
  /\ Parses
  /\ responses' = Append(responses, <<leftIndex, rightIndex>>)
  /\ rightIndex' = leftIndex - 1
  /\ leftIndex' = rightIndex'
  /\ UNCHANGED <<name, pc>>

(* An address: keep it and go on to the left of the dot before it. *)
Match ==
  /\ InLoop
  /\ Parses
  /\ responses' = Append(responses, <<leftIndex, rightIndex>>)
  /\ rightIndex' = leftIndex - 1
  /\ leftIndex' = rightIndex' - 1
  /\ UNCHANGED <<name, pc>>

(* The stop test slices addressString[0:leftIndex-1], which Go refuses when *)
(* leftIndex is 0; && evaluates it only when no dot is left.                *)
SlicePanic ==
  /\ InLoop
  /\ ~Parses
  /\ NoDotLeft
  /\ leftIndex = 0
  /\ pc' = "panic"
  /\ UNCHANGED <<name, leftIndex, rightIndex, responses>>

(* Neither a dot nor a colon to jump to: leave the loop, reverse, return. *)
Break ==
  /\ InLoop
  /\ ~Parses
  /\ NoDotLeft /\ leftIndex > 0 /\ NoColonLeft
  /\ responses' = Reverse(responses)
  /\ pc' = "done"
  /\ UNCHANGED <<name, leftIndex, rightIndex>>

CanJump ==
  /\ InLoop
  /\ ~Parses
  /\ NoDotLeft => leftIndex > 0 /\ ~NoColonLeft

(* Mutant: the left index is not set back to the end of what is left. *)
SkipRightNoReset ==
  /\ CanJump
  /\ leftIndex <= 0
  /\ rightIndex' = IF rightIndex > 2
                   THEN LastIndex(name.dots, rightIndex - 1)
                   ELSE rightIndex
  /\ UNCHANGED <<name, leftIndex, responses, pc>>

(* Mutant: the left index is set back, the right one not moved. *)
SkipRightKept ==
  /\ CanJump
  /\ leftIndex <= 0
  /\ leftIndex' = rightIndex - 1
  /\ UNCHANGED <<name, rightIndex, responses, pc>>

(* The left index is at the start of the text: give up the last label.  A   *)
(* right index of 2 or less is left alone, and so is everything else.       *)
SkipRight ==
  /\ CanJump
  /\ leftIndex <= 0
  /\ rightIndex' = IF rightIndex > 2
                   THEN LastIndex(name.dots, rightIndex - 1)
                   ELSE rightIndex
  /\ leftIndex' = IF rightIndex > 2 THEN rightIndex' - 1 ELSE leftIndex
  /\ UNCHANGED <<name, responses, pc>>

(* Mutant: the jump is too long. *)
JumpLeftToStart ==
  /\ CanJump
  /\ leftIndex > 0
  /\ leftIndex' = 0
  /\ UNCHANGED <<name, rightIndex, responses, pc>>

(* Move the left index to the start of the label before, or of the text. *)
JumpLeft ==
  /\ CanJump
  /\ leftIndex > 0
  /\ leftIndex' = LastIndex(name.dots, leftIndex - 1) + 1
  /\ UNCHANGED <<name, rightIndex, responses, pc>>

(* Mutant: the result is not reversed. *)
ExhaustedUnreversed ==
  /\ pc = "scan"
  /\ leftIndex < 0
  /\ pc' = "done"
  /\ UNCHANGED <<name, leftIndex, rightIndex, responses>>

(* The loop ends because the left index ran off the text. *)
Exhausted ==
  /\ pc = "scan"
  /\ leftIndex < 0
  /\ responses' = Reverse(responses)
  /\ pc' = "done"
  /\ UNCHANGED <<name, leftIndex, rightIndex>>

Next ==
  \/ Match \/ SlicePanic \/ Break
  \/ SkipRight \/ JumpLeft \/ Exhausted

Spec == Init /\ [][Next]_vars

(* The loop is plain sequential code: it runs on until it leaves. *)
FairSpec == Spec /\ WF_vars(Next)

-----------------------------------------------------------------------------
TypeOK ==
  /\ WellFormed(name)
  /\ leftIndex \in -2 .. name.len
  /\ rightIndex \in -1 .. name.len
  /\ responses \in Seq(name.ips)
  /\ pc \in {"scan", "done", "panic"}

(* Every slice the loop takes, [leftIndex:rightIndex] and [0:rightIndex-1], *)
(* lies in the text (gyip.go:66, 75, 82); only [0:leftIndex-1] may not.     *)
SlicesInText == InLoop => leftIndex < rightIndex /\ rightIndex <= name.len

(* The addresses are handed out from left to right "as they would be read"  *)
(* (README.md:119) and no character is part of two of them (gyip.go:50).    *)
LeftToRight ==
  pc = "done" =>
    \A i, j \in 1 .. Len(responses) :
      i < j => responses[i][2] < responses[j][1]

(* Every address of the text is handed out, or it shares characters with    *)
(* one that is: skipping what is no address loses none (gyip.go:50-53).     *)
NoAddressMissed ==
  pc = "done" =>
    \A s \in name.ips : ColonShows(name, s) =>
      \E i \in 1 .. Len(responses) : Overlap(s, responses[i])

(* Every round shortens the text left, or moves the left index on, or ends  *)
(* the loop, and the round that changes nothing is never taken: the scan    *)
(* cannot go round for ever (gyip.go:73-74, 81).                            *)
RoundShrinks ==
  \/ rightIndex' < rightIndex
  \/ rightIndex' = rightIndex /\ leftIndex' < leftIndex
  \/ pc' # "scan"

NoIdleRound == CanJump /\ leftIndex <= 0 => rightIndex > 2

EveryRoundShrinks == [][RoundShrinks]_vars /\ []NoIdleRound

(* The loop is left whatever the text, the confusing ones included.         *)
Terminates == <>(pc # "scan")

(* The stop test of gyip.go:75 crashes the server on the text before its    *)
(* first dot when that text is of no address and is one character long, or  *)
(* holds a colon before its last two characters, and on no other text.      *)
FirstLabelEnd == CHOOSE e \in 1 .. name.len :
                   LabelEnd(name, e) /\ \A d \in name.dots : e <= d

FirstLabelCrashes ==
  /\ name.len > 0
  /\ FirstLabelEnd = 1 \/ \E c \in name.colons : c + 2 < FirstLabelEnd
  /\ <<0, FirstLabelEnd>> \notin name.ips

PanicsOnFirstLabel ==
  /\ pc = "panic" => FirstLabelCrashes
  /\ pc = "done" /\ FirstLabelCrashes => responses # <<>> /\ responses[1][1] = 0

(* "if the string wasn't parsed into an IP and there is no way we can       *)
(* adjust/jump our indexes then we need to stop" (gyip.go:73-74): the scan  *)
(* stops, and the query gets its answer (README.md:53).                     *)
NeverPanics == pc # "panic"

-----------------------------------------------------------------------------
Scan == INSTANCE AddressScan WITH
          end      <- rightIndex,
          found    <- IF pc = "done" THEN responses ELSE Reverse(responses),
          finished <- (pc = "done")

(* parseIPs computes what AddressScan promises, with its exception.          *)
ScansAddresses == Scan!Spec
=============================================================================
