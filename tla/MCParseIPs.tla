----------------------------- MODULE MCParseIPs -----------------------------
(***************************************************************************)
(* Texts for TLC, made of the kinds of label that matter to the scan.      *)
(* "d" is a one-digit and "dd" a two-digit decimal label, "w" and "word"   *)
(* are other labels of one and of four characters, "a:bc" a label with a   *)
(* colon that is no address, "a::b", "a::" and "::" IPv6 addresses, and    *)
(* "::f:d" one that three decimal labels may complete ("::f:1.2.3.4").     *)
(***************************************************************************)
EXTENDS PartText

Width(k) == CASE k \in {"d", "w"} -> 1
              [] k \in {"dd", "::"} -> 2
              [] k = "a::" -> 3
              [] k \in {"word", "a:bc", "a::b"} -> 4
              [] k = "::f:d" -> 5

ColonsIn(k) == CASE k = "a:bc" -> {1}
                 [] k \in {"a::b", "a::"} -> {1, 2}
                 [] k = "::" -> {0, 1}
                 [] k = "::f:d" -> {0, 1, 3}
                 [] OTHER -> {}

Decimal  == {"d", "dd"}
SixAlone == {"a::b", "a::", "::", "::f:d"}

(* The index pair of labels i .. j of the text ks *)
StartOf(ks, i) == FoldLeft(LAMBDA a, k : a + Width(k) + 1, 0, SubSeq(ks, 1, i - 1))
SliceOf(ks, i, j) == <<StartOf(ks, i), StartOf(ks, j) + Width(ks[j])>>

AddressLabels(ks) ==
  \/ Len(ks) = 1 /\ ks[1] \in SixAlone
  \/ Len(ks) = 4 /\ ks[1] \in Decimal \cup {"::f:d"}
                 /\ \A m \in 2 .. 4 : ks[m] \in Decimal

TextOf(ks) ==
  LET n == Len(ks)
  IN  [len    |-> IF n = 0 THEN 0 ELSE StartOf(ks, n) + Width(ks[n]),
       dots   |-> {StartOf(ks, i) - 1 : i \in 2 .. n},
       colons |-> UNION {{StartOf(ks, i) + c : c \in ColonsIn(ks[i])} : i \in 1 .. n},
       ips    |-> {SliceOf(ks, p[1], p[2]) :
                     p \in {q \in (1 .. n) \X (1 .. n) :
                              q[1] <= q[2] /\ AddressLabels(SubSeq(ks, q[1], q[2]))}}]

TextsOver(kinds, n) == {TextOf(ks) : ks \in SeqOf(kinds, n)}

(* Every kind in short texts, and decimal labels enough for two quads and a *)
(* label between them, as in "10.27.14.34.45.337.0.1".                      *)
AllTexts == TextsOver({"d", "w", "word", "a:bc", "a::b", "a::", "::", "::f:d"}, 4)
              \cup TextsOver({"d", "dd", "w"}, 6)
              \cup TextsOver({"dd", "word"}, 9)

-----------------------------------------------------------------------------
(* Texts made of the parts of NameParts: one for each kind and two quads   *)
(* of different widths.                                                    *)
PartLabels == [word |-> <<"word">>, short |-> <<"w">>, colon |-> <<"a:bc">>,
               bare |-> <<"::">>, v6 |-> <<"a::b">>,
               quad |-> <<"d", "d", "d", "d">>, wide |-> <<"dd", "d", "d", "dd">>]

MCPart == DOMAIN PartLabels
MCKind == [p \in MCPart |-> IF p \in {"quad", "wide"} THEN "v4" ELSE p]

LabelsOf(ps) == FlattenSeq([i \in DOMAIN ps |-> PartLabels[ps[i]]])

TextOfParts(ps) ==
  LET ls   == LabelsOf(ps)
      upTo == [i \in 1 .. Len(ps) |-> Len(LabelsOf(SubSeq(ps, 1, i)))]
  IN  [parts |-> ps,
       ends  |-> [i \in 1 .. Len(ps) |-> SliceOf(ls, 1, upTo[i])[2]]] @@ TextOf(ls)

PartTexts == {TextOfParts(ps) : ps \in BoundedSeq(MCPart, 4)}

ScannedTexts == AllTexts \cup PartTexts
=============================================================================
