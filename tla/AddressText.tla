----------------------------- MODULE AddressText -----------------------------
(***************************************************************************)
(* The text parseIPs scans: what a question's name holds before the served *)
(* domain.  The scan looks at it only through its length, the positions of *)
(* its dots and colons, and the index pairs <<left, right>> whose slice    *)
(* [left:right] net.ParseIP accepts: a text is a record of these four.     *)
(***************************************************************************)
EXTENDS Integers, FiniteSetsExt

CONSTANT Names      \* the texts considered

LabelStart(n, i) == i = 0 \/ i - 1 \in n.dots
LabelEnd(n, i)   == i = n.len \/ i \in n.dots

(* Labels are not empty, and an address is made of whole labels; "::" is   *)
(* the shortest one.                                                       *)
WellFormed(n) ==
  /\ n.len \in Nat
  /\ n.dots \subseteq 1 .. n.len - 2
  /\ \A d \in n.dots : d + 1 \notin n.dots
  /\ n.colons \subseteq 0 .. n.len - 1
  /\ n.ips \subseteq (0 .. n.len) \X (0 .. n.len)
  /\ \A s \in n.ips : /\ s[1] + 2 <= s[2]
                      /\ LabelStart(n, s[1])
                      /\ LabelEnd(n, s[2])

ASSUME NamesAssumption == \A n \in Names : WellFormed(n)

(* strings.LastIndex(text[0:n], c), for the positions S of the character c *)
LastIndex(S, n) ==
  LET below == {i \in S : i < n}
  IN  IF below = {} THEN -1 ELSE Max(below)

Overlap(s, t) == s[1] < t[2] /\ t[1] < s[2]

(* A leading address shows by a colon before its last two characters, any   *)
(* other one by the dot before it: "::" and "1::" do not.                   *)
ColonShows(n, s) ==
  s[1] = 0 /\ (\A d \in n.dots : s[2] <= d) => \E c \in n.colons : c + 2 < s[2]
=============================================================================
