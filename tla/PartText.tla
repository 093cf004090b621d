------------------------------ MODULE PartText ------------------------------
(***************************************************************************)
(* A text of parseIPs that is made of the parts of NameParts: what module  *)
(* Resolve takes the scan to read in it, and what the scan does read.      *)
(***************************************************************************)
EXTENDS ParseIPs, NameParts

(* Such a text carries its parts and the positions where they end.          *)
PartStart(n, i) == IF i = 1 THEN 0 ELSE n.ends[i - 1] + 1
PartSlice(n, i) == <<PartStart(n, i), n.ends[i]>>

(* A dot stands between two parts, and inside one only if it is a quad.     *)
(* Addresses that end where a part ends are whole parts.  (One that ends    *)
(* inside a quad may begin in the quad before it, "1.2.3.4.5.6.7.8".)  And  *)
(* "short", "colon" and "bare" mean what NameParts says.                    *)
MadeOfParts(n) ==
  LET k == Len(n.parts)
  IN  /\ n.parts \in Seq(Part) /\ n.ends \in Seq(Nat) /\ Len(n.ends) = k
      /\ IF k = 0 THEN n.len = 0 ELSE n.ends[k] = n.len
      /\ \A i \in 1 .. k :
           LET from == PartStart(n, i)
               end  == n.ends[i]
               kind == Kind[n.parts[i]]
           IN  /\ from < end
               /\ i < k => end \in n.dots
               /\ (\E d \in n.dots : from <= d /\ d + 1 < end) <=> kind = "v4"
               /\ {s \in n.ips : s[2] = end}
                    = IF IsAddress(n.parts[i]) THEN {PartSlice(n, i)} ELSE {}
               /\ from + 1 = end <=> kind = "short"
               /\ (\E c \in n.colons : from <= c /\ c + 2 < end) <=> kind \in {"colon", "v6"}

ASSUME PartsAssumption ==
  \A n \in Names : "parts" \in DOMAIN n => MadeOfParts(n)

-----------------------------------------------------------------------------
IsPartSlice(s) == \E i \in DOMAIN name.parts : s = PartSlice(name, i)
PartAt(s) == name.parts[CHOOSE i \in DOMAIN name.parts : s = PartSlice(name, i)]

(* The addresses parseIPs returns are those of the parts, in their order,  *)
(* and it panics where Resolve has the handler panic (gyip.go:56-105).     *)
ScanReadsParts ==
  "parts" \in DOMAIN name =>
    /\ pc = "done" =>
         /\ ~ParsePanics(name.parts)
         /\ \A i \in DOMAIN responses : IsPartSlice(responses[i])
         /\ [i \in DOMAIN responses |-> PartAt(responses[i])] = Parsed(name.parts)
    /\ pc = "panic" => ParsePanics(name.parts)
=============================================================================
