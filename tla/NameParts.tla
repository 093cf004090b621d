------------------------------ MODULE NameParts ------------------------------
(***************************************************************************)
(* Names as sequences of parts, from left to right.  A part is a label or  *)
(* the four labels of a dotted quad; outside quads no label is a number.   *)
(* ParseIPs is about the labels and characters of a text, here what counts *)
(* is the kind of each part; PartText checks the one against the other.    *)
(***************************************************************************)
EXTENDS Selection, SequencesExt

CONSTANTS
  Part,
  Kind          \* what a part means to the handler, whatever its case

(* "short" is one character, "colon" holds a colon before its last two and *)
(* is no address, "bare" is an IPv6 address without such a colon ("::").   *)
Kinds == {"word", "short", "colon", "bare", "v4", "v6", "rr", "fail", "echo"}

ASSUME KindAssumption == Kind \in [Part -> Kinds]

IsAddress(p) == Kind[p] \in {"v4", "v6", "bare"}

(* The slice [0:-1] of parseIPs' stop test. *)
ParsePanics(text) == text # <<>> /\ Kind[text[1]] \in {"short", "colon"}

Addresses(parts) == Only(parts, {p \in Part : IsAddress(p)})

(* What parseIPs returns when it returns. *)
Parsed(text) ==
  Addresses(IF text # <<>> /\ Kind[text[1]] = "bare" THEN Tail(text) ELSE text)
=============================================================================
