----------------------------- MODULE AddressScan -----------------------------
(***************************************************************************)
(* What parseIPs promises (gyip.go:45-55): the addresses of a question are *)
(* found from right to left, the "."s are the only places where one may    *)
(* begin or end, the shortest address ending at a place is taken, the text *)
(* of an address is discarded once it is taken, and text that is part of   *)
(* no address is skipped one label at a time.  The one exception is an      *)
(* address that begins the text and does not show.                          *)
(***************************************************************************)
EXTENDS AddressText, Sequences

VARIABLES
  name,      \* the text scanned
  end,       \* the text at and after this position is dealt with
  found,     \* the addresses found, from left to right
  finished   \* the result is handed out

vars == <<name, end, found, finished>>

StartsOf(e) == {l \in 0 .. name.len : <<l, e>> \in name.ips}

Init ==
  /\ name \in Names
  /\ end = name.len
  /\ found = <<>>
  /\ finished = FALSE

Take ==
  /\ ~finished
  /\ StartsOf(end) # {}
  /\ LET l == Max(StartsOf(end))
     IN  /\ found' = <<<<l, end>>>> \o found
         /\ end' = l - 1
  /\ UNCHANGED <<name, finished>>

Skip ==
  /\ ~finished
  /\ StartsOf(end) = {}
  /\ LastIndex(name.dots, end) >= 0
  /\ end' = LastIndex(name.dots, end)
  /\ UNCHANGED <<name, found, finished>>

Finish ==
  /\ ~finished
  /\ StartsOf(end) = {}
  /\ LastIndex(name.dots, end) < 0
  /\ finished' = TRUE
  /\ UNCHANGED <<name, end, found>>

(* The text left is an address, and is given up for none. *)
Overlook ==
  /\ ~finished
  /\ \E l \in StartsOf(end) : ~ColonShows(name, <<l, end>>)
  /\ LastIndex(name.dots, end) < 0
  /\ finished' = TRUE
  /\ UNCHANGED <<name, end, found>>

Next == Take \/ Skip \/ Finish \/ Overlook

Spec == Init /\ [][Next]_vars
=============================================================================
