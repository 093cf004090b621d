------------------------------ MODULE UdpService ------------------------------
(***************************************************************************)
(* What a client of the UDP server may rely on, over any network: what it  *)
(* takes for the reply to its question is the reply that question          *)
(* deserves, and the server dies of nothing but a poisonous question.      *)
(***************************************************************************)
EXTENDS Integers, Sequences

CONSTANTS Client, Kinds

VARIABLES
  process,   \* "up" or "dead"
  asked,     \* the kinds of the questions asked so far, per client
  waiting,   \* the client waits for a reply to the last of them
  got        \* the replies it took, by number of the question

vars == <<process, asked, waiting, got>>

(* The reply a datagram deserves: none for a response, an empty datagram,   *)
(* or one too short for a header.                                           *)
Deserved(k) ==
  CASE k = "query"              -> "answer"
    [] k \in {"broken", "long"} -> "formerr"
    [] OTHER                    -> "none"

Init ==
  /\ process = "up"
  /\ asked = [c \in Client |-> <<>>]
  /\ waiting = [c \in Client |-> FALSE]
  /\ got = [c \in Client |-> <<>>]

Ask(c) ==
  /\ ~waiting[c]
  /\ \E k \in Kinds[c] : asked' = [asked EXCEPT ![c] = Append(@, k)]
  /\ waiting' = [waiting EXCEPT ![c] = TRUE]
  /\ got' = [got EXCEPT ![c] = Append(@, "none")]
  /\ UNCHANGED process

GiveUp(c) ==
  /\ waiting[c]
  /\ waiting' = [waiting EXCEPT ![c] = FALSE]
  /\ UNCHANGED <<process, asked, got>>

Reply(c) ==
  LET n == Len(asked[c])
  IN  /\ waiting[c] /\ n > 0
      /\ Deserved(asked[c][n]) # "none"
      /\ got' = [got EXCEPT ![c][n] = Deserved(asked[c][n])]
      /\ waiting' = [waiting EXCEPT ![c] = FALSE]
      /\ UNCHANGED <<process, asked>>

Die ==
  /\ \E c \in Client : \E n \in DOMAIN asked[c] : asked[c][n] = "poison"
  /\ process' = "dead"
  /\ UNCHANGED <<asked, waiting, got>>

Next == Die \/ \E c \in Client : Ask(c) \/ GiveUp(c) \/ Reply(c)

Spec == Init /\ [][Next]_vars
=============================================================================
