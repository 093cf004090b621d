------------------------------ MODULE TcpService ------------------------------
(***************************************************************************)
(* What a client of the TCP server may rely on: its messages are taken one *)
(* by one in the order it sent them, each message that deserves a reply    *)
(* gets one before the next is taken, unless the client has left, and once *)
(* the connection has ended no message is taken and no reply written.      *)
(***************************************************************************)
EXTENDS Integers, Sequences

CONSTANTS Conn, Kinds

VARIABLES
  asked,     \* messages sent and not yet dealt with, per connection
  sent,      \* messages sent
  replied,   \* the numbers of the messages replied to
  present,   \* the client is there
  ended      \* connections the server has ended

vars == <<asked, sent, replied, present, ended>>

Deserving == {"query", "garbage"}

Init ==
  /\ asked = [c \in Conn |-> <<>>]
  /\ sent = [c \in Conn |-> 0]
  /\ replied = [c \in Conn |-> <<>>]
  /\ present = [c \in Conn |-> FALSE]
  /\ ended = {}

Come(c) ==
  /\ ~present[c] /\ sent[c] = 0
  /\ present' = [present EXCEPT ![c] = TRUE]
  /\ UNCHANGED <<asked, sent, replied, ended>>

Go(c) ==
  /\ present[c]
  /\ present' = [present EXCEPT ![c] = FALSE]
  /\ UNCHANGED <<asked, sent, replied, ended>>

Ask(c) ==
  /\ present[c]
  /\ \E k \in Kinds :
       asked' = [asked EXCEPT ![c] = Append(@, [kind |-> k, n |-> sent[c] + 1])]
  /\ sent' = [sent EXCEPT ![c] = @ + 1]
  /\ UNCHANGED <<replied, present, ended>>

(* The rest of the last message arrives, and it turns out to be a query. *)
AskRest(c) ==
  /\ present[c]
  /\ asked[c] # <<>> /\ asked[c][Len(asked[c])].kind \in {"split", "stalled"}
  /\ asked' = [asked EXCEPT ![c][Len(asked[c])].kind = "query"]
  /\ UNCHANGED <<sent, replied, present, ended>>

Take(c) ==
  /\ c \notin ended
  /\ asked[c] # <<>>
  /\ LET m == Head(asked[c])
     IN  replied' = IF present[c] /\ m.kind \in Deserving
                    THEN [replied EXCEPT ![c] = Append(@, m.n)]
                    ELSE replied
  /\ asked' = [asked EXCEPT ![c] = Tail(@)]
  /\ UNCHANGED <<sent, present>>
  /\ ended' \in {ended, ended \cup {c}}

End ==
  /\ \E C \in SUBSET Conn : ended' = ended \cup C
  /\ UNCHANGED <<asked, sent, replied, present>>

Next ==
  \/ \E c \in Conn : Come(c) \/ Go(c) \/ Ask(c) \/ AskRest(c) \/ Take(c)
  \/ End

Spec == Init /\ [][Next]_vars
=============================================================================
