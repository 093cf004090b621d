------------------------------ MODULE TcpServer ------------------------------
(***************************************************************************)
(* serveTCP and serve of the DNS library, with the clients around them:    *)
(* one accept loop, which reads the first message of a connection itself,  *)
(* and one goroutine for each connection that got that far.                *)
(*                                                                         *)
(* A message in flight is a record [kind, n], n its number on the          *)
(* connection.  Kinds: a "query" the handler answers, a "poison" query it  *)
(* panics on (module Resolve), a "response" (QR bit set), "garbage" that   *)
(* Unpack refuses, an "empty" one (length 0), a "split" one of which a     *)
(* single byte has arrived and a "stalled" one whose rest has not.         *)
(***************************************************************************)
EXTENDS Integers, SequencesExt

CONSTANTS
  Conn,         \* the connections clients may open
  Kinds,        \* the kinds of message they send
  MaxQueries,   \* maxTCPQueries
  Backlog,      \* connections the kernel keeps for Accept
  SendBuffer,   \* replies the kernel keeps for a client that does not read
  Window,       \* messages in flight to the server
  MaxSent       \* bound: messages a client sends

Whole   == {"query", "poison", "response", "garbage"}
Partial == {"split", "stalled"}

ASSUME ServerAssumption ==
  /\ Kinds \subseteq Whole \cup Partial \cup {"empty"}
  /\ MaxQueries \in Nat
  /\ Backlog \in Nat /\ SendBuffer \in Nat /\ Window \in Nat /\ MaxSent \in Nat

VARIABLES
  process,      \* "up", or "dead" after a handler's panic
  acceptor,     \* serveTCP: "accept", "read", or "stopped"
  backlog,      \* connections Accept has not returned yet
  state,        \* of each connection at the server, see ConnStates
  counter,      \* q of serve
  current,      \* m of serve, the message at hand
  inbox,        \* messages in flight to the server
  outbox,       \* replies the client has not read
  client,       \* "out", "open" or "gone"
  sent,         \* messages sent so far
  replied,      \* numbers of the messages replied to, in order of writing
  served        \* messages serve is through with

vars == <<process, acceptor, backlog, state, counter, current, inbox, outbox,
          client, sent, replied, served>>

(* "none" not accepted yet, "first" in the accept loop's hands, "redo" with *)
(* a message to handle, "write" with a reply to write, "idle" reading the   *)
(* next message, "closed", and "leaked" when nobody will read or close it.  *)
ConnStates == {"none", "first", "redo", "write", "idle", "closed", "leaked"}

Message   == [kind : Whole \cup Partial \cup {"empty"}, n : 1 .. MaxSent]
NoMessage == [kind |-> "none", n |-> 0]

Init ==
  /\ process = "up"
  /\ acceptor = "accept"
  /\ backlog = <<>>
  /\ state = [c \in Conn |-> "none"]
  /\ counter = [c \in Conn |-> 0]
  /\ current = [c \in Conn |-> NoMessage]
  /\ inbox = [c \in Conn |-> <<>>]
  /\ outbox = [c \in Conn |-> <<>>]
  /\ client = [c \in Conn |-> "out"]
  /\ sent = [c \in Conn |-> 0]
  /\ replied = [c \in Conn |-> <<>>]
  /\ served = [c \in Conn |-> 0]

-----------------------------------------------------------------------------
(* The clients and the network.                                            *)

(* The kernel completes the handshake and keeps the connection for Accept. *)
Connect(c) ==
  /\ process = "up" /\ acceptor # "stopped"
  /\ client[c] = "out"
  /\ Len(backlog) < Backlog
  /\ client' = [client EXCEPT ![c] = "open"]
  /\ backlog' = Append(backlog, c)
  /\ UNCHANGED <<process, acceptor, state, counter, current, inbox, outbox,
                 sent, replied, served>>

(* The rest of a message comes before the next one. *)
Send(c, k) ==
  /\ process = "up"
  /\ client[c] = "open" /\ state[c] # "closed"
  /\ sent[c] < MaxSent /\ Len(inbox[c]) < Window
  /\ inbox[c] # <<>> => Last(inbox[c]).kind \notin Partial
  /\ sent' = [sent EXCEPT ![c] = @ + 1]
  /\ inbox' = [inbox EXCEPT ![c] = Append(@, [kind |-> k, n |-> sent[c] + 1])]
  /\ UNCHANGED <<process, acceptor, backlog, state, counter, current, outbox,
                 client, replied, served>>

Complete(c) ==
  /\ process = "up"
  /\ client[c] = "open"
  /\ inbox[c] # <<>> /\ Last(inbox[c]).kind \in Partial
  /\ inbox' = [inbox EXCEPT ![c][Len(inbox[c])].kind = "query"]
  /\ UNCHANGED <<process, acceptor, backlog, state, counter, current, outbox,
                 client, sent, replied, served>>

ReadReply(c) ==
  /\ client[c] = "open" /\ outbox[c] # <<>>
  /\ outbox' = [outbox EXCEPT ![c] = Tail(@)]
  /\ UNCHANGED <<process, acceptor, backlog, state, counter, current, inbox,
                 client, sent, replied, served>>

Leave(c) ==
  /\ client[c] = "open"
  /\ client' = [client EXCEPT ![c] = "gone"]
  /\ UNCHANGED <<process, acceptor, backlog, state, counter, current, inbox,
                 outbox, sent, replied, served>>

-----------------------------------------------------------------------------
(* The accept loop.  A temporary error of Accept changes nothing.          *)

(* Mutant: the first message is left to somebody else to read. *)
AcceptAndGoOn ==
  /\ process = "up"
  /\ acceptor = "accept" /\ backlog # <<>>
  /\ backlog' = Tail(backlog)
  /\ state' = [state EXCEPT ![Head(backlog)] = "first"]
  /\ UNCHANGED <<process, acceptor, counter, current, inbox, outbox, client, sent,
                 replied, served>>

Accept ==
  /\ process = "up"
  /\ acceptor = "accept" /\ backlog # <<>>
  /\ acceptor' = "read"
  /\ backlog' = Tail(backlog)
  /\ state' = [state EXCEPT ![Head(backlog)] = "first"]
  /\ UNCHANGED <<process, counter, current, inbox, outbox, client, sent,
                 replied, served>>

(* Any other error: serveTCP returns, the deferred Close resets what waits. *)
AcceptFails ==
  /\ process = "up"
  /\ acceptor = "accept"
  /\ acceptor' = "stopped"
  /\ backlog' = <<>>
  /\ state' = [c \in Conn |-> IF c \in ToSet(backlog) THEN "closed" ELSE state[c]]
  /\ UNCHANGED <<process, counter, current, inbox, outbox, client, sent,
                 replied, served>>

(* readTCP returns a message once all of it is there ... *)
Readable(c) == inbox[c] # <<>> /\ Head(inbox[c]).kind \in Whole

(* ... and an error for a length of 0, for a single byte of the length, at *)
(* the end or reset of the connection, and once the deadline has passed:   *)
(* it is set once for the whole message and checked before the data is.    *)
Refusable(c) == inbox[c] # <<>> /\ Head(inbox[c]).kind \in {"empty", "split"}

ReadFirst(c) ==
  /\ process = "up"
  /\ state[c] = "first" /\ Readable(c)
  /\ acceptor' = "accept"
  /\ state' = [state EXCEPT ![c] = "redo"]
  /\ current' = [current EXCEPT ![c] = Head(inbox[c])]
  /\ inbox' = [inbox EXCEPT ![c] = Tail(@)]
  /\ UNCHANGED <<process, backlog, counter, outbox, client, sent, replied, served>>

(* The loop goes on to the next connection and does not close this one. *)
GiveUpFirst(c) ==
  /\ process = "up"
  /\ state[c] = "first"
  /\ acceptor' = "accept"
  /\ state' = [state EXCEPT ![c] = "leaked"]
  /\ UNCHANGED <<process, backlog, counter, current, inbox, outbox, client, sent,
                 replied, served>>

FirstRefused(c) == Refusable(c) /\ GiveUpFirst(c)
FirstEnded(c)   == client[c] = "gone" /\ GiveUpFirst(c)

(* Mutants: no deadline is set for the first message, or for the next. *)
NoDeadline(c) == FALSE

FirstTimeout(c) == GiveUpFirst(c)

(* Unreachable, the connection is closed by its finalizer, some day.       *)
Collect(c) ==
  /\ process = "up"
  /\ state[c] = "leaked"
  /\ state' = [state EXCEPT ![c] = "closed"]
  /\ UNCHANGED <<process, acceptor, backlog, counter, current, inbox, outbox,
                 client, sent, replied, served>>

-----------------------------------------------------------------------------
(* serve, one goroutine for each connection.                               *)

(* Mutant: the test comes one query too late. *)
ExitLate(c) ==
  /\ state' = [state EXCEPT ![c] = IF counter[c] > MaxQueries + 1 THEN "closed" ELSE "idle"]
  /\ current' = [current EXCEPT ![c] = NoMessage]
  /\ served' = [served EXCEPT ![c] = @ + 1]

(* The code at Exit: close after too many queries, else read the next. *)
Exit(c) ==
  /\ state' = [state EXCEPT ![c] = IF counter[c] > MaxQueries THEN "closed" ELSE "idle"]
  /\ current' = [current EXCEPT ![c] = NoMessage]
  /\ served' = [served EXCEPT ![c] = @ + 1]

(* Unpack succeeds and the message is a response: nothing is said to it. *)
Ignore(c) ==
  /\ process = "up"
  /\ state[c] = "redo" /\ current[c].kind = "response"
  /\ Exit(c)
  /\ UNCHANGED <<process, acceptor, backlog, counter, inbox, outbox, client,
                 sent, replied>>

(* Mutant: responses are handled like queries. *)
HandleResponses(c) ==
  /\ process = "up"
  /\ state[c] = "redo" /\ current[c].kind \in {"query", "garbage", "response"}
  /\ state' = [state EXCEPT ![c] = "write"]
  /\ UNCHANGED <<process, acceptor, backlog, counter, current, inbox, outbox,
                 client, sent, replied, served>>

(* A FORMERR of serve's own, or the handler's reply, is to be written. *)
Handle(c) ==
  /\ process = "up"
  /\ state[c] = "redo" /\ current[c].kind \in {"query", "garbage"}
  /\ state' = [state EXCEPT ![c] = "write"]
  /\ UNCHANGED <<process, acceptor, backlog, counter, current, inbox, outbox,
                 client, sent, replied, served>>

(* Nobody recovers: the panic of one goroutine ends them all. *)
HandlerPanics(c) ==
  /\ process = "up"
  /\ state[c] = "redo" /\ current[c].kind = "poison"
  /\ process' = "dead"
  /\ UNCHANGED <<acceptor, backlog, state, counter, current, inbox, outbox,
                 client, sent, replied, served>>

(* No deadline is set for writing: it waits for room, or for the client to *)
(* go away, and serve ignores the error then.                              *)
Write(c) ==
  /\ process = "up"
  /\ state[c] = "write"
  /\ client[c] = "open" => Len(outbox[c]) < SendBuffer
  /\ outbox' = [outbox EXCEPT ![c] = IF client[c] = "open" THEN Append(@, current[c].n) ELSE @]
  /\ replied' = [replied EXCEPT ![c] = IF client[c] = "open" THEN Append(@, current[c].n) ELSE @]
  /\ Exit(c)
  /\ UNCHANGED <<process, acceptor, backlog, counter, inbox, client, sent>>

(* Mutant: the query is not counted. *)
ReadNextUncounted(c) ==
  /\ process = "up"
  /\ state[c] = "idle" /\ Readable(c)
  /\ state' = [state EXCEPT ![c] = "redo"]
  /\ current' = [current EXCEPT ![c] = Head(inbox[c])]
  /\ inbox' = [inbox EXCEPT ![c] = Tail(@)]
  /\ UNCHANGED <<process, acceptor, backlog, counter, outbox, client, sent, replied,
                 served>>

ReadNext(c) ==
  /\ process = "up"
  /\ state[c] = "idle" /\ Readable(c)
  /\ counter' = [counter EXCEPT ![c] = @ + 1]
  /\ state' = [state EXCEPT ![c] = "redo"]
  /\ current' = [current EXCEPT ![c] = Head(inbox[c])]
  /\ inbox' = [inbox EXCEPT ![c] = Tail(@)]
  /\ UNCHANGED <<process, acceptor, backlog, outbox, client, sent, replied, served>>

CloseIdle(c) ==
  /\ process = "up"
  /\ state[c] = "idle"
  /\ state' = [state EXCEPT ![c] = "closed"]
  /\ UNCHANGED <<process, acceptor, backlog, counter, current, inbox, outbox,
                 client, sent, replied, served>>

NextRefused(c) == Refusable(c) /\ CloseIdle(c)
NextEnded(c)   == client[c] = "gone" /\ CloseIdle(c)
NextTimeout(c) == CloseIdle(c)

-----------------------------------------------------------------------------
AcceptLoop(c) == ReadFirst(c) \/ FirstRefused(c) \/ FirstEnded(c) \/ FirstTimeout(c)

Serve(c) ==
  \/ Ignore(c) \/ Handle(c) \/ HandlerPanics(c) \/ Write(c)
  \/ ReadNext(c) \/ NextRefused(c) \/ NextEnded(c) \/ NextTimeout(c)

Environment(c) ==
  \/ Connect(c) \/ Complete(c) \/ ReadReply(c) \/ Leave(c)
  \/ \E k \in Kinds : Send(c, k)

Next ==
  \/ Accept \/ AcceptFails
  \/ \E c \in Conn : AcceptLoop(c) \/ Serve(c) \/ Collect(c) \/ Environment(c)

Spec == Init /\ [][Next]_vars

(* The scheduler lets each goroutine go on, and deadlines pass.  Nothing is *)
(* assumed of the clients, of the collector, or of Accept failing.          *)
FairSpec ==
  /\ Spec
  /\ WF_vars(Accept)
  /\ \A c \in Conn : WF_vars(AcceptLoop(c)) /\ WF_vars(Serve(c))

-----------------------------------------------------------------------------
TypeOK ==
  /\ process \in {"up", "dead"}
  /\ acceptor \in {"accept", "read", "stopped"}
  /\ backlog \in Seq(Conn)
  /\ state \in [Conn -> ConnStates]
  /\ counter \in [Conn -> 0 .. MaxQueries + 1]
  /\ current \in [Conn -> Message \cup {NoMessage}]
  /\ inbox \in [Conn -> Seq(Message)]
  /\ outbox \in [Conn -> Seq(1 .. MaxSent)]
  /\ client \in [Conn -> {"out", "open", "gone"}]
  /\ sent \in [Conn -> 0 .. MaxSent]
  /\ replied \in [Conn -> Seq(1 .. MaxSent)]
  /\ served \in [Conn -> Nat]

(* A connection is served at most MaxQueries + 2 messages, not the          *)
(* MaxQueries of the comment: the counter starts at 0 with the first one,   *)
(* and the test is for more than the maximum (server.go:15, 586, 606).      *)
QueriesBounded == \A c \in Conn : served[c] <= MaxQueries + 2

(* The accept loop holds at most one connection, and reads while it does;   *)
(* whoever waits in the backlog has not been touched (server.go:479-498).   *)
OneFirstRead ==
  /\ \A c, d \in Conn : state[c] = "first" /\ state[d] = "first" => c = d
  /\ acceptor = "read" <=> \E c \in Conn : state[c] = "first"
  /\ \A i \in DOMAIN backlog : state[backlog[i]] = "none"
  /\ \A i, j \in DOMAIN backlog : backlog[i] = backlog[j] => i = j

(* A client that says nothing, or only half a message, holds up the others  *)
(* until its deadline: whoever waits is accepted at last, unless the server *)
(* dies or its listener is closed (server.go:479-489).                      *)
Waiting(c) == c \in ToSet(backlog)
NobodyWaitsForever == \A c \in Conn : Waiting(c) ~> ~Waiting(c) \/ process = "dead"

(* A connection the server took comes to an end, whatever its client sends  *)
(* or leaves out, unless its client lets a reply block (server.go:593-607). *)
Over(c) == state[c] \in {"closed", "leaked"} \/ process = "dead"
ConnectionsEnd ==
  \A c \in Conn : state[c] # "none" ~> Over(c) \/ [](state[c] = "write")

-----------------------------------------------------------------------------
(* What a client may rely on: TcpService.                                   *)
Service == INSTANCE TcpService WITH
  asked   <- [c \in Conn |-> IF state[c] \in {"redo", "write"}
                             THEN <<current[c]>> \o inbox[c]
                             ELSE inbox[c]],
  present <- [c \in Conn |-> client[c] = "open"],
  ended   <- {c \in Conn : state[c] \in {"closed", "leaked"} \/ process = "dead"}

ServesInOrder == Service!Spec
=============================================================================
