------------------------------ MODULE UdpServer ------------------------------
(***************************************************************************)
(* serveUDP and serve of the DNS library on one socket, with clients that  *)
(* ask again until they are answered, over a network that loses, doubles   *)
(* and reorders datagrams.  One goroutine reads, and starts another one    *)
(* for each datagram, which unpacks it, handles it and writes the reply.   *)
(*                                                                         *)
(* Kinds of datagram: a "query" the handler answers, a "poison" query it   *)
(* panics on (module Resolve), a "response" (QR bit set), a "broken" one   *)
(* of which Unpack refuses what follows the header, a "long" one that the  *)
(* read cuts inside a record, a "stub" shorter than a header and an        *)
(* "empty" one.                                                            *)
(***************************************************************************)
EXTENDS Integers, Sequences

CONSTANTS
  Client,       \* those who ask
  Kinds,        \* the kinds of datagram each of them sends
  Goroutine,    \* bound: goroutines serving at a time
  Buffer,       \* datagrams the kernel keeps for the reader
  MaxAsked      \* bound: questions each client asks

AllKinds == {"query", "poison", "response", "broken", "long", "stub", "empty"}

ASSUME UdpAssumption ==
  /\ Kinds \in [Client -> SUBSET AllKinds]
  /\ Buffer \in Nat
  /\ MaxAsked \in [Client -> Nat]

VARIABLES
  process,      \* "up", or "dead" after a handler's panic
  asked,        \* the kinds of the questions each client asked
  waiting,      \* the client waits for the reply to its last question
  got,          \* the replies it took, by number of the question
  requests,     \* datagrams on their way to the server
  socket,       \* datagrams the kernel has received
  stage,        \* of each goroutine: "free", "run" or "write"
  message,      \* m of serve: what was read
  session,      \* s of serve: who sent it
  replies       \* datagrams on their way back

client == <<asked, waiting, got>>
server == <<process, stage, message, session>>
vars   == <<process, asked, waiting, got, requests, socket, stage, message,
            session, replies>>

(* The message id of a client's n-th question is n. *)
Content  == [id : Nat, kind : AllKinds]
Datagram == [from : Client, body : Content]
Reply    == [to : Client, id : Nat, rcode : {"answer", "formerr"}]

Nothing == [id |-> 0, kind |-> "empty"]
Nobody  == "nobody"

Init ==
  /\ process = "up"
  /\ asked = [c \in Client |-> <<>>]
  /\ waiting = [c \in Client |-> FALSE]
  /\ got = [c \in Client |-> <<>>]
  /\ requests = {}
  /\ socket = <<>>
  /\ stage = [g \in Goroutine |-> "free"]
  /\ message = [g \in Goroutine |-> Nothing]
  /\ session = [g \in Goroutine |-> Nobody]
  /\ replies = {}

-----------------------------------------------------------------------------
(* The clients: each has one question at a time, repeats it with the same   *)
(* id, and takes the first reply with that id.                              *)

Question(c) ==
  [from |-> c, body |-> [id |-> Len(asked[c]), kind |-> asked[c][Len(asked[c])]]]

Ask(c, k) ==
  /\ ~waiting[c] /\ Len(asked[c]) < MaxAsked[c]
  /\ asked' = [asked EXCEPT ![c] = Append(@, k)]
  /\ waiting' = [waiting EXCEPT ![c] = TRUE]
  /\ requests' = requests \cup
                 {[from |-> c, body |-> [id |-> Len(asked[c]) + 1, kind |-> k]]}
  /\ got' = [got EXCEPT ![c] = Append(@, "none")]
  /\ UNCHANGED <<socket, server, replies>>

Retry(c) ==
  /\ waiting[c]
  /\ requests' = requests \cup {Question(c)}
  /\ UNCHANGED <<client, socket, server, replies>>

GiveUp(c) ==
  /\ waiting[c]
  /\ waiting' = [waiting EXCEPT ![c] = FALSE]
  /\ UNCHANGED <<asked, got, requests, socket, server, replies>>

Take(c) ==
  \E r \in replies :
    /\ waiting[c] /\ r.to = c /\ r.id = Len(asked[c])
    /\ got' = [got EXCEPT ![c][r.id] = r.rcode]
    /\ waiting' = [waiting EXCEPT ![c] = FALSE]
    /\ replies' \in {replies, replies \ {r}}
    /\ UNCHANGED <<asked, requests, socket, server>>

-----------------------------------------------------------------------------
(* The network and the kernel.                                              *)

(* The datagram arrives, and the network may hold another copy of it. *)
Deliver(d) ==
  /\ process = "up"
  /\ d \in requests
  /\ Len(socket) < Buffer
  /\ socket' = Append(socket, d)
  /\ requests' \in {requests, requests \ {d}}
  /\ UNCHANGED <<client, server, replies>>

LoseRequest ==
  /\ \E d \in requests : requests' = requests \ {d}
  /\ UNCHANGED <<client, socket, server, replies>>

LoseReply ==
  /\ \E r \in replies : replies' = replies \ {r}
  /\ UNCHANGED <<client, requests, socket, server>>

-----------------------------------------------------------------------------
(* The loop of serveUDP.  A read that times out goes on to the next one.    *)


(* A datagram without a byte is an error of readUDP: the loop goes on. *)
ReadNothing ==
  /\ process = "up"
  /\ socket # <<>> /\ Head(socket).body.kind = "empty"
  /\ socket' = Tail(socket)
  /\ UNCHANGED <<client, requests, server, replies>>

(* Mutant: one buffer for all the reads. *)
ReadIntoOneBuffer(g) ==
  /\ process = "up"
  /\ stage[g] = "free"
  /\ socket # <<>> /\ Head(socket).body.kind # "empty"
  /\ stage' = [stage EXCEPT ![g] = "run"]
  /\ message' = [h \in Goroutine |-> Head(socket).body]
  /\ session' = [session EXCEPT ![g] = Head(socket).from]
  /\ socket' = Tail(socket)
  /\ UNCHANGED <<process, client, requests, replies>>

(* readUDP makes a new buffer for each datagram. *)
Read(g) ==
  /\ process = "up"
  /\ stage[g] = "free"
  /\ socket # <<>> /\ Head(socket).body.kind # "empty"
  /\ stage' = [stage EXCEPT ![g] = "run"]
  /\ message' = [message EXCEPT ![g] = Head(socket).body]
  /\ session' = [session EXCEPT ![g] = Head(socket).from]
  /\ socket' = Tail(socket)
  /\ UNCHANGED <<process, client, requests, replies>>

-----------------------------------------------------------------------------
(* serve, for one datagram.                                                 *)

Leave(g) ==
  /\ stage' = [stage EXCEPT ![g] = "free"]
  /\ message' = [message EXCEPT ![g] = Nothing]
  /\ session' = [session EXCEPT ![g] = Nobody]

(* Mutant: responses go to the handler. *)
AnswerResponse(g) ==
  /\ process = "up"
  /\ stage[g] = "run" /\ message[g].kind = "response"
  /\ stage' = [stage EXCEPT ![g] = "write"]
  /\ UNCHANGED <<process, client, requests, socket, message, session, replies>>

Ignore(g) ==
  /\ process = "up"
  /\ stage[g] = "run" /\ message[g].kind = "response"
  /\ Leave(g)
  /\ UNCHANGED <<process, client, requests, socket, replies>>

Handle(g) ==
  /\ process = "up"
  /\ stage[g] = "run" /\ message[g].kind = "query"
  /\ stage' = [stage EXCEPT ![g] = "write"]
  /\ UNCHANGED <<process, client, requests, socket, message, session, replies>>

(* Unpack fails: a FORMERR is due, to a response as well. *)
Refuse(g) ==
  /\ process = "up"
  /\ stage[g] = "run" /\ message[g].kind \in {"broken", "long", "stub"}
  /\ stage' = [stage EXCEPT ![g] = "write"]
  /\ UNCHANGED <<process, client, requests, socket, message, session, replies>>

(* The handler's panic ends the process with all it held: whatever had been *)
(* read or was about to be written is gone.                                 *)
Panic(g) ==
  /\ process = "up"
  /\ stage[g] = "run" /\ message[g].kind = "poison"
  /\ process' = "dead"
  /\ socket' = <<>>
  /\ stage' = [h \in Goroutine |-> "free"]
  /\ message' = [h \in Goroutine |-> Nothing]
  /\ session' = [h \in Goroutine |-> Nobody]
  /\ UNCHANGED <<client, requests, replies>>

(* Of a stub no header is read, nor the id in it if there is one: the reply *)
(* has that of a fresh Msg, 0.                                              *)
ReplyTo(g) ==
  [to    |-> session[g],
   id    |-> IF message[g].kind = "stub" THEN 0 ELSE message[g].id,
   rcode |-> IF message[g].kind = "query" THEN "answer" ELSE "formerr"]

(* Mutant: the session is given up before the reply is written. *)
WriteLate(g) ==
  /\ process = "up"
  /\ stage[g] = "write"
  /\ Leave(g)
  /\ replies' = replies \cup {[ReplyTo(g) EXCEPT !.to = session'[g]]}
  /\ UNCHANGED <<process, client, requests, socket>>

(* Writing does not wait; an error of it is ignored, like a reply lost. *)
Write(g) ==
  /\ process = "up"
  /\ stage[g] = "write"
  /\ replies' = replies \cup {ReplyTo(g)}
  /\ Leave(g)
  /\ UNCHANGED <<process, client, requests, socket>>

Serve(g) == Ignore(g) \/ Handle(g) \/ Refuse(g) \/ Panic(g) \/ Write(g)

-----------------------------------------------------------------------------
Clients ==
  \E c \in Client :
    \/ Retry(c) \/ GiveUp(c) \/ Take(c)
    \/ \E k \in Kinds[c] : Ask(c, k)

Network == LoseRequest \/ LoseReply \/ \E d \in requests : Deliver(d)

Reader == ReadNothing \/ \E g \in Goroutine : Read(g)

Next == Clients \/ Network \/ Reader \/ \E g \in Goroutine : Serve(g)

Spec == Init /\ [][Next]_vars

(* A network that is given the same datagram again and again delivers it    *)
(* again and again, if the kernel has room for it again and again.  That it *)
(* has is not assumed: it is the reader's doing.                            *)
Delivers(c) ==
  /\ []<>(waiting[c] /\ Question(c) \in requests)
  /\ []<>(Len(socket) < Buffer)
    => []<><<waiting[c] /\ Deliver(Question(c))>>_vars

(* The scheduler runs the reader and each goroutine.  A client that does    *)
(* not give up repeats its question, and not every reply is lost.           *)
FairSpec ==
  /\ Spec
  /\ WF_vars(Reader)
  /\ \A g \in Goroutine : WF_vars(Serve(g))
  /\ \A c \in Client :
       /\ WF_vars(Retry(c))
       /\ Delivers(c)
       /\ SF_vars(Take(c))

-----------------------------------------------------------------------------
TypeOK ==
  /\ process \in {"up", "dead"}
  /\ asked \in [Client -> Seq(AllKinds)]
  /\ waiting \in [Client -> BOOLEAN]
  /\ got \in [Client -> Seq({"none", "answer", "formerr"})]
  /\ \A c \in Client : Len(got[c]) = Len(asked[c])
  /\ requests \subseteq Datagram
  /\ socket \in Seq(Datagram)
  /\ stage \in [Goroutine -> {"free", "run", "write"}]
  /\ message \in [Goroutine -> Content]
  /\ session \in [Goroutine -> Client \cup {Nobody}]
  /\ replies \subseteq Reply

Deserved(k) ==
  CASE k = "query"              -> "answer"
    [] k \in {"broken", "long"} -> "formerr"
    [] OTHER                    -> "none"

(* However datagrams are doubled and overtake each other and whoever else   *)
(* is served at the time, a reply with an id answers the question its       *)
(* receiver asked under that id, with what that question deserves: the      *)
(* goroutines share neither buffer nor session (server.go:524-532, 646).    *)
RepliesMatch ==
  \A r \in replies :
    r.id # 0 => /\ r.id <= Len(asked[r.to])
                /\ r.rcode = Deserved(asked[r.to][r.id])


(* What clients may rely on: UdpService (server.go:501-609). *)
Service == INSTANCE UdpService
KeepsService == Service!Spec
=============================================================================
