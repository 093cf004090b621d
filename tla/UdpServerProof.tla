---------------------------- MODULE UdpServerProof ----------------------------
(***************************************************************************)
(* Proofs about the UDP server, for any clients, datagrams and goroutines. *)
(***************************************************************************)
EXTENDS UdpServer, SequenceTheorems, TLAPS

(* What is said to come from a client is a question it asked. *)
Genuine(c, b) == b.id \in 1 .. Len(asked[c]) /\ b.kind = asked[c][b.id]

IInv ==
  /\ TypeOK
  /\ \A d \in requests : Genuine(d.from, d.body)
  /\ \A i \in DOMAIN socket : Genuine(socket[i].from, socket[i].body)
  /\ \A g \in Goroutine :
       stage[g] # "free" => session[g] \in Client /\ Genuine(session[g], message[g])
  /\ \A g \in Goroutine :
       stage[g] = "write" => message[g].kind \in {"query", "broken", "long", "stub"}
  /\ RepliesMatch
  /\ \A c \in Client : waiting[c] => asked[c] # <<>>

-----------------------------------------------------------------------------
(* What Ask adds to the questions asked leaves the earlier ones alone.      *)
LEMMA AskedGrows ==
  ASSUME NEW s \in Seq(AllKinds), NEW k \in AllKinds
  PROVE  /\ Append(s, k) \in Seq(AllKinds)
         /\ Append(s, k) # <<>>
         /\ Len(Append(s, k)) = Len(s) + 1
         /\ Append(s, k)[Len(s) + 1] = k
         /\ \A i \in 1 .. Len(s) : Append(s, k)[i] = s[i]
  OBVIOUS

(* A datagram the kernel appends, and what the reader leaves behind.        *)
LEMMA QueueAppend ==
  ASSUME NEW S, NEW q \in Seq(S), NEW d \in S
  PROVE  /\ Append(q, d) \in Seq(S)
         /\ DOMAIN Append(q, d) = 1 .. Len(q) + 1
         /\ \A i \in 1 .. Len(q) + 1 : Append(q, d)[i] = IF i <= Len(q) THEN q[i] ELSE d
         /\ DOMAIN q = 1 .. Len(q)
         /\ Len(q) \in Nat
  OBVIOUS

LEMMA QueueTail ==
  ASSUME NEW S, NEW q \in Seq(S), q # <<>>
  PROVE  /\ Head(q) \in S /\ Tail(q) \in Seq(S)
         /\ 1 \in DOMAIN q /\ Head(q) = q[1]
         /\ \A i \in DOMAIN Tail(q) : i + 1 \in DOMAIN q /\ Tail(q)[i] = q[i + 1]
  OBVIOUS

(* A reply noted in its place leaves the list as long as it was.            *)
LEMMA QueueExcept ==
  ASSUME NEW S, NEW q \in Seq(S), NEW i \in 1 .. Len(q), NEW v \in S
  PROVE  [q EXCEPT ![i] = v] \in Seq(S) /\ Len([q EXCEPT ![i] = v]) = Len(q)
  BY ExceptSeq

LEMMA Initially == Init => IInv
  BY UdpAssumption DEF Init, IInv, TypeOK, RepliesMatch, Content, AllKinds, Nothing, Genuine

-----------------------------------------------------------------------------
(* Ask: what was genuine stays so, and so does the question asked.          *)
LEMMA AskKeeps ==
  ASSUME IInv, NEW c \in Client, NEW k \in Kinds[c], Ask(c, k)
  PROVE  IInv'
<1> USE DEF IInv
<1>0. PICK n \in Nat : n = Len(asked[c])
  BY DEF TypeOK
<1> DEFINE e == [id |-> n + 1, kind |-> k]
           d == [from |-> c, body |-> e]
<1>1. k \in AllKinds
  BY UdpAssumption
<1>2. /\ asked[c] \in Seq(AllKinds)
      /\ asked' = [asked EXCEPT ![c] = Append(@, k)]
      /\ requests' = requests \cup {d}
      /\ UNCHANGED <<socket, process, stage, message, session, replies>>
  BY <1>0 DEF Ask, TypeOK, server
<1>3. /\ asked'[c] \in Seq(AllKinds) /\ asked'[c] # <<>>
      /\ Len(asked'[c]) = Len(asked[c]) + 1
      /\ asked'[c][Len(asked[c]) + 1] = k
      /\ \A i \in 1 .. Len(asked[c]) : asked'[c][i] = asked[c][i]
      /\ \A b \in Client \ {c} : asked'[b] = asked[b]
      /\ asked' \in [Client -> Seq(AllKinds)]
  <2>1. asked'[c] = Append(asked[c], k) /\ \A b \in Client \ {c} : asked'[b] = asked[b]
    BY <1>2 DEF TypeOK
  <2>2. /\ Append(asked[c], k) \in Seq(AllKinds) /\ Append(asked[c], k) # <<>>
        /\ Len(Append(asked[c], k)) = Len(asked[c]) + 1
        /\ Append(asked[c], k)[Len(asked[c]) + 1] = k
        /\ \A i \in 1 .. Len(asked[c]) : Append(asked[c], k)[i] = asked[c][i]
    BY <1>1, <1>2, AskedGrows
  <2>3. asked' \in [Client -> Seq(AllKinds)]
    BY <1>2, <2>2 DEF TypeOK
  <2> QED
    BY <2>1, <2>2, <2>3
<1>4. Len(asked[c]) \in Nat
  BY <1>0
<1>5. ASSUME NEW b \in Client, NEW m \in Content, Genuine(b, m)
      PROVE  Genuine(b, m)'
  <2>1. CASE b = c
    BY <1>3, <1>4, <1>5, <2>1 DEF Genuine, Content
  <2>2. CASE b # c
    BY <1>3, <1>5, <2>2 DEF Genuine
  <2> QED
    BY <2>1, <2>2
<1>6. d \in Datagram /\ d.from = c /\ d.body = e
  BY <1>1, <1>4 DEF Datagram, Content
<1>7. Genuine(c, e)'
  BY <1>0, <1>3 DEF Genuine
<1>8. TypeOK'
  <2>1. /\ got[c] \in Seq({"none", "answer", "formerr"})
        /\ Len(got[c]) = Len(asked[c])
        /\ got' = [got EXCEPT ![c] = Append(@, "none")]
    BY DEF TypeOK, Ask
  <2>2. /\ got' \in [Client -> Seq({"none", "answer", "formerr"})]
        /\ Len(got'[c]) = Len(asked[c]) + 1
        /\ \A b \in Client \ {c} : got'[b] = got[b]
    BY <2>1 DEF TypeOK
  <2>3. \A b \in Client : Len(got'[b]) = Len(asked'[b])
    BY <2>2, <1>3 DEF TypeOK
  <2>4. requests' \subseteq Datagram
    BY <1>2, <1>6 DEF TypeOK
  <2>5. waiting' \in [Client -> BOOLEAN]
    BY DEF TypeOK, Ask
  <2> QED
    BY <1>2, <1>3, <2>2, <2>3, <2>4, <2>5 DEF TypeOK
<1>9. (\A x \in requests : Genuine(x.from, x.body))'
  <2> SUFFICES ASSUME NEW x \in requests'
               PROVE  Genuine(x.from, x.body)'
    OBVIOUS
  <2>1. CASE x = d
    BY <2>1, <1>6, <1>7
  <2>2. CASE x \in requests
    BY <2>2, <1>5 DEF TypeOK, Datagram
  <2> QED
    BY <1>2, <2>1, <2>2
<1>10. (\A i \in DOMAIN socket : Genuine(socket[i].from, socket[i].body))'
  <2>1. \A i \in DOMAIN socket : socket[i] \in Datagram
    BY DEF TypeOK
  <2> QED
    BY <1>2, <1>5, <2>1 DEF Datagram
<1>11. (\A g \in Goroutine :
          stage[g] # "free" => session[g] \in Client /\ Genuine(session[g], message[g]))'
  BY <1>2, <1>5 DEF TypeOK
<1>12. RepliesMatch'
  <2> SUFFICES ASSUME NEW r \in replies, r.id # 0
               PROVE  r.id <= Len(asked'[r.to]) /\ r.rcode = Deserved(asked'[r.to][r.id])
    BY <1>2 DEF RepliesMatch
  <2>1. r.id \in Nat /\ r.to \in Client /\ r.id <= Len(asked[r.to])
        /\ r.rcode = Deserved(asked[r.to][r.id])
    BY DEF RepliesMatch, TypeOK, Reply
  <2>2. CASE r.to = c
    BY <1>3, <1>4, <2>1, <2>2
  <2>3. CASE r.to # c
    BY <1>3, <2>1, <2>3
  <2> QED
    BY <2>2, <2>3
<1>13. \A b \in Client : waiting'[b] => asked'[b] # <<>>
  BY <1>3 DEF Ask, TypeOK
<1>14. (\A g \in Goroutine :
          stage[g] = "write" => message[g].kind \in {"query", "broken", "long", "stub"})'
  BY <1>2
<1> QED
  BY <1>8, <1>9, <1>10, <1>11, <1>12, <1>13, <1>14

(* Where the questions stay as they are, genuine is what it was. *)
LEMMA SameQuestions ==
  ASSUME UNCHANGED asked
  PROVE  \A c, b : Genuine(c, b)' <=> Genuine(c, b)
  BY DEF Genuine

(* Retry sends the last question again, which is genuine. *)
LEMMA RetryKeeps ==
  ASSUME IInv, NEW c \in Client, Retry(c)
  PROVE  IInv'
<1> USE DEF IInv
<1>1. /\ asked[c] \in Seq(AllKinds) /\ asked[c] # <<>>
      /\ requests' = requests \cup {Question(c)}
      /\ UNCHANGED <<asked, waiting, got, socket, process, stage, message, session, replies>>
  BY DEF Retry, TypeOK, client, server
<1>2. Len(asked[c]) \in Nat /\ Len(asked[c]) >= 1 /\ asked[c][Len(asked[c])] \in AllKinds
  BY <1>1
<1>3. Question(c) \in Datagram /\ Genuine(Question(c).from, Question(c).body)
  BY <1>2 DEF Question, Datagram, Content, Genuine
<1>4. TypeOK'
  BY <1>1, <1>3 DEF TypeOK
<1>5. RepliesMatch'
  BY <1>1 DEF RepliesMatch
<1> QED
  BY <1>1, <1>3, <1>4, <1>5, SameQuestions

(* Giving up, and taking a reply, leave questions and datagrams alone. *)
LEMMA ClientKeeps ==
  ASSUME IInv, NEW c \in Client, GiveUp(c) \/ Take(c)
  PROVE  IInv'
<1> USE DEF IInv
<1>1. /\ UNCHANGED <<asked, requests, socket, process, stage, message, session>>
      /\ replies' \subseteq replies
      /\ waiting' = [waiting EXCEPT ![c] = FALSE]
  BY DEF GiveUp, Take, server
<1>2. /\ got' \in [Client -> Seq({"none", "answer", "formerr"})]
      /\ \A b \in Client : Len(got'[b]) = Len(asked[b])
  <2>1. CASE GiveUp(c)
    BY <2>1 DEF GiveUp, TypeOK
  <2>2. CASE Take(c)
    <3>1. PICK r \in replies : /\ r.id = Len(asked[c])
                               /\ got' = [got EXCEPT ![c][r.id] = r.rcode]
      BY <2>2 DEF Take
    <3>2. r.rcode \in {"none", "answer", "formerr"}
      BY DEF TypeOK, Reply
    <3>3. got[c] \in Seq({"none", "answer", "formerr"}) /\ r.id \in 1 .. Len(got[c])
      BY <2>2, <3>1 DEF TypeOK, Take
    <3>4. /\ [got[c] EXCEPT ![r.id] = r.rcode] \in Seq({"none", "answer", "formerr"})
          /\ Len([got[c] EXCEPT ![r.id] = r.rcode]) = Len(got[c])
      BY <3>2, <3>3, QueueExcept
    <3>5. got' = [got EXCEPT ![c] = [got[c] EXCEPT ![r.id] = r.rcode]]
      BY <3>1
    <3> QED
      BY <3>4, <3>5 DEF TypeOK
  <2> QED
    BY <2>1, <2>2
<1>3. TypeOK'
  BY <1>1, <1>2 DEF TypeOK
<1>4. RepliesMatch'
  BY <1>1 DEF RepliesMatch
<1>5. \A b \in Client : waiting'[b] => asked'[b] # <<>>
  BY <1>1 DEF TypeOK
<1> QED
  BY <1>1, <1>3, <1>4, <1>5, SameQuestions

-----------------------------------------------------------------------------
(* The network moves genuine datagrams or drops them. *)
LEMMA DeliverKeeps ==
  ASSUME IInv, NEW d \in requests, Deliver(d)
  PROVE  IInv'
<1> USE DEF IInv
<1>1. /\ socket \in Seq(Datagram) /\ d \in Datagram
      /\ socket' = Append(socket, d)
      /\ requests' \subseteq requests
      /\ UNCHANGED <<asked, waiting, got, process, stage, message, session, replies>>
  BY DEF Deliver, TypeOK, client, server
<1>2. /\ socket' \in Seq(Datagram)
      /\ DOMAIN socket' = 1 .. Len(socket) + 1
      /\ \A i \in 1 .. Len(socket) + 1 : socket'[i] = IF i <= Len(socket) THEN socket[i] ELSE d
      /\ DOMAIN socket = 1 .. Len(socket) /\ Len(socket) \in Nat
  BY <1>1, QueueAppend
<1>3. \A i \in DOMAIN socket' : Genuine(socket'[i].from, socket'[i].body)
  <2> TAKE i \in DOMAIN socket'
  <2>1. socket'[i] = d \/ (i \in DOMAIN socket /\ socket'[i] = socket[i])
    BY <1>2
  <2> QED
    BY <2>1
<1>4. TypeOK'
  BY <1>1, <1>2 DEF TypeOK
<1>5. RepliesMatch'
  BY <1>1 DEF RepliesMatch
<1> QED
  BY <1>1, <1>3, <1>4, <1>5, SameQuestions

LEMMA LossKeeps ==
  ASSUME IInv, LoseRequest \/ LoseReply
  PROVE  IInv'
<1> USE DEF IInv
<1>1. /\ requests' \subseteq requests /\ replies' \subseteq replies
      /\ UNCHANGED <<asked, waiting, got, socket, process, stage, message, session>>
  BY DEF LoseRequest, LoseReply, client, server
<1>2. TypeOK'
  BY <1>1 DEF TypeOK
<1>3. RepliesMatch'
  BY <1>1 DEF RepliesMatch
<1> QED
  BY <1>1, <1>2, <1>3, SameQuestions

-----------------------------------------------------------------------------
(* The reader hands on what it read, with its sender. *)
LEMMA ReaderKeeps ==
  ASSUME IInv, Reader
  PROVE  IInv'
<1> USE DEF IInv
<1>1. /\ socket \in Seq(Datagram) /\ socket # <<>>
      /\ socket' = Tail(socket)
      /\ UNCHANGED <<asked, waiting, got, requests, process, replies>>
  BY DEF Reader, ReadNothing, Read, TypeOK, client, server
<1>2. /\ Head(socket) \in Datagram /\ socket' \in Seq(Datagram)
      /\ 1 \in DOMAIN socket /\ Head(socket) = socket[1]
      /\ \A i \in DOMAIN socket' : i + 1 \in DOMAIN socket /\ socket'[i] = socket[i + 1]
  BY <1>1, QueueTail
<1>3. \A i \in DOMAIN socket' : Genuine(socket'[i].from, socket'[i].body)
  BY <1>2
<1>4. Genuine(Head(socket).from, Head(socket).body)
  BY <1>2
<1>5. /\ stage' \in [Goroutine -> {"free", "run", "write"}]
      /\ message' \in [Goroutine -> Content]
      /\ session' \in [Goroutine -> Client \cup {Nobody}]
      /\ \A g \in Goroutine :
           stage'[g] # "free" => session'[g] \in Client /\ Genuine(session'[g], message'[g])
      /\ \A g \in Goroutine :
           stage'[g] = "write" => message'[g].kind \in {"query", "broken", "long", "stub"}
  <2>1. CASE ReadNothing
    BY <2>1 DEF ReadNothing, server, TypeOK
  <2>2. CASE \E h \in Goroutine : Read(h)
    <3>1. PICK h \in Goroutine : Read(h)
      BY <2>2
    <3>2. Head(socket).body \in Content /\ Head(socket).from \in Client
      BY <1>2 DEF Datagram
    <3>3. /\ stage' = [stage EXCEPT ![h] = "run"]
          /\ message' = [message EXCEPT ![h] = Head(socket).body]
          /\ session' = [session EXCEPT ![h] = Head(socket).from]
      BY <3>1 DEF Read
    <3>4. \A g \in Goroutine \ {h} : /\ stage'[g] = stage[g]
                                     /\ message'[g] = message[g]
                                     /\ session'[g] = session[g]
      BY <3>3 DEF TypeOK
    <3>5. /\ stage'[h] = "run" /\ message'[h] = Head(socket).body
          /\ session'[h] = Head(socket).from
      BY <3>3 DEF TypeOK
    <3>6. /\ stage' \in [Goroutine -> {"free", "run", "write"}]
          /\ message' \in [Goroutine -> Content]
          /\ session' \in [Goroutine -> Client \cup {Nobody}]
      BY <3>2, <3>3 DEF TypeOK
    <3>7. ASSUME NEW g \in Goroutine
          PROVE  /\ stage'[g] # "free" =>
                      session'[g] \in Client /\ Genuine(session'[g], message'[g])
                 /\ stage'[g] = "write" =>
                      message'[g].kind \in {"query", "broken", "long", "stub"}
      <4>1. CASE g = h
        BY <4>1, <3>2, <3>5, <1>4
      <4>2. CASE g # h
        BY <4>2, <3>4
      <4> QED
        BY <4>1, <4>2
    <3> QED
      BY <3>6, <3>7
  <2> QED
    BY <2>1, <2>2 DEF Reader
<1>6. TypeOK'
  BY <1>1, <1>2, <1>5 DEF TypeOK
<1>7. RepliesMatch'
  BY <1>1 DEF RepliesMatch
<1> QED
  BY <1>1, <1>3, <1>5, <1>6, <1>7, SameQuestions
-----------------------------------------------------------------------------
(* serve: a goroutine that leaves, one that has a reply to write. *)
LEMMA ServeKeeps ==
  ASSUME IInv, NEW g \in Goroutine, Ignore(g) \/ Handle(g) \/ Refuse(g)
  PROVE  IInv'
<1> USE DEF IInv
<1>1. UNCHANGED <<asked, waiting, got, requests, socket, process, replies>>
  BY DEF Ignore, Handle, Refuse, client
<1>2. \A h \in Goroutine \ {g} : /\ stage'[h] = stage[h]
                               /\ message'[h] = message[h]
                               /\ session'[h] = session[h]
  BY DEF Ignore, Handle, Refuse, Leave, TypeOK
<1>3. \/ stage'[g] = "free"
      \/ /\ stage'[g] = "write" /\ stage[g] = "run"
         /\ message'[g] = message[g] /\ session'[g] = session[g]
         /\ message[g].kind \in {"query", "broken", "long", "stub"}
  BY DEF Ignore, Handle, Refuse, Leave, TypeOK
<1>4. TypeOK'
  <2>1. Nothing \in Content
    BY DEF Nothing, Content, AllKinds
  <2>2. stage' \in [Goroutine -> {"free", "run", "write"}]
    BY DEF Ignore, Handle, Refuse, Leave, TypeOK
  <2>3. message' \in [Goroutine -> Content]
    BY <2>1 DEF Ignore, Handle, Refuse, Leave, TypeOK
  <2>4. session' \in [Goroutine -> Client \cup {Nobody}]
    BY DEF Ignore, Handle, Refuse, Leave, TypeOK
  <2> QED
    BY <1>1, <2>2, <2>3, <2>4 DEF TypeOK
<1>5. RepliesMatch'
  BY <1>1 DEF RepliesMatch
<1>6. ASSUME NEW h \in Goroutine
      PROVE  /\ stage'[h] # "free" =>
                  session'[h] \in Client /\ Genuine(session'[h], message'[h])
             /\ stage'[h] = "write" =>
                  message'[h].kind \in {"query", "broken", "long", "stub"}
  BY <1>2, <1>3
<1> QED
  BY <1>1, <1>4, <1>5, <1>6, SameQuestions

LEMMA PanicKeeps ==
  ASSUME IInv, NEW g \in Goroutine, Panic(g)
  PROVE  IInv'
<1> USE DEF IInv
<1>1. /\ UNCHANGED <<asked, waiting, got, requests, replies>>
      /\ process' = "dead" /\ socket' = <<>>
      /\ stage' = [h \in Goroutine |-> "free"]
      /\ message' = [h \in Goroutine |-> Nothing]
      /\ session' = [h \in Goroutine |-> Nobody]
  BY DEF Panic, client
<1>2. TypeOK'
  BY <1>1 DEF TypeOK, Nothing, Content, AllKinds
<1>3. RepliesMatch'
  BY <1>1 DEF RepliesMatch
<1> QED
  BY <1>1, <1>2, <1>3, SameQuestions

(* The reply written is the one the question of its receiver deserves. *)
LEMMA ReplyDeserved ==
  ASSUME IInv, NEW g \in Goroutine, stage[g] = "write"
  PROVE  /\ ReplyTo(g) \in Reply
         /\ ReplyTo(g).id # 0 =>
              /\ ReplyTo(g).id <= Len(asked[ReplyTo(g).to])
              /\ ReplyTo(g).rcode = Deserved(asked[ReplyTo(g).to][ReplyTo(g).id])
<1>1. /\ session[g] \in Client /\ Genuine(session[g], message[g])
      /\ message[g].kind \in {"query", "broken", "long", "stub"}
      /\ message[g] \in Content
  BY DEF IInv, TypeOK
<1>2. /\ message[g].id \in 1 .. Len(asked[session[g]])
      /\ message[g].kind = asked[session[g]][message[g].id]
  BY <1>1 DEF Genuine
<1>3. CASE message[g].kind = "stub"
  BY <1>1, <1>3 DEF ReplyTo, Reply
<1>4. CASE message[g].kind = "query"
  <2>1. ReplyTo(g) = [to |-> session[g], id |-> message[g].id, rcode |-> "answer"]
    BY <1>4 DEF ReplyTo
  <2>2. Deserved(asked[session[g]][message[g].id]) = "answer"
    BY <1>2, <1>4 DEF Deserved
  <2> QED
    BY <1>1, <1>2, <2>1, <2>2 DEF Reply, Content
<1>5. CASE message[g].kind \in {"broken", "long"}
  BY <1>1, <1>2, <1>5 DEF ReplyTo, Reply, Deserved, Content
<1> QED
  BY <1>1, <1>3, <1>4, <1>5

LEMMA WriteKeeps ==
  ASSUME IInv, NEW g \in Goroutine, Write(g)
  PROVE  IInv'
<1>1. /\ UNCHANGED <<asked, waiting, got, requests, socket, process>>
      /\ replies' = replies \cup {ReplyTo(g)} /\ stage[g] = "write"
  BY DEF Write, client
<1>2. \A h \in Goroutine \ {g} : /\ stage'[h] = stage[h]
                               /\ message'[h] = message[h]
                               /\ session'[h] = session[h]
  BY DEF Write, Leave, IInv, TypeOK
<1>3. stage'[g] = "free"
  BY DEF Write, Leave, IInv, TypeOK
<1>4. /\ ReplyTo(g) \in Reply
      /\ ReplyTo(g).id # 0 =>
           /\ ReplyTo(g).id <= Len(asked[ReplyTo(g).to])
           /\ ReplyTo(g).rcode = Deserved(asked[ReplyTo(g).to][ReplyTo(g).id])
  BY <1>1, ReplyDeserved
<1>5. /\ stage' \in [Goroutine -> {"free", "run", "write"}]
      /\ message' \in [Goroutine -> Content]
      /\ session' \in [Goroutine -> Client \cup {Nobody}]
  BY DEF Write, Leave, IInv, TypeOK, Nothing, Content, AllKinds
<1>6. TypeOK'
  BY <1>1, <1>4, <1>5 DEF IInv, TypeOK
<1>7. RepliesMatch'
  BY <1>1, <1>4 DEF IInv, RepliesMatch
<1>8. ASSUME NEW h \in Goroutine
      PROVE  /\ stage'[h] # "free" =>
                  session'[h] \in Client /\ Genuine(session'[h], message'[h])
             /\ stage'[h] = "write" =>
                  message'[h].kind \in {"query", "broken", "long", "stub"}
  BY <1>2, <1>3 DEF IInv
<1> QED
  BY <1>1, <1>6, <1>7, <1>8, SameQuestions DEF IInv

LEMMA Stays ==
  ASSUME IInv, UNCHANGED vars
  PROVE  IInv'
<1>1. UNCHANGED <<process, asked, waiting, got, requests, socket, stage, message,
                  session, replies>>
  BY DEF vars
<1>2. TypeOK' /\ RepliesMatch'
  BY <1>1 DEF IInv, TypeOK, RepliesMatch
<1> QED
  BY <1>1, <1>2, SameQuestions DEF IInv

-----------------------------------------------------------------------------
LEMMA Step == IInv /\ [Next]_vars => IInv'
<1> SUFFICES ASSUME IInv, [Next]_vars PROVE IInv'
  OBVIOUS
<1>1. CASE Clients
  BY <1>1, AskKeeps, RetryKeeps, ClientKeeps DEF Clients
<1>2. CASE Network
  BY <1>2, DeliverKeeps, LossKeeps DEF Network
<1>3. CASE Reader
  BY <1>3, ReaderKeeps
<1>4. CASE \E g \in Goroutine : Serve(g)
  BY <1>4, ServeKeeps, PanicKeeps, WriteKeeps DEF Serve
<1>5. CASE UNCHANGED vars
  BY <1>5, Stays
<1> QED
  BY <1>1, <1>2, <1>3, <1>4, <1>5 DEF Next

(* Every datagram, wherever it is, is a question its sender asked, and a    *)
(* goroutine holds it with its sender until it has left.                    *)
THEOREM Invariance == Spec => []IInv
  BY Initially, Step, PTL DEF Spec

(* The variables of the UDP server keep their types (server.go:501-609). *)
THEOREM TypeCorrect == Spec => []TypeOK
  BY Invariance, PTL DEF IInv

(* For any number of clients, goroutines and datagrams, doubled or reordered, *)
(* a reply with an id answers the question of its receiver with that id.      *)
THEOREM RepliesAlwaysMatch == Spec => []RepliesMatch
  BY Invariance, PTL DEF IInv

-----------------------------------------------------------------------------
LEMMA ServiceInit == Init => Service!Init
  BY DEF Init, Service!Init

(* Only the clients' steps and a panic show: the rest is the server's own.   *)
LEMMA ServiceStep == IInv /\ [Next]_vars => [Service!Next]_(Service!vars)
<1> SUFFICES ASSUME IInv, [Next]_vars PROVE [Service!Next]_(Service!vars)
  OBVIOUS
<1> USE DEF Service!Next, Service!vars
<1>1. ASSUME NEW c \in Client, NEW k \in Kinds[c], Ask(c, k)
      PROVE  Service!Ask(c)
  BY <1>1 DEF Ask, Service!Ask, server
<1>2. ASSUME NEW c \in Client, GiveUp(c)
      PROVE  Service!GiveUp(c)
  BY <1>2 DEF GiveUp, Service!GiveUp, server
<1>3. ASSUME NEW c \in Client, Take(c)
      PROVE  Service!Reply(c)
  <2>1. PICK r \in replies :
          /\ waiting[c] /\ r.to = c /\ r.id = Len(asked[c])
          /\ got' = [got EXCEPT ![c][r.id] = r.rcode]
          /\ waiting' = [waiting EXCEPT ![c] = FALSE]
          /\ UNCHANGED <<asked, process>>
    BY <1>3 DEF Take, server
  <2>2. asked[c] \in Seq(AllKinds) /\ asked[c] # <<>>
    BY <2>1 DEF IInv, TypeOK
  <2>3. Len(asked[c]) > 0
    BY <2>2
  <2>4. r.rcode = Deserved(asked[c][r.id]) /\ r.rcode # "none"
    <3>1. r \in Reply /\ r.id # 0
      BY <2>1, <2>3 DEF IInv, TypeOK
    <3>2. r.rcode = Deserved(asked[r.to][r.id])
      BY <3>1 DEF IInv, RepliesMatch
    <3> QED
      BY <2>1, <3>1, <3>2 DEF Reply
  <2>5. Deserved(asked[c][r.id]) = Service!Deserved(asked[c][r.id])
    BY DEF Deserved, Service!Deserved
  <2> QED
    BY <2>1, <2>3, <2>4, <2>5 DEF Service!Reply
<1>4. ASSUME NEW g \in Goroutine, Panic(g)
      PROVE  Service!Die
  <2>1. /\ session[g] \in Client
        /\ message[g].id \in DOMAIN asked[session[g]]
        /\ asked[session[g]][message[g].id] = "poison"
    BY <1>4 DEF Panic, IInv, TypeOK, Genuine
  <2> QED
    BY <1>4, <2>1 DEF Panic, Service!Die, client
<1>5. CASE Clients
  <2>1. ASSUME NEW c \in Client, Retry(c)
        PROVE  UNCHANGED <<process, asked, waiting, got>>
    BY <2>1 DEF Retry, client, server
  <2> QED
    BY <1>1, <1>2, <1>3, <1>5, <2>1 DEF Clients
<1>6. CASE Network
  BY <1>6 DEF Network, LoseRequest, LoseReply, Deliver, client, server
<1>7. CASE Reader
  BY <1>7 DEF Reader, ReadNothing, Read, client, server
<1>8. CASE \E g \in Goroutine : Serve(g)
  <2>1. ASSUME NEW g \in Goroutine, Ignore(g) \/ Handle(g) \/ Refuse(g) \/ Write(g)
        PROVE  UNCHANGED <<process, asked, waiting, got>>
    BY <2>1 DEF Ignore, Handle, Refuse, Write, client
  <2> QED
    BY <1>4, <1>8, <2>1 DEF Serve
<1>9. CASE UNCHANGED vars
  BY <1>9 DEF vars
<1> QED
  BY <1>5, <1>6, <1>7, <1>8, <1>9 DEF Next

(* The goroutines, buffers and sessions of serveUDP, over any network, keep *)
(* the promise of UdpService.                                               *)
THEOREM ImplementsService == Spec => KeepsService
  BY Invariance, ServiceInit, ServiceStep, PTL DEF Spec, KeepsService, Service!Spec
=============================================================================
