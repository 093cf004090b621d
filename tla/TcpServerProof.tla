---------------------------- MODULE TcpServerProof ----------------------------
(***************************************************************************)
(* The TCP server for any number of connections, any sizes of its queues   *)
(* and any limit of queries: its types, the accept loop's hold on one      *)
(* connection at a time, the number of messages served on one, and that it *)
(* implements TcpService.                                                  *)
(***************************************************************************)
EXTENDS TcpServer, TLAPS

(* A connection nobody opened is nowhere. *)
OutIsNowhere ==
  \A c \in Conn : client[c] = "out" =>
    /\ state[c] = "none"
    /\ \A i \in DOMAIN backlog : backlog[i] # c

(* The counter lags one behind the messages served once the first is over. *)
Counted ==
  \A c \in Conn :
    /\ state[c] \in {"none", "first", "leaked"} => counter[c] = 0 /\ served[c] = 0
    /\ state[c] \in {"redo", "write"} =>
         served[c] = counter[c] /\ counter[c] <= MaxQueries + 1
    /\ state[c] = "idle" =>
         served[c] = counter[c] + 1 /\ counter[c] <= MaxQueries
    /\ served[c] <= MaxQueries + 2

(* serve has a message at hand while it deals with it. *)
AtHand == \A c \in Conn : state[c] \in {"redo", "write"} => current[c] \in Message

IInv == TypeOK /\ OutIsNowhere /\ OneFirstRead /\ Counted /\ AtHand

LEMMA InitInvariant == Init => IInv
  BY ServerAssumption DEF Init, IInv, TypeOK, OutIsNowhere, OneFirstRead, Counted,
     AtHand, ConnStates, NoMessage

-----------------------------------------------------------------------------
(* The types.                                                              *)

LEMMA SendType ==
  ASSUME TypeOK, NEW c \in Conn, NEW k \in Kinds, Send(c, k)
  PROVE  TypeOK'
<1>1. sent[c] + 1 \in 1 .. MaxSent
  BY ServerAssumption DEF TypeOK, Send
<1>2. [kind |-> k, n |-> sent[c] + 1] \in Message
  BY <1>1, ServerAssumption DEF Message
<1>3. inbox' \in [Conn -> Seq(Message)]
  BY <1>2 DEF TypeOK, Send
<1>4. sent' \in [Conn -> 0 .. MaxSent]
  BY <1>1 DEF TypeOK, Send
<1> QED
  BY <1>3, <1>4 DEF TypeOK, Send

LEMMA CompleteType ==
  ASSUME TypeOK, NEW c \in Conn, Complete(c)
  PROVE  TypeOK'
<1> DEFINE q == inbox[c]
           l == Len(q)
           m == [q[l] EXCEPT !.kind = "query"]
<1>1. q \in Seq(Message) /\ l \in 1 .. Len(q)
  BY DEF TypeOK, Complete
<1>2. m \in Message
  <2>1. q[l] \in Message
    BY <1>1
  <2>2. "query" \in Whole
    BY DEF Whole
  <2> HIDE DEF q, l
  <2> QED
    BY <2>1, <2>2 DEF Message
<1>3. [q EXCEPT ![l] = m] \in Seq(Message)
  BY <1>1, <1>2
<1>4. inbox' = [inbox EXCEPT ![c] = [q EXCEPT ![l] = m]]
  BY DEF Complete
<1>5. inbox' \in [Conn -> Seq(Message)]
  BY <1>3, <1>4 DEF TypeOK
<1> QED
  BY <1>5 DEF TypeOK, Complete

LEMMA ReadType ==
  ASSUME TypeOK, NEW c \in Conn, Readable(c),
         inbox' = [inbox EXCEPT ![c] = Tail(@)],
         current' = [current EXCEPT ![c] = Head(inbox[c])]
  PROVE  /\ inbox' \in [Conn -> Seq(Message)]
         /\ current' \in [Conn -> Message \cup {NoMessage}]
<1>1. inbox[c] \in Seq(Message) /\ inbox[c] # <<>>
  BY DEF TypeOK, Readable
<1>2. Head(inbox[c]) \in Message /\ Tail(inbox[c]) \in Seq(Message)
  BY <1>1
<1> QED
  BY <1>2 DEF TypeOK

(* What Counted says of a connection whose turn it is to exit. *)
LEMMA ExitType ==
  ASSUME TypeOK, NEW c \in Conn, Exit(c)
  PROVE  /\ state' \in [Conn -> ConnStates]
         /\ current' \in [Conn -> Message \cup {NoMessage}]
         /\ served' \in [Conn -> Nat]
  BY DEF TypeOK, Exit, ConnStates

LEMMA WriteType ==
  ASSUME TypeOK, NEW c \in Conn, Write(c), current[c] \in Message
  PROVE  TypeOK'
<1>1. current[c].n \in 1 .. MaxSent
  BY DEF Message
<1>2. outbox' \in [Conn -> Seq(1 .. MaxSent)]
  <2> DEFINE o == IF client[c] = "open" THEN Append(outbox[c], current[c].n) ELSE outbox[c]
  <2>0. outbox[c] \in Seq(1 .. MaxSent)
    BY DEF TypeOK
  <2>1. o \in Seq(1 .. MaxSent)
    <3>1. CASE client[c] = "open"
      <4> DEFINE q == outbox[c]
                 n == current[c].n
      <4>1. q \in Seq(1 .. MaxSent) /\ n \in 1 .. MaxSent
        BY <1>1, <2>0
      <4> HIDE DEF q, n
      <4>2. Append(q, n) \in Seq(1 .. MaxSent)
        BY <4>1
      <4> QED
        BY <3>1, <4>2 DEF q, n
    <3> QED
      BY <2>0, <3>1
  <2>2. outbox' = [outbox EXCEPT ![c] = o]
    BY DEF Write
  <2> QED
    BY <2>1, <2>2 DEF TypeOK
<1>3. replied' \in [Conn -> Seq(1 .. MaxSent)]
  <2> DEFINE o == IF client[c] = "open" THEN Append(replied[c], current[c].n) ELSE replied[c]
  <2>0. replied[c] \in Seq(1 .. MaxSent)
    BY DEF TypeOK
  <2>1. o \in Seq(1 .. MaxSent)
    <3>1. CASE client[c] = "open"
      <4> DEFINE q == replied[c]
                 n == current[c].n
      <4>1. q \in Seq(1 .. MaxSent) /\ n \in 1 .. MaxSent
        BY <1>1, <2>0
      <4> HIDE DEF q, n
      <4>2. Append(q, n) \in Seq(1 .. MaxSent)
        BY <4>1
      <4> QED
        BY <3>1, <4>2 DEF q, n
    <3> QED
      BY <2>0, <3>1
  <2>2. replied' = [replied EXCEPT ![c] = o]
    BY DEF Write
  <2> QED
    BY <2>1, <2>2 DEF TypeOK
<1>4. Exit(c)
  BY DEF Write
<1> QED
  BY <1>2, <1>3, <1>4, ExitType DEF TypeOK, Write

-----------------------------------------------------------------------------
(* The accept loop.                                                        *)

LEMMA AcceptInvariant ==
  ASSUME IInv, Accept
  PROVE  IInv'
<1> DEFINE c == Head(backlog)
<1>1. /\ backlog \in Seq(Conn) /\ backlog # <<>>
      /\ backlog' = Tail(backlog) /\ acceptor' = "read" /\ acceptor = "accept"
      /\ state' = [state EXCEPT ![c] = "first"]
      /\ UNCHANGED <<process, counter, current, inbox, outbox, client, sent,
                     replied, served>>
  BY DEF IInv, TypeOK, Accept
<1>2. /\ c \in Conn /\ c = backlog[1] /\ 1 \in DOMAIN backlog
      /\ backlog' \in Seq(Conn)
      /\ \A i \in DOMAIN backlog' : i + 1 \in DOMAIN backlog /\ backlog'[i] = backlog[i + 1]
  BY <1>1
<1>3. state[c] = "none"
  BY <1>2 DEF IInv, OneFirstRead
<1> HIDE DEF c
<1>4. \A i \in DOMAIN backlog' : backlog'[i] # c
  <2>1. TAKE i \in DOMAIN backlog'
  <2>2. i + 1 # 1
    BY <1>2
  <2> QED
    BY <1>2, <2>2 DEF IInv, OneFirstRead
<1>5. TypeOK'
  BY <1>1, <1>2 DEF IInv, TypeOK, ConnStates
<1>6. OutIsNowhere'
  <2>1. SUFFICES ASSUME NEW d \in Conn, client[d] = "out"
                 PROVE  state'[d] = "none" /\ \A i \in DOMAIN backlog' : backlog'[i] # d
    BY <1>1 DEF OutIsNowhere
  <2>2. d # c /\ state[d] = "none"
    BY <1>2, <2>1 DEF IInv, OutIsNowhere
  <2> QED
    BY <1>1, <1>2, <2>1, <2>2 DEF IInv, OutIsNowhere, TypeOK
<1>7. OneFirstRead'
  <2>1. \A d \in Conn : state[d] # "first"
    BY <1>1 DEF IInv, OneFirstRead
  <2>2. \A d \in Conn : state'[d] = IF d = c THEN "first" ELSE state[d]
    BY <1>1 DEF IInv, TypeOK
  <2>3. \A i \in DOMAIN backlog' : state'[backlog'[i]] = "none"
    <3>1. TAKE i \in DOMAIN backlog'
    <3>2. backlog'[i] \in Conn /\ backlog'[i] # c
      BY <1>2, <1>4
    <3>3. state[backlog'[i]] = "none"
      BY <1>2 DEF IInv, OneFirstRead
    <3> QED
      BY <2>2, <3>2, <3>3
  <2>4. \A i, j \in DOMAIN backlog' : backlog'[i] = backlog'[j] => i = j
    BY <1>2 DEF IInv, OneFirstRead
  <2> QED
    BY <1>1, <1>2, <2>1, <2>2, <2>3, <2>4 DEF OneFirstRead
<1>8. Counted' /\ AtHand'
  BY <1>1, <1>2, <1>3 DEF IInv, Counted, AtHand, TypeOK
<1> QED
  BY <1>5, <1>6, <1>7, <1>8 DEF IInv

LEMMA AcceptFailsInvariant ==
  ASSUME IInv, AcceptFails
  PROVE  IInv'
<1>1. /\ acceptor = "accept" /\ acceptor' = "stopped" /\ backlog' = <<>>
      /\ \A c \in Conn : state'[c] \in {"closed", state[c]}
      /\ \A c \in Conn : state'[c] = "closed" \/ state'[c] = state[c]
      /\ UNCHANGED <<process, counter, current, inbox, outbox, client, sent,
                     replied, served>>
  BY DEF AcceptFails
<1>2. TypeOK'
  BY <1>1 DEF IInv, TypeOK, ConnStates, AcceptFails
<1>3. OutIsNowhere'
  <2>1. SUFFICES ASSUME NEW c \in Conn, client[c] = "out" PROVE state'[c] = "none"
    BY <1>1 DEF OutIsNowhere
  <2>2. c \notin ToSet(backlog)
    BY <2>1 DEF IInv, OutIsNowhere, ToSet
  <2> QED
    BY <2>1, <2>2 DEF AcceptFails, IInv, OutIsNowhere
<1>4. OneFirstRead'
  BY <1>1 DEF IInv, OneFirstRead
<1>5. Counted' /\ AtHand'
  BY <1>1 DEF IInv, Counted, AtHand
<1> QED
  BY <1>2, <1>3, <1>4, <1>5 DEF IInv

(* The connection in the accept loop's hands leaves them. *)
LEMMA FirstLeaves ==
  ASSUME IInv, NEW c \in Conn, state[c] = "first", NEW s \in {"redo", "leaked"},
         acceptor' = "accept", UNCHANGED backlog,
         \A d \in Conn : state'[d] = IF d = c THEN s ELSE state[d]
  PROVE  OneFirstRead'
<1>1. \A d \in Conn : state'[d] # "first"
  BY DEF IInv, OneFirstRead
<1>2. \A i \in DOMAIN backlog' : state'[backlog'[i]] = "none"
  <2>1. TAKE i \in DOMAIN backlog'
  <2>2. backlog[i] \in Conn /\ state[backlog[i]] = "none"
    BY DEF IInv, TypeOK, OneFirstRead
  <2>3. backlog[i] # c
    BY <2>2
  <2> QED
    BY <2>2, <2>3
<1>3. \A i, j \in DOMAIN backlog' : backlog'[i] = backlog'[j] => i = j
  BY DEF IInv, OneFirstRead
<1> QED
  BY <1>1, <1>2, <1>3 DEF OneFirstRead

LEMMA ReadFirstInvariant ==
  ASSUME IInv, NEW c \in Conn, ReadFirst(c)
  PROVE  IInv'
<1>1. /\ state[c] = "first" /\ acceptor' = "accept"
      /\ \A d \in Conn : state'[d] = IF d = c THEN "redo" ELSE state[d]
      /\ state' \in [Conn -> ConnStates]
      /\ UNCHANGED <<process, backlog, counter, outbox, client, sent, replied, served>>
  BY DEF IInv, TypeOK, ReadFirst, ConnStates
<1>2. /\ inbox' \in [Conn -> Seq(Message)]
      /\ current' \in [Conn -> Message \cup {NoMessage}]
  BY ReadType DEF IInv, ReadFirst
<1>3. TypeOK'
  BY <1>1, <1>2 DEF IInv, TypeOK
<1>4. OutIsNowhere'
  BY <1>1 DEF IInv, OutIsNowhere
<1>5. OneFirstRead'
  BY <1>1, FirstLeaves
<1>6. Counted'
  BY <1>1, ServerAssumption DEF IInv, Counted
<1>7. AtHand'
  <2>1. inbox[c] \in Seq(Message) /\ inbox[c] # <<>>
    BY DEF IInv, TypeOK, ReadFirst, Readable
  <2>2. Head(inbox[c]) \in Message
    BY <2>1
  <2> QED
    BY <1>1, <2>2 DEF IInv, AtHand, ReadFirst, TypeOK
<1> QED
  BY <1>3, <1>4, <1>5, <1>6, <1>7 DEF IInv

LEMMA GiveUpFirstInvariant ==
  ASSUME IInv, NEW c \in Conn, GiveUpFirst(c)
  PROVE  IInv'
<1>1. /\ state[c] = "first" /\ acceptor' = "accept"
      /\ \A d \in Conn : state'[d] = IF d = c THEN "leaked" ELSE state[d]
      /\ state' \in [Conn -> ConnStates]
      /\ UNCHANGED <<process, backlog, counter, current, inbox, outbox, client, sent,
                     replied, served>>
  BY DEF IInv, TypeOK, GiveUpFirst, ConnStates
<1>2. TypeOK'
  BY <1>1 DEF IInv, TypeOK
<1>3. OutIsNowhere' /\ Counted' /\ AtHand'
  BY <1>1 DEF IInv, OutIsNowhere, Counted, AtHand
<1>4. OneFirstRead'
  BY <1>1, FirstLeaves
<1> QED
  BY <1>2, <1>3, <1>4 DEF IInv

-----------------------------------------------------------------------------
(* The goroutine of a connection: the accept loop sees no difference.      *)

LEMMA Unseen ==
  ASSUME IInv, NEW c \in Conn, state[c] \notin {"none", "first"},
         UNCHANGED <<acceptor, backlog, client>>,
         \A d \in Conn \ {c} : state'[d] = state[d],
         state'[c] \notin {"none", "first"}
  PROVE  OutIsNowhere' /\ OneFirstRead'
<1>1. OutIsNowhere'
  BY DEF IInv, OutIsNowhere
<1>2. \A i \in DOMAIN backlog : backlog[i] \in Conn
  BY DEF IInv, TypeOK
<1>3. OneFirstRead'
  BY <1>2 DEF IInv, OneFirstRead
<1> QED
  BY <1>1, <1>3

LEMMA ExitInvariant ==
  ASSUME IInv, NEW c \in Conn, state[c] \in {"redo", "write"}, Exit(c), TypeOK',
         UNCHANGED <<acceptor, backlog, client, counter>>
  PROVE  IInv'
<1>1. /\ state'[c] = IF counter[c] > MaxQueries THEN "closed" ELSE "idle"
      /\ \A d \in Conn \ {c} : state'[d] = state[d]
      /\ served'[c] = served[c] + 1
      /\ \A d \in Conn \ {c} : served'[d] = served[d] /\ current'[d] = current[d]
  BY DEF IInv, TypeOK, Exit
<1>2. OutIsNowhere' /\ OneFirstRead'
  BY <1>1, Unseen
<1>3. counter[c] \in Nat /\ served[c] = counter[c] /\ counter[c] <= MaxQueries + 1
  BY DEF IInv, TypeOK, Counted
<1>4. Counted'
  BY <1>1, <1>3, ServerAssumption DEF IInv, Counted
<1>5. AtHand'
  BY <1>1 DEF IInv, AtHand
<1> QED
  BY <1>2, <1>4, <1>5 DEF IInv

LEMMA ReadNextInvariant ==
  ASSUME IInv, NEW c \in Conn, ReadNext(c)
  PROVE  IInv'
<1>1. /\ state[c] = "idle" /\ state'[c] = "redo"
      /\ \A d \in Conn \ {c} : state'[d] = state[d]
      /\ counter'[c] = counter[c] + 1
      /\ \A d \in Conn \ {c} : counter'[d] = counter[d]
      /\ current'[c] = Head(inbox[c])
      /\ \A d \in Conn \ {c} : current'[d] = current[d]
      /\ UNCHANGED <<process, acceptor, backlog, outbox, client, sent, replied, served>>
  BY DEF IInv, TypeOK, ReadNext
<1>2. /\ inbox' \in [Conn -> Seq(Message)]
      /\ current' \in [Conn -> Message \cup {NoMessage}]
  BY ReadType DEF IInv, ReadNext
<1>3. /\ counter[c] \in Nat /\ counter[c] <= MaxQueries
      /\ served[c] = counter[c] + 1
  BY <1>1 DEF IInv, TypeOK, Counted
<1>4. counter' \in [Conn -> 0 .. MaxQueries + 1] /\ state' \in [Conn -> ConnStates]
  BY <1>1, <1>3, ServerAssumption DEF IInv, TypeOK, ReadNext, ConnStates
<1>5. TypeOK'
  BY <1>1, <1>2, <1>4 DEF IInv, TypeOK
<1>6. OutIsNowhere' /\ OneFirstRead'
  BY <1>1, Unseen
<1>7. Counted'
  BY <1>1, <1>3, ServerAssumption DEF IInv, Counted
<1>8. AtHand'
  <2>1. inbox[c] \in Seq(Message) /\ inbox[c] # <<>>
    BY DEF IInv, TypeOK, ReadNext, Readable
  <2>2. Head(inbox[c]) \in Message
    BY <2>1
  <2> QED
    BY <1>1, <2>2 DEF IInv, AtHand
<1> QED
  BY <1>5, <1>6, <1>7, <1>8 DEF IInv

LEMMA ServeInvariant ==
  ASSUME IInv, NEW c \in Conn, Serve(c)
  PROVE  IInv'
<1>1. CASE Ignore(c)
  <2>1. /\ Exit(c) /\ state[c] = "redo"
        /\ UNCHANGED <<process, acceptor, backlog, counter, inbox, outbox, client,
                       sent, replied>>
    BY <1>1 DEF Ignore
  <2>2. TypeOK'
    BY <2>1, ExitType DEF IInv, TypeOK
  <2> QED
    BY <2>1, <2>2, ExitInvariant
<1>2. CASE Write(c)
  <2>1. /\ Exit(c) /\ state[c] = "write"
        /\ UNCHANGED <<acceptor, backlog, counter, client>>
    BY <1>2 DEF Write
  <2>2. TypeOK'
    BY <1>2, <2>1, WriteType DEF IInv, AtHand
  <2> QED
    BY <2>1, <2>2, ExitInvariant
<1>3. CASE Handle(c)
  <2>1. /\ state[c] = "redo" /\ state'[c] = "write"
        /\ \A d \in Conn \ {c} : state'[d] = state[d]
        /\ state' \in [Conn -> ConnStates]
        /\ UNCHANGED <<process, acceptor, backlog, counter, current, inbox, outbox,
                       client, sent, replied, served>>
    BY <1>3 DEF IInv, TypeOK, Handle, ConnStates
  <2>2. OutIsNowhere' /\ OneFirstRead'
    BY <2>1, Unseen
  <2> QED
    BY <2>1, <2>2 DEF IInv, TypeOK, Counted, AtHand
<1>4. CASE HandlerPanics(c)
  BY <1>4 DEF HandlerPanics, IInv, TypeOK, OutIsNowhere, OneFirstRead, Counted, AtHand
<1>5. CASE ReadNext(c)
  BY <1>5, ReadNextInvariant
<1>6. CASE CloseIdle(c)
  <2>1. /\ state[c] = "idle" /\ state'[c] = "closed"
        /\ \A d \in Conn \ {c} : state'[d] = state[d]
        /\ state' \in [Conn -> ConnStates]
        /\ UNCHANGED <<process, acceptor, backlog, counter, current, inbox, outbox,
                       client, sent, replied, served>>
    BY <1>6 DEF IInv, TypeOK, CloseIdle, ConnStates
  <2>2. OutIsNowhere' /\ OneFirstRead'
    BY <2>1, Unseen
  <2> QED
    BY <2>1, <2>2 DEF IInv, TypeOK, Counted, AtHand
<1> QED
  BY <1>1, <1>2, <1>3, <1>4, <1>5, <1>6
  DEF Serve, NextRefused, NextEnded, NextTimeout

-----------------------------------------------------------------------------
(* The clients, the network and the collector.                             *)

LEMMA ConnectInvariant ==
  ASSUME IInv, NEW c \in Conn, Connect(c)
  PROVE  IInv'
<1>1. /\ acceptor # "stopped" /\ client[c] = "out"
      /\ client' = [client EXCEPT ![c] = "open"]
      /\ backlog' = Append(backlog, c)
      /\ UNCHANGED <<process, acceptor, state, counter, current, inbox, outbox,
                     sent, replied, served>>
  BY DEF Connect
<1>2. backlog \in Seq(Conn) /\ backlog' \in Seq(Conn)
  BY <1>1 DEF IInv, TypeOK
<1>3. /\ DOMAIN backlog = 1 .. Len(backlog) /\ Len(backlog) \in Nat
      /\ DOMAIN backlog' = 1 .. Len(backlog) + 1
      /\ \A i \in 1 .. Len(backlog) : backlog'[i] = backlog[i]
      /\ backlog'[Len(backlog) + 1] = c
  BY <1>1, <1>2
<1>4. state[c] = "none" /\ \A i \in DOMAIN backlog : backlog[i] # c
  BY <1>1 DEF IInv, OutIsNowhere
<1>5. TypeOK'
  BY <1>1, <1>2 DEF IInv, TypeOK
<1>6. OutIsNowhere'
  <2>1. SUFFICES ASSUME NEW d \in Conn, client'[d] = "out"
                 PROVE  state'[d] = "none" /\ \A i \in DOMAIN backlog' : backlog'[i] # d
    BY DEF OutIsNowhere
  <2>2. d # c /\ client[d] = "out"
    BY <1>1, <2>1 DEF IInv, TypeOK
  <2>3. state[d] = "none" /\ \A i \in DOMAIN backlog : backlog[i] # d
    BY <2>2 DEF IInv, OutIsNowhere
  <2> QED
    BY <1>1, <1>3, <2>2, <2>3
<1>7. OneFirstRead'
  <2>1. \A i \in DOMAIN backlog' : state'[backlog'[i]] = "none"
    BY <1>1, <1>3, <1>4 DEF IInv, OneFirstRead
  <2>2. \A i, j \in DOMAIN backlog' : backlog'[i] = backlog'[j] => i = j
    BY <1>3, <1>4 DEF IInv, OneFirstRead
  <2>3. /\ \A d, e \in Conn : state'[d] = "first" /\ state'[e] = "first" => d = e
        /\ acceptor' = "read" <=> \E d \in Conn : state'[d] = "first"
    BY <1>1 DEF IInv, OneFirstRead
  <2> QED
    BY <2>1, <2>2, <2>3 DEF OneFirstRead
<1>8. Counted' /\ AtHand'
  BY <1>1 DEF IInv, Counted, AtHand
<1> QED
  BY <1>5, <1>6, <1>7, <1>8 DEF IInv

(* A client that is there already changes what is in flight, or leaves. *)
LEMMA Unmoved ==
  ASSUME IInv, TypeOK',
         UNCHANGED <<acceptor, backlog, state, counter, current, served>>,
         \A c \in Conn : client'[c] = "out" => client[c] = "out"
  PROVE  IInv'
BY DEF IInv, OutIsNowhere, OneFirstRead, Counted, AtHand

LEMMA EnvironmentInvariant ==
  ASSUME IInv, NEW c \in Conn, Environment(c)
  PROVE  IInv'
<1>1. CASE Connect(c)
  BY <1>1, ConnectInvariant
<1>2. CASE Complete(c)
  <2>1. TypeOK'
    BY <1>2, CompleteType DEF IInv
  <2> QED
    BY <1>2, <2>1, Unmoved DEF Complete
<1>3. CASE ReadReply(c)
  <2>1. outbox[c] \in Seq(1 .. MaxSent) /\ outbox[c] # <<>>
    BY <1>3 DEF IInv, TypeOK, ReadReply
  <2>2. Tail(outbox[c]) \in Seq(1 .. MaxSent)
    <3>1. \A S : \A q \in Seq(S) : q # <<>> => Tail(q) \in Seq(S)
      OBVIOUS
    <3> QED
      BY <2>1, <3>1, Zenon
  <2>3. TypeOK'
    BY <1>3, <2>2 DEF IInv, TypeOK, ReadReply
  <2> QED
    BY <1>3, <2>3, Unmoved DEF ReadReply
<1>4. CASE Leave(c)
  <2>1. TypeOK' /\ \A d \in Conn : client'[d] = "out" => client[d] = "out"
    BY <1>4 DEF IInv, TypeOK, Leave
  <2> QED
    BY <1>4, <2>1, Unmoved DEF Leave
<1>5. ASSUME NEW k \in Kinds, Send(c, k) PROVE IInv'
  <2>1. TypeOK'
    BY <1>5, SendType DEF IInv
  <2> QED
    BY <1>5, <2>1, Unmoved DEF Send
<1> QED
  BY <1>1, <1>2, <1>3, <1>4, <1>5 DEF Environment

LEMMA CollectInvariant ==
  ASSUME IInv, NEW c \in Conn, Collect(c)
  PROVE  IInv'
<1>1. /\ state[c] = "leaked" /\ state'[c] = "closed"
      /\ \A d \in Conn \ {c} : state'[d] = state[d]
      /\ state' \in [Conn -> ConnStates]
      /\ UNCHANGED <<process, acceptor, backlog, counter, current, inbox, outbox,
                     client, sent, replied, served>>
  BY DEF IInv, TypeOK, Collect, ConnStates
<1>2. OutIsNowhere' /\ OneFirstRead'
  BY <1>1, Unseen
<1> QED
  BY <1>1, <1>2 DEF IInv, TypeOK, Counted, AtHand

-----------------------------------------------------------------------------
LEMMA NextInvariant == IInv /\ [Next]_vars => IInv'
<1> SUFFICES ASSUME IInv, [Next]_vars PROVE IInv'
  OBVIOUS
<1>1. CASE Accept
  BY <1>1, AcceptInvariant
<1>2. CASE AcceptFails
  BY <1>2, AcceptFailsInvariant
<1>3. ASSUME NEW c \in Conn, AcceptLoop(c) PROVE IInv'
  BY <1>3, ReadFirstInvariant, GiveUpFirstInvariant
  DEF AcceptLoop, FirstRefused, FirstEnded, FirstTimeout
<1>4. ASSUME NEW c \in Conn, Serve(c) PROVE IInv'
  BY <1>4, ServeInvariant
<1>5. ASSUME NEW c \in Conn, Collect(c) PROVE IInv'
  BY <1>5, CollectInvariant
<1>6. ASSUME NEW c \in Conn, Environment(c) PROVE IInv'
  BY <1>6, EnvironmentInvariant
<1>7. CASE UNCHANGED vars
  BY <1>7 DEF vars, IInv, TypeOK, OutIsNowhere, OneFirstRead, Counted, AtHand
<1> QED
  BY <1>1, <1>2, <1>3, <1>4, <1>5, <1>6, <1>7 DEF Next

(* The inductive invariant holds of every behaviour of serveTCP and serve. *)
THEOREM Invariance == Spec => []IInv
BY InitInvariant, NextInvariant, PTL DEF Spec

(* The server's variables keep their types; the counter stays in its range. *)
THEOREM TypeCorrect == Spec => []TypeOK
<1>1. IInv => TypeOK
  BY DEF IInv
<1> QED
  BY <1>1, Invariance, PTL

(* The accept loop holds one connection at most, for any number of clients. *)
THEOREM OneReadAtATime == Spec => []OneFirstRead
<1>1. IInv => OneFirstRead
  BY DEF IInv
<1> QED
  BY <1>1, Invariance, PTL

(* No connection is served more than MaxQueries + 2 messages, whatever the *)
(* limit of server.go:16 is.                                               *)
THEOREM QueriesAreBounded == Spec => []QueriesBounded
<1>1. IInv => QueriesBounded
  BY DEF IInv, Counted, QueriesBounded
<1> QED
  BY <1>1, Invariance, PTL

-----------------------------------------------------------------------------
(* What a client may rely on: every step is one of TcpService or none.     *)

(* A client that has not come has said nothing, and what is about to be    *)
(* written answers a message that deserves it.                             *)
RInv ==
  /\ IInv
  /\ \A c \in Conn : client[c] = "out" => sent[c] = 0
  /\ \A c \in Conn : state[c] = "write" => current[c].kind \in {"query", "garbage"}

LEMMA MappedInvariant == RInv /\ [Next]_vars => RInv'
<1> SUFFICES ASSUME RInv, [Next]_vars PROVE RInv'
  OBVIOUS
<1>1. IInv /\ IInv' /\ TypeOK
  BY NextInvariant DEF RInv, IInv
<1>2. ASSUME UNCHANGED <<client, sent>>,
             \A c \in Conn : state'[c] = "write" =>
               state[c] = "write" /\ current'[c] = current[c]
      PROVE  RInv'
  BY <1>1, <1>2 DEF RInv
<1>3. CASE Accept
  BY <1>1, <1>2, <1>3 DEF Accept, TypeOK
<1>4. CASE AcceptFails
  BY <1>1, <1>2, <1>4 DEF AcceptFails, TypeOK
<1>5. ASSUME NEW c \in Conn, AcceptLoop(c) PROVE RInv'
  <2>1. CASE ReadFirst(c)
    BY <1>1, <1>2, <2>1 DEF ReadFirst, TypeOK
  <2>2. CASE GiveUpFirst(c)
    BY <1>1, <1>2, <2>2 DEF GiveUpFirst, TypeOK
  <2> QED
    BY <1>5, <2>1, <2>2 DEF AcceptLoop, FirstRefused, FirstEnded, FirstTimeout
<1>6. ASSUME NEW c \in Conn, Serve(c) PROVE RInv'
  <2>1. CASE Handle(c)
    BY <1>1, <2>1 DEF Handle, TypeOK, RInv
  <2>2. CASE Ignore(c) \/ Write(c)
    BY <1>1, <1>2, <2>2 DEF Ignore, Write, Exit, TypeOK
  <2>3. CASE HandlerPanics(c)
    BY <1>1, <1>2, <2>3 DEF HandlerPanics
  <2>4. CASE ReadNext(c)
    BY <1>1, <1>2, <2>4 DEF ReadNext, TypeOK
  <2>5. CASE CloseIdle(c)
    BY <1>1, <1>2, <2>5 DEF CloseIdle, TypeOK
  <2> QED
    BY <1>6, <2>1, <2>2, <2>3, <2>4, <2>5
    DEF Serve, NextRefused, NextEnded, NextTimeout
<1>7. ASSUME NEW c \in Conn, Collect(c) PROVE RInv'
  BY <1>1, <1>2, <1>7 DEF Collect, TypeOK
<1>8. ASSUME NEW c \in Conn, Environment(c) PROVE RInv'
  <2>1. CASE Connect(c)
    BY <1>1, <2>1 DEF Connect, TypeOK, RInv
  <2>2. CASE Complete(c)
    BY <1>1, <1>2, <2>2 DEF Complete
  <2>3. CASE ReadReply(c)
    BY <1>1, <1>2, <2>3 DEF ReadReply
  <2>4. CASE Leave(c)
    BY <1>1, <2>4 DEF Leave, TypeOK, RInv
  <2>5. ASSUME NEW k \in Kinds, Send(c, k) PROVE RInv'
    BY <1>1, <2>5 DEF Send, TypeOK, RInv
  <2> QED
    BY <1>8, <2>1, <2>2, <2>3, <2>4, <2>5 DEF Environment
<1>9. CASE UNCHANGED vars
  BY <1>1, <1>2, <1>9 DEF vars
<1> QED
  BY <1>3, <1>4, <1>5, <1>6, <1>7, <1>8, <1>9 DEF Next

(* The mapping. *)
Pending(c) == IF state[c] \in {"redo", "write"} THEN <<current[c]>> \o inbox[c] ELSE inbox[c]
Asked      == [c \in Conn |-> Pending(c)]
Present    == [c \in Conn |-> client[c] = "open"]
Ended      == {c \in Conn : state[c] \in {"closed", "leaked"} \/ process = "dead"}

LEMMA PushFacts ==
  ASSUME NEW S, NEW m \in S, NEW q \in Seq(S)
  PROVE  /\ <<m>> \o q \in Seq(S) /\ Len(<<m>> \o q) = Len(q) + 1
         /\ <<m>> \o q # <<>> /\ Head(<<m>> \o q) = m /\ Tail(<<m>> \o q) = q
         /\ \A i \in 1 .. Len(q) : (<<m>> \o q)[i + 1] = q[i]
         /\ \A k : <<m>> \o Append(q, k) = Append(<<m>> \o q, k)
  OBVIOUS

(* What comes first in a sequence does not matter to a change of the last. *)
LEMMA PushLastFacts ==
  ASSUME NEW S, NEW m \in S, NEW q \in Seq(S), q # <<>>, NEW x
  PROVE  <<m>> \o [q EXCEPT ![Len(q)] = x] = [<<m>> \o q EXCEPT ![Len(q) + 1] = x]
<1> DEFINE l == Len(q)
           r == [q EXCEPT ![l] = x]
           p == <<m>> \o q
<1>1. /\ p \in Seq(S) /\ Len(p) = l + 1 /\ p[1] = m /\ l \in Nat \ {0}
      /\ \A i \in 1 .. l : p[i + 1] = q[i]
  BY PushFacts
<1>2. <<m>> \o r = [i \in 1 .. l + 1 |-> IF i = 1 THEN m ELSE r[i - 1]]
  OBVIOUS
<1>3. \A i \in 1 .. l : r[i] = IF i = l THEN x ELSE q[i]
  OBVIOUS
<1> HIDE DEF l, p, r
<1>4. [p EXCEPT ![l + 1] = x] = [i \in 1 .. l + 1 |-> IF i = l + 1 THEN x ELSE p[i]]
  <2>1. DOMAIN p = 1 .. l + 1
    BY <1>1
  <2>2. [p EXCEPT ![l + 1] = x] = [i \in DOMAIN p |-> IF i = l + 1 THEN x ELSE p[i]]
    BY <1>1, Zenon
  <2> QED
    BY <2>1, <2>2
<1>5. ASSUME NEW i \in 1 .. l + 1
      PROVE  (IF i = 1 THEN m ELSE r[i - 1]) = (IF i = l + 1 THEN x ELSE p[i])
  <2>1. CASE i = 1
    BY <1>1, <2>1
  <2>2. CASE i # 1
    <3>1. i - 1 \in 1 .. l /\ (i - 1) + 1 = i
      BY <1>1, <2>2
    <3> QED
      BY <1>1, <1>3, <2>2, <3>1
  <2> QED
    BY <2>1, <2>2
<1>6. <<m>> \o r = [p EXCEPT ![l + 1] = x]
  BY <1>2, <1>4, <1>5
<1> QED
  BY <1>6 DEF l, r, p

LEMMA PopFacts ==
  ASSUME NEW S, NEW q \in Seq(S), q # <<>>
  PROVE  <<Head(q)>> \o Tail(q) = q
  OBVIOUS

LEMMA PendingType ==
  ASSUME IInv, NEW c \in Conn
  PROVE  Pending(c) \in Seq(Message)
<1>1. inbox[c] \in Seq(Message)
  BY DEF IInv, TypeOK
<1>2. CASE state[c] \in {"redo", "write"}
  <2>1. current[c] \in Message
    BY <1>2 DEF IInv, AtHand
  <2> QED
    BY <1>1, <1>2, <2>1, PushFacts DEF Pending
<1>3. CASE state[c] \notin {"redo", "write"}
  BY <1>1, <1>3 DEF Pending
<1> QED
  BY <1>2, <1>3

(* Nobody's messages are touched, and connections may end. *)
LEMMA EndStep ==
  ASSUME UNCHANGED <<client, sent, replied>>,
         \A c \in Conn : Pending(c)' = Pending(c),
         Ended \subseteq Ended'
  PROVE  [Service!Next]_(Service!vars)
<1>1. Asked' = Asked /\ Present' = Present
  BY DEF Asked, Present
<1>2. Ended' \in SUBSET Conn /\ Ended' = Ended \cup Ended'
  BY DEF Ended
<1>3. Service!End
  BY <1>1, <1>2 DEF Service!End, Asked, Present, Ended, Pending
<1> QED
  BY <1>3 DEF Service!Next

(* Messages go from the wire to serve's hands: nothing is seen of it. *)
LEMMA ReadStep ==
  ASSUME RInv, NEW c \in Conn, state[c] \in {"first", "idle"}, Readable(c),
         state' = [state EXCEPT ![c] = "redo"],
         current' = [current EXCEPT ![c] = Head(inbox[c])],
         inbox' = [inbox EXCEPT ![c] = Tail(@)],
         UNCHANGED <<process, client, sent, replied>>
  PROVE  [Service!Next]_(Service!vars)
<1>1. inbox[c] \in Seq(Message) /\ inbox[c] # <<>>
  BY DEF RInv, IInv, TypeOK, Readable
<1>2. <<Head(inbox[c])>> \o Tail(inbox[c]) = inbox[c]
  BY <1>1, PopFacts
<1>3. ASSUME NEW d \in Conn PROVE Pending(d)' = Pending(d)
  <2>1. CASE d = c
    <3>1. Pending(c) = inbox[c]
      BY DEF Pending
    <3>2. state'[c] = "redo" /\ current'[c] = Head(inbox[c]) /\ inbox'[c] = Tail(inbox[c])
      BY DEF RInv, IInv, TypeOK
    <3>3. Pending(c)' = <<Head(inbox[c])>> \o Tail(inbox[c])
      BY <3>2 DEF Pending
    <3> QED
      BY <1>2, <2>1, <3>1, <3>3
  <2>2. CASE d # c
    <3>1. state'[d] = state[d] /\ current'[d] = current[d] /\ inbox'[d] = inbox[d]
      BY <2>2 DEF RInv, IInv, TypeOK
    <3> QED
      BY <3>1 DEF Pending
  <2> QED
    BY <2>1, <2>2
<1>4. Ended \subseteq Ended'
  BY DEF Ended, RInv, IInv, TypeOK
<1> QED
  BY <1>3, <1>4, EndStep

(* A connection changes hands without a message at hand. *)
LEMMA MoveStep ==
  ASSUME RInv, NEW C \in SUBSET Conn,
         \A d \in C : /\ state[d] \notin {"redo", "write", "closed"}
                      /\ state'[d] \notin {"redo", "write"}
                      /\ state[d] = "leaked" => state'[d] = "closed",
         \A d \in Conn \ C : state'[d] = state[d],
         UNCHANGED <<process, client, sent, replied, current, inbox>>
  PROVE  [Service!Next]_(Service!vars)
<1>1. \A d \in Conn : Pending(d)' = Pending(d)
  BY DEF Pending
<1>2. Ended \subseteq Ended'
  BY DEF Ended
<1> QED
  BY <1>1, <1>2, EndStep

(* serve is through with a message. *)
LEMMA TakeStep ==
  ASSUME RInv, NEW c \in Conn, state[c] \in {"redo", "write"}, process = "up",
         Exit(c), UNCHANGED <<process, client, sent, inbox>>,
         replied' = IF client[c] = "open" /\ current[c].kind \in {"query", "garbage"}
                    THEN [replied EXCEPT ![c] = Append(@, current[c].n)]
                    ELSE replied
  PROVE  [Service!Next]_(Service!vars)
<1>1. /\ state' = [state EXCEPT ![c] = state'[c]] /\ state'[c] \in {"closed", "idle"}
      /\ \A d \in Conn \ {c} : state'[d] = state[d] /\ current'[d] = current[d]
  BY DEF Exit, RInv, IInv, TypeOK
<1>2. /\ current[c] \in Message /\ inbox[c] \in Seq(Message)
      /\ Pending(c) = <<current[c]>> \o inbox[c]
  BY DEF RInv, IInv, TypeOK, AtHand, Pending
<1>3. Pending(c) # <<>> /\ Head(Pending(c)) = current[c] /\ Tail(Pending(c)) = inbox[c]
  BY <1>2, PushFacts
<1>4. Pending(c)' = inbox[c]
  BY <1>1 DEF Pending
<1>5. \A d \in Conn \ {c} : Pending(d)' = Pending(d)
  BY <1>1 DEF Pending
<1>6. c \notin Ended
  BY DEF Ended
<1>7. Asked[c] # <<>> /\ Head(Asked[c]) = current[c]
  BY <1>3 DEF Asked
<1>8. Asked' = [Asked EXCEPT ![c] = Tail(@)]
  BY <1>3, <1>4, <1>5 DEF Asked
<1>9. Present' = Present /\ (Present[c] <=> client[c] = "open")
  BY DEF Present
<1>10. Ended' \in {Ended, Ended \cup {c}}
  BY <1>1 DEF Ended
<1>11. replied' = IF Present[c] /\ Head(Asked[c]).kind \in Service!Deserving
                  THEN [replied EXCEPT ![c] = Append(@, Head(Asked[c]).n)]
                  ELSE replied
  BY <1>7, <1>9 DEF Service!Deserving
<1>12. Service!Take(c)
  BY <1>6, <1>7, <1>8, <1>9, <1>10, <1>11
  DEF Service!Take, Asked, Present, Ended, Pending
<1> QED
  BY <1>12 DEF Service!Next

(* A client sends a message, or the rest of one. *)
LEMMA SendStep ==
  ASSUME RInv, NEW c \in Conn, NEW k \in Kinds, Send(c, k)
  PROVE  [Service!Next]_(Service!vars)
<1> DEFINE m == [kind |-> k, n |-> sent[c] + 1]
<1>1. /\ client[c] = "open"
      /\ inbox' = [inbox EXCEPT ![c] = Append(@, m)] /\ sent' = [sent EXCEPT ![c] = @ + 1]
      /\ UNCHANGED <<process, state, current, client, replied>>
  BY DEF Send
<1> HIDE DEF m
<1>2. inbox[c] \in Seq(Message) /\ inbox'[c] = Append(inbox[c], m)
  BY <1>1 DEF RInv, IInv, TypeOK
<1>3. Pending(c)' = Append(Pending(c), m)
  <2>1. CASE state[c] \in {"redo", "write"}
    <3>1. current[c] \in Message
      BY <2>1 DEF RInv, IInv, AtHand
    <3>2. <<current[c]>> \o Append(inbox[c], m) = Append(<<current[c]>> \o inbox[c], m)
      BY <1>2, <3>1, PushFacts
    <3> QED
      BY <1>1, <1>2, <2>1, <3>2 DEF Pending
  <2>2. CASE state[c] \notin {"redo", "write"}
    BY <1>1, <1>2, <2>2 DEF Pending
  <2> QED
    BY <2>1, <2>2
<1>4. \A d \in Conn \ {c} : Pending(d)' = Pending(d)
  BY <1>1 DEF Pending, RInv, IInv, TypeOK
<1>5. Asked' = [Asked EXCEPT ![c] = Append(@, m)]
  BY <1>3, <1>4 DEF Asked
<1>6. Present[c] /\ Present' = Present /\ Ended' = Ended
  BY <1>1 DEF Present, Ended
<1>7. \E j \in Kinds :
        Asked' = [Asked EXCEPT ![c] = Append(@, [kind |-> j, n |-> sent[c] + 1])]
  BY <1>5 DEF m
<1>8. Service!Ask(c)
  BY <1>1, <1>6, <1>7 DEF Service!Ask, Asked, Present, Ended, Pending
<1> QED
  BY <1>8 DEF Service!Next

LEMMA CompleteStep ==
  ASSUME RInv, NEW c \in Conn, Complete(c)
  PROVE  [Service!Next]_(Service!vars)
<1> DEFINE q == inbox[c]
           l == Len(q)
           m == [q[l] EXCEPT !.kind = "query"]
<1>1. /\ client[c] = "open" /\ q # <<>> /\ Last(q).kind \in Partial
      /\ inbox' = [inbox EXCEPT ![c] = [q EXCEPT ![l] = m]]
      /\ UNCHANGED <<process, state, current, client, sent, replied>>
  BY DEF Complete
<1>2. q \in Seq(Message) /\ inbox'[c] = [q EXCEPT ![l] = m]
  BY <1>1 DEF RInv, IInv, TypeOK
<1>3. l \in 1 .. Len(q) /\ q[l].kind \in {"split", "stalled"}
  BY <1>1, <1>2 DEF Last, Partial
<1>4. \A d \in Conn \ {c} : Pending(d)' = Pending(d)
  BY <1>1 DEF Pending, RInv, IInv, TypeOK
<1> DEFINE p == Pending(c)
<1>5. /\ p \in Seq(Message) /\ p # <<>> /\ p[Len(p)] = q[l]
      /\ Pending(c)' = [p EXCEPT ![Len(p)] = [p[Len(p)] EXCEPT !.kind = "query"]]
  <2>1. CASE state[c] \in {"redo", "write"}
    <3>1. current[c] \in Message
      BY <2>1 DEF RInv, IInv, AtHand
    <3>2. p = <<current[c]>> \o q /\ Pending(c)' = <<current[c]>> \o [q EXCEPT ![l] = m]
      BY <1>1, <1>2, <2>1 DEF Pending
    <3>3. /\ p \in Seq(Message) /\ p # <<>> /\ Len(p) = l + 1
          /\ \A i \in 1 .. l : p[i + 1] = q[i]
      BY <1>2, <3>1, <3>2, PushFacts
    <3>4. l \in 1 .. Len(q) /\ m = [q[l] EXCEPT !.kind = "query"]
      BY <1>3
    <3>5. <<current[c]>> \o [q EXCEPT ![l] = m] = [<<current[c]>> \o q EXCEPT ![l + 1] = m]
      <4> DEFINE k == current[c]
      <4>1. k \in Message /\ q \in Seq(Message) /\ q # <<>>
        BY <1>1, <1>2, <3>1
      <4> HIDE DEF k, q, l, m
      <4>2. <<k>> \o [q EXCEPT ![Len(q)] = m] = [<<k>> \o q EXCEPT ![Len(q) + 1] = m]
        BY <4>1, PushLastFacts
      <4> QED
        BY <4>2 DEF k, l
    <3> HIDE DEF p, q, l, m
    <3>6. Len(p) = l + 1 /\ p[l + 1] = q[l]
      BY <3>3, <3>4
    <3> QED
      BY <3>2, <3>3, <3>4, <3>5, <3>6
  <2>2. CASE state[c] \notin {"redo", "write"}
    <3>1. p = q /\ Pending(c)' = [q EXCEPT ![l] = m]
      BY <1>1, <1>2, <2>2 DEF Pending
    <3> QED
      BY <1>1, <1>2, <3>1
  <2> QED
    BY <2>1, <2>2
<1> HIDE DEF q, l
<1>6. Asked[c] # <<>> /\ Asked[c][Len(Asked[c])].kind \in {"split", "stalled"}
  BY <1>3, <1>5 DEF Asked
<1>7. Asked' = [Asked EXCEPT ![c][Len(Asked[c])].kind = "query"]
  BY <1>4, <1>5 DEF Asked
<1>8. Present[c] /\ Present' = Present /\ Ended' = Ended
  BY <1>1 DEF Present, Ended
<1>9. Service!AskRest(c)
  BY <1>1, <1>6, <1>7, <1>8 DEF Service!AskRest, Asked, Present, Ended, Pending
<1> QED
  BY <1>9 DEF Service!Next

(* Clients come and go. *)
LEMMA ComeStep ==
  ASSUME RInv, NEW c \in Conn, Connect(c) \/ Leave(c)
  PROVE  [Service!Next]_(Service!vars)
<1>1. Asked' = Asked /\ Ended' = Ended /\ UNCHANGED <<sent, replied>>
  BY DEF Connect, Leave, Asked, Pending, Ended
<1>2. CASE Connect(c)
  <2>1. ~Present[c] /\ sent[c] = 0 /\ Present' = [Present EXCEPT ![c] = TRUE]
    BY <1>2 DEF Connect, Present, RInv, IInv, TypeOK
  <2>2. Service!Come(c)
    BY <1>1, <2>1 DEF Service!Come, Asked, Present, Ended, Pending
  <2> QED
    BY <2>2 DEF Service!Next
<1>3. CASE Leave(c)
  <2>1. Present[c] /\ Present' = [Present EXCEPT ![c] = FALSE]
    BY <1>3 DEF Leave, Present, RInv, IInv, TypeOK
  <2>2. Service!Go(c)
    BY <1>1, <2>1 DEF Service!Go, Asked, Present, Ended, Pending
  <2> QED
    BY <2>2 DEF Service!Next
<1> QED
  BY <1>2, <1>3

LEMMA MappedStep == RInv /\ [Next]_vars => [Service!Next]_(Service!vars)
<1> SUFFICES ASSUME RInv, [Next]_vars PROVE [Service!Next]_(Service!vars)
  OBVIOUS
<1>0. IInv /\ TypeOK
  BY DEF RInv, IInv
<1>1. CASE Accept
  <2> DEFINE c == Head(backlog)
  <2>1. backlog \in Seq(Conn) /\ backlog # <<>>
    BY <1>0, <1>1 DEF TypeOK, Accept
  <2>2. c \in Conn /\ c = backlog[1] /\ 1 \in DOMAIN backlog
    BY <2>1
  <2>3. state[c] = "none"
    BY <1>0, <2>2 DEF IInv, OneFirstRead
  <2>4. /\ state' = [state EXCEPT ![c] = "first"]
        /\ UNCHANGED <<process, client, sent, replied, current, inbox>>
    BY <1>1 DEF Accept
  <2> HIDE DEF c
  <2>5. state'[c] = "first" /\ \A d \in Conn \ {c} : state'[d] = state[d]
    BY <1>0, <2>2, <2>4 DEF TypeOK
  <2>6. {c} \in SUBSET Conn
    BY <2>2
  <2> QED
    BY <2>3, <2>4, <2>5, <2>6, MoveStep
<1>2. CASE AcceptFails
  <2> DEFINE C == {c \in Conn : c \in ToSet(backlog)}
  <2>1. \A d \in C : state[d] = "none" /\ state'[d] = "closed"
    BY <1>0, <1>2 DEF AcceptFails, IInv, OneFirstRead, ToSet
  <2>2. \A d \in Conn \ C : state'[d] = state[d]
    BY <1>2 DEF AcceptFails
  <2>3. C \in SUBSET Conn /\ UNCHANGED <<process, client, sent, replied, current, inbox>>
    BY <1>2 DEF AcceptFails
  <2> HIDE DEF C
  <2> QED
    BY <2>1, <2>2, <2>3, MoveStep
<1>3. ASSUME NEW c \in Conn, ReadFirst(c) \/ ReadNext(c)
      PROVE  [Service!Next]_(Service!vars)
  BY <1>3, ReadStep DEF ReadFirst, ReadNext
<1>4. ASSUME NEW c \in Conn, GiveUpFirst(c) \/ CloseIdle(c) \/ Collect(c)
      PROVE  [Service!Next]_(Service!vars)
  <2>1. /\ state[c] \in {"first", "idle", "leaked"}
        /\ state'[c] \in {"closed", "leaked"}
        /\ state[c] = "leaked" => state'[c] = "closed"
        /\ \A d \in Conn \ {c} : state'[d] = state[d]
        /\ UNCHANGED <<process, client, sent, replied, current, inbox>>
    BY <1>0, <1>4 DEF GiveUpFirst, CloseIdle, Collect, TypeOK
  <2>2. {c} \in SUBSET Conn
    OBVIOUS
  <2> QED
    BY <2>1, <2>2, MoveStep
<1>5. ASSUME NEW c \in Conn, Handle(c) PROVE [Service!Next]_(Service!vars)
  <2>1. /\ state[c] = "redo" /\ state'[c] = "write"
        /\ \A d \in Conn \ {c} : state'[d] = state[d]
        /\ UNCHANGED <<process, client, sent, replied, current, inbox>>
    BY <1>0, <1>5 DEF Handle, TypeOK
  <2>2. \A d \in Conn : Pending(d)' = Pending(d)
    BY <2>1 DEF Pending
  <2>3. Ended \subseteq Ended'
    BY <2>1 DEF Ended
  <2> QED
    BY <2>1, <2>2, <2>3, EndStep
<1>6. ASSUME NEW c \in Conn, Ignore(c) \/ Write(c) PROVE [Service!Next]_(Service!vars)
  <2>1. /\ state[c] \in {"redo", "write"} /\ process = "up" /\ Exit(c)
        /\ UNCHANGED <<process, client, sent, inbox>>
    BY <1>6 DEF Ignore, Write
  <2>2. replied' = IF client[c] = "open" /\ current[c].kind \in {"query", "garbage"}
                   THEN [replied EXCEPT ![c] = Append(@, current[c].n)]
                   ELSE replied
    <3>1. CASE Ignore(c)
      BY <3>1 DEF Ignore
    <3>2. CASE Write(c)
      <4>1. current[c].kind \in {"query", "garbage"}
        BY <3>2 DEF Write, RInv
      <4>2. [replied EXCEPT ![c] = replied[c]] = replied
        BY <1>0 DEF TypeOK
      <4> QED
        BY <3>2, <4>1, <4>2 DEF Write
    <3> QED
      BY <1>6, <3>1, <3>2
  <2> QED
    BY <2>1, <2>2, TakeStep
<1>7. ASSUME NEW c \in Conn, HandlerPanics(c) PROVE [Service!Next]_(Service!vars)
  <2>1. process' = "dead" /\ UNCHANGED <<state, client, sent, replied, current, inbox>>
    BY <1>7 DEF HandlerPanics
  <2>2. (\A d \in Conn : Pending(d)' = Pending(d)) /\ Ended \subseteq Ended'
    BY <2>1 DEF Pending, Ended
  <2> QED
    BY <2>1, <2>2, EndStep
<1>8. ASSUME NEW c \in Conn, Environment(c) PROVE [Service!Next]_(Service!vars)
  <2>1. CASE ReadReply(c)
    <3>1. UNCHANGED <<process, state, client, sent, replied, current, inbox>>
      BY <2>1 DEF ReadReply
    <3>2. (\A d \in Conn : Pending(d)' = Pending(d)) /\ Ended \subseteq Ended'
      BY <3>1 DEF Pending, Ended
    <3> QED
      BY <3>1, <3>2, EndStep
  <2> QED
    BY <1>8, <2>1, ComeStep, CompleteStep, SendStep DEF Environment
<1>9. CASE UNCHANGED vars
  <2>1. UNCHANGED <<process, state, client, sent, replied, current, inbox>>
    BY <1>9 DEF vars
  <2>2. (\A d \in Conn : Pending(d)' = Pending(d)) /\ Ended \subseteq Ended'
    BY <2>1 DEF Pending, Ended
  <2> QED
    BY <2>1, <2>2, EndStep
<1> QED
  BY <1>1, <1>2, <1>3, <1>4, <1>5, <1>6, <1>7, <1>8, <1>9
  DEF Next, AcceptLoop, FirstRefused, FirstEnded, FirstTimeout,
      Serve, NextRefused, NextEnded, NextTimeout

LEMMA MappedInit == Init => RInv /\ Service!Init
<1> SUFFICES ASSUME Init PROVE RInv /\ Service!Init
  OBVIOUS
<1>1. RInv
  BY InitInvariant DEF Init, RInv
<1>2. Service!Init
  BY DEF Init, Service!Init
<1> QED
  BY <1>1, <1>2

(* The accept loop and the goroutines of serveTCP keep the promise of      *)
(* TcpService to every client: its messages are taken in order, each that  *)
(* deserves a reply gets one while the client is there, none after the end. *)
THEOREM ImplementsService == Spec => ServesInOrder
  BY MappedInit, MappedInvariant, MappedStep, PTL DEF Spec, ServesInOrder, Service!Spec
=============================================================================
