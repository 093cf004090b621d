----------------------------- MODULE GyipProof -----------------------------
(***************************************************************************)
(* Proofs about the process, for any options, addresses, host names and    *)
(* order in which servers start and signals arrive.                        *)
(***************************************************************************)
EXTENDS Gyip, TLAPS

Early == {"flags", "hosts", "domains", "check", "register"}

Left(x) == \E j \in DOMAIN todo : todo[j] = x

(* splitHosts: what is in hosts was asked for, and while hosts is empty     *)
(* what was seen is unusable.                                               *)
Asked == \E i \in DOMAIN options.host : AsksEverywhere(options.host[i])

AllUnusable == \A i \in DOMAIN options.host : Unusable(options.host[i])

AnyListed == \E i \in DOMAIN options.host : options.host[i] = "0.0.0.0"

HostLoop ==
  /\ todo \in Seq(Text)
  /\ \A i \in DOMAIN todo : \E k \in DOMAIN options.host : options.host[k] = todo[i]
  /\ \A k \in DOMAIN hosts : hosts[k] \in Everywhere => Asked
  /\ hosts = <<>> =>
       \A i \in DOMAIN options.host : Unusable(options.host[i]) \/ Left(options.host[i])
  /\ AnyListed => (hosts = <<"0.0.0.0">> /\ todo = <<>>) \/ Left("0.0.0.0")

HostsDecided ==
  /\ \A k \in DOMAIN hosts : hosts[k] \in Everywhere => Asked \/ AllUnusable
  /\ AnyListed => Len(hosts) = 1

(* splitDomains and the registration lose no valid domain. *)
DomainLoop ==
  /\ todo \in Seq(Text)
  /\ \A i \in DOMAIN options.domain : options.domain[i] \in Valid =>
       Left(options.domain[i]) \/ \E k \in DOMAIN domains : domains[k] = options.domain[i]

DomainsDecided ==
  \A i \in DOMAIN options.domain : options.domain[i] \in Valid =>
    \E k \in DOMAIN domains : domains[k] = options.domain[i]

RegisterLoop ==
  /\ todo \in Seq(Valid)
  /\ \A i \in DOMAIN options.domain : options.domain[i] \in Valid =>
       Left(options.domain[i]) \/ options.domain[i] \in mux

Registered ==
  /\ \A i \in DOMAIN options.domain : options.domain[i] \in Valid => options.domain[i] \in mux
  /\ "." \in mux

(* The servers launched are those of the hosts that are done. *)
LaunchLoop ==
  /\ todo \in Seq(Address) /\ Len(todo) <= Len(hosts)
  /\ \A s \in DOMAIN server : s[1] <= Len(hosts) - Len(todo)

MainInv ==
  /\ pc \in Early => DOMAIN server = {}
  /\ pc = "flags" => hosts = <<>> /\ domains = <<>>
  /\ pc = "hosts" => HostLoop /\ domains = <<>>
  /\ pc \notin {"flags", "hosts"} => HostsDecided
  /\ pc = "domains" => DomainLoop
  /\ pc = "check" => DomainsDecided
  /\ pc = "register" => RegisterLoop
  /\ pc \notin Early => Registered
  /\ pc = "launch" => LaunchLoop

(* A server is refused because of the port, the address, or a rival that    *)
(* keeps its socket.                                                        *)
Reasons ==
  \A s \in DOMAIN server : server[s] = "refused" =>
    \/ ~options.portOk \/ hosts[s[1]] \notin Local
    \/ \E t \in DOMAIN server : /\ t[2] = s[2]
                                /\ server[t] \in {"serving", "optionless"}
                                /\ Clash(hosts[t[1]], hosts[s[1]])

IInv == TypeOK /\ MainInv /\ Reasons

-----------------------------------------------------------------------------
(* What the head of a list and its tail hold. *)
LEMMA Parts ==
  ASSUME NEW S, NEW q \in Seq(S), q # <<>>
  PROVE  /\ Head(q) \in S /\ Tail(q) \in Seq(S)
         /\ Len(Tail(q)) = Len(q) - 1 /\ Len(q) \in Nat /\ Len(q) >= 1
         /\ 1 \in DOMAIN q /\ q[1] = Head(q)
         /\ \A i \in DOMAIN q : q[i] = Head(q) \/ \E j \in DOMAIN Tail(q) : Tail(q)[j] = q[i]
         /\ \A j \in DOMAIN Tail(q) : \E i \in DOMAIN q : q[i] = Tail(q)[j]
<1>1. /\ Head(q) \in S /\ Tail(q) \in Seq(S) /\ Len(Tail(q)) = Len(q) - 1
      /\ Len(q) \in Nat /\ Len(q) >= 1 /\ q[1] = Head(q) /\ DOMAIN q = 1 .. Len(q)
      /\ DOMAIN Tail(q) = 1 .. Len(q) - 1
      /\ \A j \in 1 .. Len(q) - 1 : Tail(q)[j] = q[j + 1]
  OBVIOUS
<1>2. ASSUME NEW i \in DOMAIN q
      PROVE  q[i] = Head(q) \/ \E j \in DOMAIN Tail(q) : Tail(q)[j] = q[i]
  <2>1. CASE i = 1
    BY <1>1, <2>1
  <2>2. CASE i # 1
    <3>1. i - 1 \in DOMAIN Tail(q) /\ Tail(q)[i - 1] = q[i]
      BY <1>1, <2>2
    <3> QED
      BY <3>1
  <2> QED
    BY <2>1, <2>2
<1>3. ASSUME NEW j \in DOMAIN Tail(q)
      PROVE  \E i \in DOMAIN q : q[i] = Tail(q)[j]
  <2>1. j + 1 \in DOMAIN q /\ q[j + 1] = Tail(q)[j]
    BY <1>1
  <2> QED
    BY <2>1
<1> QED
  BY <1>1, <1>2, <1>3

(* What a list joined to another one holds. *)
LEMMA Joined ==
  ASSUME NEW q \in Seq(Address), NEW r \in Seq(Address)
  PROVE  /\ q \o r \in Seq(Address)
         /\ q \o r = <<>> => q = <<>> /\ r = <<>>
         /\ \A k \in DOMAIN (q \o r) :
              \/ \E i \in DOMAIN q : q[i] = (q \o r)[k]
              \/ \E i \in DOMAIN r : r[i] = (q \o r)[k]
<1>1. /\ q \o r \in Seq(Address) /\ Len(q \o r) = Len(q) + Len(r)
      /\ Len(q) \in Nat /\ Len(r) \in Nat
      /\ DOMAIN (q \o r) = 1 .. Len(q) + Len(r)
      /\ \A k \in 1 .. Len(q) + Len(r) : (q \o r)[k] = IF k <= Len(q) THEN q[k] ELSE r[k - Len(q)]
      /\ DOMAIN q = 1 .. Len(q) /\ DOMAIN r = 1 .. Len(r)
  OBVIOUS
<1>2. ASSUME NEW k \in DOMAIN (q \o r)
      PROVE  \/ \E i \in DOMAIN q : q[i] = (q \o r)[k]
             \/ \E i \in DOMAIN r : r[i] = (q \o r)[k]
  <2>1. CASE k <= Len(q)
    BY <1>1, <2>1
  <2>2. CASE ~(k <= Len(q))
    <3>1. k - Len(q) \in DOMAIN r /\ r[k - Len(q)] = (q \o r)[k]
      BY <1>1, <2>2
    <3> QED
      BY <3>1
  <2> QED
    BY <2>1, <2>2
<1>3. q \o r = <<>> => q = <<>> /\ r = <<>>
  OBVIOUS
<1> QED
  BY <1>1, <1>2, <1>3

(* What a list with one more entry holds. *)
LEMMA Appended ==
  ASSUME NEW q \in Seq(Valid), NEW e \in Valid
  PROVE  /\ Append(q, e) \in Seq(Valid)
         /\ \E k \in DOMAIN Append(q, e) : Append(q, e)[k] = e
         /\ \A i \in DOMAIN q : \E k \in DOMAIN Append(q, e) : Append(q, e)[k] = q[i]
<1>1. /\ Append(q, e) \in Seq(Valid) /\ DOMAIN Append(q, e) = 1 .. Len(q) + 1
      /\ Append(q, e)[Len(q) + 1] = e /\ Len(q) \in Nat /\ DOMAIN q = 1 .. Len(q)
      /\ \A i \in 1 .. Len(q) : Append(q, e)[i] = q[i]
  OBVIOUS
<1>2. Len(q) + 1 \in DOMAIN Append(q, e)
  BY <1>1
<1>3. \A i \in DOMAIN q : i \in DOMAIN Append(q, e)
  BY <1>1
<1> QED
  BY <1>1, <1>2, <1>3

LEMMA OptionLists ==
  ASSUME TypeOK
  PROVE  options.host \in Seq(Text) /\ options.domain \in Seq(Text)
  BY GyipAssumption DEF TypeOK

-----------------------------------------------------------------------------
LEMMA Initially == Init => IInv
<1> SUFFICES ASSUME Init PROVE IInv
  OBVIOUS
<1>1. /\ pc = "flags" /\ hosts = <<>> /\ domains = <<>> /\ mux = {} /\ request = Idle
      /\ process = "up" /\ DOMAIN server = {}
  BY DEF Init
<1>2. server \in [DOMAIN server -> Statuses]
  BY DEF Init
<1>3. TypeOK
  BY <1>1, <1>2 DEF TypeOK, Init, Places
<1>4. MainInv
  BY <1>1 DEF MainInv, Early
<1>5. Reasons
  BY <1>1 DEF Reasons
<1> QED
  BY <1>3, <1>4, <1>5 DEF IInv

(* Where main stands still and no list changes, only the servers count. *)
LEMMA Ends ==
  ASSUME IInv, UNCHANGED <<options, signal, pc, todo, hosts, domains, mux, server, request>>,
         process' \in {"up", "exited", "signalled", "stopped", "crashed"}
  PROVE  IInv'
<1>1. TypeOK'
  BY DEF IInv, TypeOK
<1>2. MainInv'
  BY DEF IInv, MainInv, HostLoop, HostsDecided, DomainLoop, DomainsDecided, RegisterLoop,
         LaunchLoop, Registered, Left, Asked, AllUnusable, AnyListed
<1>3. Reasons'
  BY DEF IInv, Reasons
<1> QED
  BY <1>1, <1>2, <1>3 DEF IInv

LEMMA ExitKeeps ==
  ASSUME IInv, NoDomain \/ NothingToServe \/ Stop \/ HandlerPanics
  PROVE  IInv'
  BY Ends DEF NoDomain, NothingToServe, Exit, Stop, HandlerPanics, list

-----------------------------------------------------------------------------
(* While main works on its lists the servers, if any, are left alone. *)
LEMMA MainFrame ==
  ASSUME IInv, UNCHANGED <<options, signal, server, request, process>>,
         hosts' \in Seq(Address), hosts' = hosts \/ DOMAIN server = {},
         pc' \in Places, domains' \in Seq(Valid), mux' \subseteq Valid \cup {"."}
  PROVE  TypeOK' /\ Reasons'
<1>1. TypeOK'
  BY DEF IInv, TypeOK
<1>2. Reasons'
  BY DEF IInv, Reasons
<1> QED
  BY <1>1, <1>2

(* main reads --domain, and turns to --host. *)
LEMMA FlagsKeeps ==
  ASSUME IInv, Flags
  PROVE  IInv'
<1>1. /\ UNCHANGED <<options, signal, hosts, domains, mux, server, request, process>>
      /\ pc = "flags" /\ pc' = "hosts" /\ todo' = options.host
      /\ hosts = <<>> /\ domains = <<>> /\ DOMAIN server = {}
  BY DEF Flags, At, list, IInv, MainInv, Early
<1>2. options.host \in Seq(Text) /\ DOMAIN options.host = 1 .. Len(options.host)
  BY OptionLists DEF IInv
<1>3. HostLoop'
  <2>1. \A i \in DOMAIN options.host : Left(options.host[i])'
    BY <1>1 DEF Left
  <2>2. AnyListed => Left("0.0.0.0")'
    BY <1>1 DEF Left, AnyListed
  <2> QED
    BY <1>1, <1>2, <2>1, <2>2 DEF HostLoop, AnyListed
<1>4. TypeOK' /\ Reasons'
  BY <1>1, MainFrame DEF IInv, TypeOK, Places
<1>5. MainInv'
  BY <1>1, <1>3 DEF MainInv, Early
<1> QED
  BY <1>4, <1>5 DEF IInv

(* One entry of --host: what it adds is a usable address it stands for. *)
LEMMA HostEntry ==
  ASSUME IInv, At("hosts"), todo # <<>>,
         NEW found \in Seq(Address), NextHost(found),
         \A k \in DOMAIN found : found[k] \in Everywhere => AsksEverywhere(Head(todo)),
         found = <<>> => Unusable(Head(todo)),
         Head(todo) # "0.0.0.0"
  PROVE  IInv'
<1>1. /\ UNCHANGED <<options, signal, pc, domains, mux, server, request, process>>
      /\ pc = "hosts" /\ todo' = Tail(todo) /\ hosts' = hosts \o found
      /\ HostLoop /\ DOMAIN server = {} /\ domains = <<>>
      /\ hosts \in Seq(Address)
  BY DEF At, NextHost, IInv, MainInv, Early, TypeOK
<1>2. /\ todo' \in Seq(Text) /\ 1 \in DOMAIN todo /\ todo[1] = Head(todo)
      /\ \A i \in DOMAIN todo : todo[i] = Head(todo) \/ \E j \in DOMAIN todo' : todo'[j] = todo[i]
      /\ \A j \in DOMAIN todo' : \E i \in DOMAIN todo : todo[i] = todo'[j]
  BY <1>1, Parts DEF HostLoop
<1>3. /\ hosts' \in Seq(Address)
      /\ hosts' = <<>> => hosts = <<>> /\ found = <<>>
      /\ \A k \in DOMAIN hosts' : \/ \E i \in DOMAIN hosts : hosts[i] = hosts'[k]
                               \/ \E i \in DOMAIN found : found[i] = hosts'[k]
  <2>1. hosts \in Seq(Address) /\ found \in Seq(Address)
    BY <1>1
  <2>2. /\ hosts \o found \in Seq(Address)
        /\ hosts \o found = <<>> => hosts = <<>> /\ found = <<>>
        /\ \A k \in DOMAIN (hosts \o found) :
             \/ \E i \in DOMAIN hosts : hosts[i] = (hosts \o found)[k]
             \/ \E i \in DOMAIN found : found[i] = (hosts \o found)[k]
    BY <2>1, Joined
  <2> QED
    BY <1>1, <2>2, Zenon
<1>4. \E k \in DOMAIN options.host : options.host[k] = Head(todo)
  BY <1>1, <1>2 DEF HostLoop
<1>5. AsksEverywhere(Head(todo)) => Asked
  BY <1>4 DEF Asked
<1>6. \A x : Left(x) => x = Head(todo) \/ Left(x)'
  BY <1>2 DEF Left
<1>7. UNCHANGED <<Asked, AnyListed>>
  BY <1>1 DEF Asked, AnyListed
<1>8. HostLoop'
  <2>1. \A i \in DOMAIN todo' : \E k \in DOMAIN options'.host : options'.host[k] = todo'[i]
    BY <1>1, <1>2 DEF HostLoop
  <2>2. \A k \in DOMAIN hosts' : hosts'[k] \in Everywhere => Asked
    BY <1>1, <1>3, <1>5 DEF HostLoop
  <2>3. ASSUME hosts' = <<>>, NEW i \in DOMAIN options.host
        PROVE  Unusable(options.host[i]) \/ Left(options.host[i])'
    <3>1. hosts = <<>> /\ Unusable(Head(todo))
      BY <1>3, <2>3
    <3>2. Unusable(options.host[i]) \/ Left(options.host[i])
      BY <1>1, <3>1 DEF HostLoop
    <3> QED
      BY <1>1, <1>6, <3>1, <3>2 DEF Left
  <2>4. AnyListed => Left("0.0.0.0")'
    BY <1>1, <1>6 DEF HostLoop
  <2> QED
    BY <1>1, <1>2, <1>7, <2>1, <2>2, <2>3, <2>4 DEF HostLoop
<1>9. TypeOK' /\ Reasons'
  BY <1>1, <1>3, MainFrame DEF IInv, TypeOK
<1>10. MainInv'
  BY <1>1, <1>8 DEF MainInv, Early
<1> QED
  BY <1>9, <1>10 DEF IInv

LEMMA HostStepKeeps ==
  ASSUME IInv, HostAddress \/ HostName \/ HostDropped
  PROVE  IInv'
<1>1. CASE HostAddress
  <2>1. <<Head(todo)>> \in Seq(Address) /\ Head(todo) # "0.0.0.0" /\ <<Head(todo)>> # <<>>
    BY <1>1 DEF HostAddress
  <2>2. \A k \in DOMAIN <<Head(todo)>> : <<Head(todo)>>[k] = Head(todo)
    OBVIOUS
  <2> QED
    BY <1>1, <2>1, <2>2, HostEntry DEF HostAddress, AsksEverywhere
<1>2. CASE HostName
  <2>1. PICK found \in Answers[Head(todo)] : NextHost(found)
    BY <1>2 DEF HostName
  <2>2. Head(todo) \in Name /\ found \in Seq(Address) /\ Head(todo) \notin Address
    BY <1>2, GyipAssumption DEF HostName
  <2>3. Head(todo) # "0.0.0.0"
    BY <2>2, GyipAssumption DEF Everywhere
  <2>4. \A k \in DOMAIN found : found[k] \in Everywhere => AsksEverywhere(Head(todo))
    BY <2>2 DEF AsksEverywhere
  <2>5. found = <<>> => Unusable(Head(todo))
    BY <2>2 DEF Unusable
  <2> QED
    BY <1>2, <2>1, <2>2, <2>3, <2>4, <2>5, HostEntry DEF HostName
<1>3. CASE HostDropped
  <2>1. <<>> \in Seq(Address) /\ DOMAIN <<>> = {}
    OBVIOUS
  <2>2. Unusable(Head(todo)) /\ Head(todo) # "0.0.0.0"
    BY <1>3, GyipAssumption DEF HostDropped, Unusable, Everywhere
  <2> QED
    BY <1>3, <2>1, <2>2, HostEntry DEF HostDropped
<1> QED
  BY <1>1, <1>2, <1>3

LEMMA HostAnyKeeps ==
  ASSUME IInv, HostAny
  PROVE  IInv'
<1>1. /\ UNCHANGED <<options, signal, pc, domains, mux, server, request, process>>
      /\ pc = "hosts" /\ todo # <<>> /\ Head(todo) = "0.0.0.0"
      /\ todo' = <<>> /\ hosts' = <<"0.0.0.0">>
      /\ HostLoop /\ DOMAIN server = {} /\ domains = <<>>
  BY DEF HostAny, At, IInv, MainInv, Early
<1>2. \E k \in DOMAIN options.host : options.host[k] = "0.0.0.0"
  <2>1. 1 \in DOMAIN todo /\ todo[1] = Head(todo)
    BY <1>1, Parts DEF HostLoop
  <2> QED
    BY <1>1, <2>1 DEF HostLoop
<1>3. Asked
  BY <1>2 DEF Asked, AsksEverywhere, Everywhere
<1>4. "0.0.0.0" \in Address
  BY GyipAssumption DEF Everywhere
<1>5. hosts' \in Seq(Address) /\ hosts' # <<>>
  BY <1>1, <1>4
<1>6. HostLoop'
  <2>1. todo' \in Seq(Text) /\ DOMAIN todo' = {}
    BY <1>1
  <2>2. Asked'
    BY <1>1, <1>3 DEF Asked
  <2> QED
    BY <1>1, <1>5, <2>1, <2>2 DEF HostLoop
<1>7. TypeOK' /\ Reasons'
  BY <1>1, <1>5, MainFrame DEF IInv, TypeOK
<1>8. MainInv'
  BY <1>1, <1>6 DEF MainInv, Early
<1> QED
  BY <1>7, <1>8 DEF IInv

(* The end of splitHosts: without a usable entry everything is listened on. *)
LEMMA HostsDoneKeeps ==
  ASSUME IInv, HostsDone
  PROVE  IInv'
<1>1. /\ UNCHANGED <<options, signal, domains, mux, server, request, process>>
      /\ pc = "hosts" /\ pc' = "domains" /\ todo = <<>> /\ todo' = options.domain
      /\ hosts' = IF hosts = <<>> THEN <<"0.0.0.0">> ELSE hosts
      /\ HostLoop /\ DOMAIN server = {} /\ domains = <<>>
      /\ hosts \in Seq(Address)
  BY DEF HostsDone, At, IInv, MainInv, Early, TypeOK
<1>2. \A x : ~Left(x)
  BY <1>1 DEF Left
<1>3. hosts = <<>> => AllUnusable
  BY <1>1, <1>2 DEF HostLoop, AllUnusable
<1>4. AnyListed => hosts' = <<"0.0.0.0">>
  BY <1>1, <1>2 DEF HostLoop
<1>5. HostsDecided'
  <2>1. UNCHANGED <<Asked, AllUnusable, AnyListed>>
    BY <1>1 DEF Asked, AllUnusable, AnyListed
  <2>2. \A k \in DOMAIN hosts' : hosts'[k] \in Everywhere => Asked \/ AllUnusable
    BY <1>1, <1>3 DEF HostLoop
  <2>3. AnyListed => Len(hosts') = 1
    BY <1>4
  <2> QED
    BY <2>1, <2>2, <2>3 DEF HostsDecided
<1>6. "0.0.0.0" \in Address
  BY GyipAssumption DEF Everywhere
<1>7. hosts' \in Seq(Address)
  BY <1>1, <1>6
<1>8. DomainLoop'
  <2>1. \A i \in DOMAIN options.domain : Left(options.domain[i])'
    BY <1>1 DEF Left
  <2> QED
    BY <1>1, <2>1, OptionLists DEF DomainLoop, IInv
<1>9. TypeOK' /\ Reasons'
  BY <1>1, <1>7, MainFrame DEF IInv, TypeOK, Places
<1>10. MainInv'
  BY <1>1, <1>5, <1>8 DEF MainInv, Early
<1> QED
  BY <1>9, <1>10 DEF IInv

-----------------------------------------------------------------------------
(* splitDomains: a valid domain is left or kept. *)
LEMMA DomainKeeps ==
  ASSUME IInv, DomainKept \/ DomainDropped
  PROVE  IInv'
<1>1. /\ UNCHANGED <<options, signal, pc, hosts, mux, server, request, process>>
      /\ pc = "domains" /\ todo # <<>> /\ todo' = Tail(todo)
      /\ DomainLoop /\ DOMAIN server = {} /\ HostsDecided
      /\ domains \in Seq(Valid)
      /\ \/ Head(todo) \in Valid /\ domains' = Append(domains, Head(todo))
         \/ Head(todo) \notin Valid /\ domains' = domains
  BY DEF DomainKept, DomainDropped, At, list, IInv, MainInv, Early, TypeOK
<1>2. /\ todo' \in Seq(Text)
      /\ \A i \in DOMAIN todo : todo[i] = Head(todo) \/ \E j \in DOMAIN todo' : todo'[j] = todo[i]
  BY <1>1, Parts DEF DomainLoop
<1>3. /\ domains' \in Seq(Valid)
      /\ Head(todo) \in Valid => \E k \in DOMAIN domains' : domains'[k] = Head(todo)
      /\ \A i \in DOMAIN domains : \E k \in DOMAIN domains' : domains'[k] = domains[i]
  <2>1. CASE Head(todo) \in Valid
    <3>1. domains \in Seq(Valid)
      BY <1>1
    <3>2. /\ Append(domains, Head(todo)) \in Seq(Valid)
          /\ \E k \in DOMAIN Append(domains, Head(todo)) :
               Append(domains, Head(todo))[k] = Head(todo)
          /\ \A i \in DOMAIN domains : \E k \in DOMAIN Append(domains, Head(todo)) :
               Append(domains, Head(todo))[k] = domains[i]
      BY <2>1, <3>1, Appended
    <3>3. domains' = Append(domains, Head(todo))
      BY <1>1, <2>1
    <3> QED
      BY <3>2, <3>3, Zenon
  <2>2. CASE Head(todo) \notin Valid
    BY <1>1, <2>2
  <2> QED
    BY <2>1, <2>2
<1>4. DomainLoop'
  <2>1. ASSUME NEW i \in DOMAIN options.domain, options.domain[i] \in Valid
        PROVE  \/ \E j \in DOMAIN todo' : todo'[j] = options.domain[i]
               \/ \E k \in DOMAIN domains' : domains'[k] = options.domain[i]
    <3>1. CASE \E k \in DOMAIN domains : domains[k] = options.domain[i]
      BY <1>3, <3>1
    <3>2. CASE Left(options.domain[i])
      BY <1>2, <1>3, <2>1, <3>2 DEF Left
    <3> QED
      BY <1>1, <2>1, <3>1, <3>2 DEF DomainLoop
  <2> QED
    BY <1>1, <1>2, <2>1 DEF DomainLoop, Left
<1>5. TypeOK' /\ Reasons'
  BY <1>1, <1>3, MainFrame DEF IInv, TypeOK
<1>6. HostsDecided'
  BY <1>1 DEF HostsDecided, Asked, AllUnusable, AnyListed
<1>7. MainInv'
  BY <1>1, <1>4, <1>6 DEF MainInv, Early
<1> QED
  BY <1>5, <1>7 DEF IInv

(* From list to list: what main hands to its next loop. *)
LEMMA DomainsDoneKeeps ==
  ASSUME IInv, DomainsDone
  PROVE  IInv'
<1>1. /\ UNCHANGED <<options, signal, todo, hosts, domains, mux, server, request, process>>
      /\ pc = "domains" /\ pc' = "check" /\ todo = <<>>
      /\ DomainLoop /\ DOMAIN server = {} /\ HostsDecided
  BY DEF DomainsDone, At, list, IInv, MainInv, Early
<1>2. DomainsDecided'
  BY <1>1 DEF DomainLoop, DomainsDecided, Left
<1>3. HostsDecided'
  BY <1>1 DEF HostsDecided, Asked, AllUnusable, AnyListed
<1>4. TypeOK' /\ Reasons'
  BY <1>1, MainFrame DEF IInv, TypeOK, Places
<1>5. MainInv'
  BY <1>1, <1>2, <1>3 DEF MainInv, Early
<1> QED
  BY <1>4, <1>5 DEF IInv

LEMMA CheckKeeps ==
  ASSUME IInv, Check
  PROVE  IInv'
<1>1. /\ UNCHANGED <<options, signal, hosts, domains, mux, server, request, process>>
      /\ pc = "check" /\ pc' = "register" /\ todo' = domains
      /\ DomainsDecided /\ DOMAIN server = {} /\ HostsDecided
      /\ domains \in Seq(Valid)
  BY DEF Check, At, list, IInv, MainInv, Early, TypeOK
<1>2. RegisterLoop'
  BY <1>1 DEF DomainsDecided, RegisterLoop, Left
<1>3. HostsDecided'
  BY <1>1 DEF HostsDecided, Asked, AllUnusable, AnyListed
<1>4. TypeOK' /\ Reasons'
  BY <1>1, MainFrame DEF IInv, TypeOK, Places
<1>5. MainInv'
  BY <1>1, <1>2, <1>3 DEF MainInv, Early
<1> QED
  BY <1>4, <1>5 DEF IInv

LEMMA RegisterKeeps ==
  ASSUME IInv, Register
  PROVE  IInv'
<1>1. /\ UNCHANGED <<options, signal, pc, hosts, domains, server, request, process>>
      /\ pc = "register" /\ todo # <<>> /\ todo' = Tail(todo)
      /\ mux' = mux \cup {Head(todo)}
      /\ RegisterLoop /\ DOMAIN server = {} /\ HostsDecided
      /\ mux \subseteq Valid \cup {"."}
  BY DEF Register, At, list, IInv, MainInv, Early, TypeOK
<1>2. /\ todo' \in Seq(Valid) /\ Head(todo) \in Valid
      /\ \A i \in DOMAIN todo : todo[i] = Head(todo) \/ \E j \in DOMAIN todo' : todo'[j] = todo[i]
  BY <1>1, Parts DEF RegisterLoop
<1>3. RegisterLoop'
  <2>1. ASSUME NEW i \in DOMAIN options.domain, options.domain[i] \in Valid
        PROVE  \/ \E j \in DOMAIN todo' : todo'[j] = options.domain[i]
               \/ options.domain[i] \in mux'
    <3>1. CASE options.domain[i] \in mux
      BY <1>1, <3>1
    <3>2. CASE Left(options.domain[i])
      BY <1>1, <1>2, <3>2 DEF Left
    <3> QED
      BY <1>1, <2>1, <3>1, <3>2 DEF RegisterLoop
  <2> QED
    BY <1>1, <1>2, <2>1 DEF RegisterLoop, Left
<1>4. TypeOK' /\ Reasons'
  BY <1>1, <1>2, MainFrame DEF IInv, TypeOK
<1>5. HostsDecided'
  BY <1>1 DEF HostsDecided, Asked, AllUnusable, AnyListed
<1>6. MainInv'
  BY <1>1, <1>3, <1>5 DEF MainInv, Early
<1> QED
  BY <1>4, <1>6 DEF IInv

LEMMA RegisterRootKeeps ==
  ASSUME IInv, RegisterRoot
  PROVE  IInv'
<1>1. /\ UNCHANGED <<options, signal, hosts, domains, server, request, process>>
      /\ pc = "register" /\ pc' = "launch" /\ todo = <<>> /\ todo' = hosts
      /\ mux' = mux \cup {"."}
      /\ RegisterLoop /\ DOMAIN server = {} /\ HostsDecided
      /\ mux \subseteq Valid \cup {"."} /\ hosts \in Seq(Address)
  BY DEF RegisterRoot, At, list, IInv, MainInv, Early, TypeOK
<1>2. Registered'
  BY <1>1 DEF RegisterLoop, Registered, Left
<1>3. HostsDecided'
  BY <1>1 DEF HostsDecided, Asked, AllUnusable, AnyListed
<1>4. TypeOK' /\ Reasons'
  BY <1>1, MainFrame DEF IInv, TypeOK, Places
<1>5. LaunchLoop'
  BY <1>1 DEF LaunchLoop
<1>6. MainInv'
  BY <1>1, <1>2, <1>3, <1>5 DEF MainInv, Early
<1> QED
  BY <1>4, <1>6 DEF IInv

(* Main after its loops, and the signals that are sent to it. *)
LEMMA LateKeeps ==
  ASSUME IInv, Launched \/ Notify \/ Wait \/ Interrupt \/ Signalled
  PROVE  IInv'
<1>1. /\ UNCHANGED <<options, todo, hosts, domains, mux, server, request>>
      /\ process = "up" /\ process' \in {"up", "signalled"}
      /\ signal' \in {"none", "sent"}
      /\ \/ pc' = pc
         \/ pc \notin Early /\ pc' \in {"notify", "notified", "wait", "stopping"}
  BY DEF Launched, Notify, Wait, Interrupt, Signalled, Kill, Drop, Receive, At, list, Early,
         IInv, TypeOK
<1>2. TypeOK' /\ Reasons'
  BY <1>1 DEF IInv, TypeOK, Reasons, Places
<1>3. MainInv'
  <2>1. CASE pc' = pc
    BY <1>1, <2>1 DEF IInv, MainInv, HostLoop, HostsDecided, DomainLoop, DomainsDecided,
                      RegisterLoop, LaunchLoop, Registered, Left, Asked, AllUnusable,
                      AnyListed
  <2>2. CASE pc \notin Early /\ pc' \in {"notify", "notified", "wait", "stopping"}
    BY <1>1, <2>2 DEF IInv, MainInv, Early, HostsDecided, Registered, Asked, AllUnusable,
                      AnyListed
  <2> QED
    BY <1>1, <2>1, <2>2
<1> QED
  BY <1>2, <1>3 DEF IInv

-----------------------------------------------------------------------------
(* What the steps of the servers leave alone. *)
LEMMA ServersFrame ==
  ASSUME IInv, pc \notin Early, UNCHANGED <<options, signal, pc, hosts, domains, mux>>,
         pc = "launch" => LaunchLoop'
  PROVE  MainInv'
  BY DEF IInv, MainInv, Early, HostsDecided, Registered, Asked, AllUnusable, AnyListed

(* The goroutines of one host are launched. *)
LEMMA LaunchKeeps ==
  ASSUME IInv, Launch
  PROVE  IInv'
<1> DEFINE new == Len(hosts) - Len(todo) + 1
           started == {s \in {new} \X Proto : On(s[2])}
<1>1. /\ UNCHANGED <<options, signal, pc, hosts, domains, mux, request, process>>
      /\ pc = "launch" /\ todo # <<>> /\ todo' = Tail(todo)
      /\ server' = [s \in DOMAIN server \cup started |->
                      IF s \in started THEN "starting" ELSE server[s]]
      /\ todo \in Seq(Address) /\ Len(todo) <= Len(hosts) /\ hosts \in Seq(Address)
      /\ \A s \in DOMAIN server : s[1] <= Len(hosts) - Len(todo)
      /\ DOMAIN server \subseteq (1 .. Len(hosts)) \X Proto
  BY DEF Launch, At, list, IInv, MainInv, LaunchLoop, TypeOK
<1>2. /\ todo' \in Seq(Address) /\ Len(todo') = Len(todo) - 1
      /\ Len(todo) \in Nat /\ Len(todo) >= 1
  BY <1>1, Parts
<1>3. new \in 1 .. Len(hosts)
  <2>1. Len(hosts) \in Nat
    BY <1>1
  <2> QED
    BY <1>1, <1>2, <2>1
<1>4. started \subseteq (1 .. Len(hosts)) \X Proto
  BY <1>3
<1>10. \A s \in started : s[1] = new
  OBVIOUS
<1>11. \A s \in DOMAIN server : s[1] \in 1 .. Len(hosts)
  BY <1>1
<1>12. \A s \in DOMAIN server : s \notin started
  <2>1. Len(hosts) \in Nat
    BY <1>1
  <2> QED
    BY <1>1, <1>2, <1>10, <1>11, <2>1
<1>13. new = Len(hosts') - Len(todo')
  BY <1>1, <1>2
<1> HIDE DEF started, new
<1>5. DOMAIN server' = DOMAIN server \cup started
  BY <1>1
<1>6. \A s \in DOMAIN server' : server'[s] = "starting" \/ (s \in DOMAIN server /\ server'[s] = server[s])
  BY <1>1, <1>5
<1>7. TypeOK'
  <2>1. server' \in [DOMAIN server' -> Statuses]
    BY <1>1, <1>5, <1>6 DEF IInv, TypeOK, Statuses
  <2>2. DOMAIN server' \subseteq (1 .. Len(hosts)) \X Proto
    BY <1>4, <1>5 DEF IInv, TypeOK
  <2> QED
    BY <1>1, <1>5, <2>1, <2>2 DEF IInv, TypeOK
<1>8. Reasons'
  <2> SUFFICES ASSUME NEW s \in DOMAIN server', server'[s] = "refused"
               PROVE  \/ ~options.portOk \/ hosts[s[1]] \notin Local
                      \/ \E t \in DOMAIN server' : /\ t[2] = s[2]
                                                   /\ server'[t] \in {"serving", "optionless"}
                                                   /\ Clash(hosts[t[1]], hosts[s[1]])
    <3>1. options' = options /\ hosts' = hosts
      BY <1>1
    <3> QED
      BY <3>1 DEF Reasons, Clash
  <2>1. s \in DOMAIN server /\ server[s] = "refused"
    BY <1>6
  <2>2. CASE \E t \in DOMAIN server : /\ t[2] = s[2]
                                      /\ server[t] \in {"serving", "optionless"}
                                      /\ Clash(hosts[t[1]], hosts[s[1]])
    <3>1. PICK t \in DOMAIN server : /\ t[2] = s[2]
                                     /\ server[t] \in {"serving", "optionless"}
                                     /\ Clash(hosts[t[1]], hosts[s[1]])
      BY <2>2
    <3>2. t \in DOMAIN server' /\ server'[t] = server[t]
      BY <1>1, <1>5, <1>12
    <3> QED
      BY <3>1, <3>2
  <2> QED
    BY <2>1, <2>2 DEF IInv, Reasons
<1>9. LaunchLoop'
  <2>1. Len(hosts) \in Nat
    BY <1>1
  <2>2. \A s \in DOMAIN server' : s[1] <= new
    <3>1. new \in Nat /\ new > Len(hosts) - Len(todo)
      BY <1>2, <1>3, <2>1 DEF new
    <3> QED
      BY <1>1, <1>2, <1>5, <1>10, <1>11, <2>1, <3>1
  <2> QED
    BY <1>1, <1>2, <1>13, <2>1, <2>2 DEF LaunchLoop
<1>14. MainInv'
  BY <1>1, <1>9, ServersFrame DEF Early
<1> QED
  BY <1>7, <1>8, <1>14 DEF IInv

(* A server binds or fails: for a refused one there is a reason, and the    *)
(* sockets there are stay.                                                  *)
LEMMA StartKeeps ==
  ASSUME IInv, NEW s \in DOMAIN server, Start(s)
  PROVE  IInv'
<1>1. PICK status \in Statuses :
        /\ UNCHANGED <<options, signal, pc, todo, hosts, domains, mux, request, process>>
        /\ server[s] = "starting"
        /\ server' = [server EXCEPT ![s] = status]
        /\ status = "refused" => ~Bindable(s) \/ Rivals(s, {"optionless"}) # {}
  BY DEF Start, Bind, Refuse, OptionsFail, Becomes, Statuses, list
<1>2. server \in [DOMAIN server -> Statuses]
  BY DEF IInv, TypeOK
<1>3. /\ DOMAIN server' = DOMAIN server
      /\ server' \in [DOMAIN server' -> Statuses]
      /\ server'[s] = status
      /\ \A t \in DOMAIN server \ {s} : server'[t] = server[t]
  BY <1>1, <1>2
<1>4. TypeOK'
  BY <1>1, <1>3 DEF IInv, TypeOK
<1>5. Reasons'
  <2>1. ASSUME NEW r \in DOMAIN server, server'[r] = "refused"
        PROVE  \/ ~options.portOk \/ hosts[r[1]] \notin Local
               \/ \E t \in DOMAIN server : /\ t[2] = r[2]
                                           /\ server[t] \in {"serving", "optionless"}
                                           /\ Clash(hosts[t[1]], hosts[r[1]])
    <3>1. CASE r = s
      BY <1>1, <1>3, <2>1, <3>1 DEF Bindable, Rivals
    <3>2. CASE r # s
      BY <1>3, <2>1, <3>2 DEF IInv, Reasons
    <3> QED
      BY <3>1, <3>2
  <2>2. \A t \in DOMAIN server :
          server[t] \in {"serving", "optionless"} => server'[t] = server[t]
    BY <1>1, <1>3
  <2>3. options' = options /\ hosts' = hosts
    BY <1>1
  <2> QED
    BY <1>3, <2>1, <2>2, <2>3 DEF Reasons, Clash
<1>6. pc \notin Early
  BY DEF IInv, MainInv
<1>7. pc = "launch" => LaunchLoop'
  BY <1>1, <1>3 DEF IInv, MainInv, LaunchLoop
<1>8. MainInv'
  BY <1>1, <1>6, <1>7, ServersFrame
<1> QED
  BY <1>4, <1>5, <1>8 DEF IInv

(* A request comes and goes. *)
LEMMA RequestKeeps ==
  ASSUME IInv, Answer \/ \E s \in DOMAIN server : Take(s)
  PROVE  IInv'
<1>1. /\ UNCHANGED <<options, signal, pc, todo, hosts, domains, mux, server, process>>
      /\ request' \in DOMAIN server \cup {Idle}
  BY DEF Answer, Take, list
<1>2. TypeOK' /\ Reasons'
  BY <1>1 DEF IInv, TypeOK, Reasons
<1>3. MainInv'
  BY <1>1 DEF IInv, MainInv, HostLoop, HostsDecided, DomainLoop, DomainsDecided, RegisterLoop,
              LaunchLoop, Registered, Left, Asked, AllUnusable, AnyListed
<1> QED
  BY <1>2, <1>3 DEF IInv

LEMMA Stays ==
  ASSUME IInv, UNCHANGED vars
  PROVE  IInv'
<1>1. process' \in {"up", "exited", "signalled", "stopped", "crashed"}
  BY DEF vars, IInv, TypeOK
<1> QED
  BY <1>1, Ends DEF vars, list

-----------------------------------------------------------------------------
LEMMA Step == IInv /\ [Next]_vars => IInv'
<1> SUFFICES ASSUME IInv, [Next]_vars PROVE IInv'
  OBVIOUS
<1>1. CASE Main
  BY <1>1, ExitKeeps, FlagsKeeps, HostStepKeeps, HostAnyKeeps, HostsDoneKeeps, DomainKeeps,
     DomainsDoneKeeps, CheckKeeps, RegisterKeeps, RegisterRootKeeps, LaunchKeeps, LateKeeps
     DEF Main
<1>2. CASE Interrupt \/ Signalled
  BY <1>2, LateKeeps
<1>3. CASE Starts
  BY <1>3, StartKeeps DEF Starts
<1>4. CASE Answer \/ \E s \in DOMAIN server : Take(s)
  BY <1>4, RequestKeeps
<1>5. CASE HandlerPanics
  BY <1>5, ExitKeeps
<1>6. CASE UNCHANGED vars
  BY <1>6, Stays
<1> QED
  BY <1>1, <1>2, <1>3, <1>4, <1>5, <1>6 DEF Next

(* What main's lists hold while it works on them, and why a server is       *)
(* refused.                                                                 *)
THEOREM Invariance == Spec => []IInv
  BY Initially, Step, PTL DEF Spec

(* The variables of main and of its servers keep their types (gyip.go). *)
THEOREM TypeCorrect == Spec => []TypeOK
  BY Invariance, PTL DEF IInv

(* No request ever meets a ServeMux that is not complete (gyip.go:310-343). *)
THEOREM MuxAlwaysComplete == Spec => []MuxComplete
<1>1. IInv => MuxComplete
  <2> SUFFICES ASSUME IInv, request # Idle PROVE Registered
    BY DEF MuxComplete, Registered
  <2>1. request \in DOMAIN server
    BY DEF IInv, TypeOK
  <2> QED
    BY <2>1 DEF IInv, MainInv
<1> QED
  BY <1>1, Invariance, PTL

(* For any list of hosts, with whatever doubles and overlaps, each address  *)
(* is served once all have tried (gyip.go:262-266, 331-343).                *)
THEOREM HostsAreServed == Spec => []HostsServed
<1>1. IInv => HostsServed
  <2> SUFFICES ASSUME IInv, NEW s \in DOMAIN server,
                      Settled(s[2]), options.portOk,
                      hosts[s[1]] \in Local \ Everywhere,
                      \A t \in DOMAIN server : server[t] # "optionless"
               PROVE  \E t \in DOMAIN server :
                        /\ t[2] = s[2] /\ server[t] = "serving"
                        /\ hosts[t[1]] \in {hosts[s[1]]} \cup Everywhere
    BY DEF HostsServed
  <2>1. server[s] \in {"serving", "refused"}
    BY DEF IInv, TypeOK, Statuses, Settled
  <2>2. CASE server[s] = "serving"
    BY <2>2
  <2>3. CASE server[s] = "refused"
    BY <2>3 DEF IInv, Reasons, Clash
  <2> QED
    BY <2>1, <2>2, <2>3
<1> QED
  BY <1>1, Invariance, PTL

(* For any list and whatever its names resolve to, the process listens      *)
(* everywhere only when asked to or when nothing is usable (gyip.go:350-396). *)
THEOREM NeverEverywhereUnasked == Spec => []EverywhereOnlyIfAsked
<1>1. IInv => EverywhereOnlyIfAsked
  <2> SUFFICES ASSUME IInv, NEW s \in DOMAIN server, hosts[s[1]] \in Everywhere
               PROVE  Asked \/ AllUnusable
    BY DEF EverywhereOnlyIfAsked, Asked, AllUnusable
  <2>1. s[1] \in DOMAIN hosts /\ HostsDecided
    BY DEF IInv, TypeOK, MainInv, Early
  <2> QED
    BY <2>1 DEF HostsDecided
<1> QED
  BY <1>1, Invariance, PTL

(* The literal 0.0.0.0 stands alone (gyip.go:364-367). *)
THEOREM AnyStandsAlone == Spec => []AnyAlone
<1>1. IInv => AnyAlone
  <2> SUFFICES ASSUME IInv, NEW s \in DOMAIN server, AnyListed
               PROVE  s[1] = 1
    BY DEF AnyAlone, AnyListed
  <2>1. s[1] \in 1 .. Len(hosts) /\ HostsDecided
    BY DEF IInv, TypeOK, MainInv, Early
  <2> QED
    <3>1. Len(hosts) = 1
      BY <2>1 DEF HostsDecided
    <3> QED
      BY <2>1, <3>1
<1> QED
  BY <1>1, Invariance, PTL
=============================================================================
